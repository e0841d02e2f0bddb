--------------------------- MODULE ApprovalProofs ---------------------------
(***************************************************************************)
(* Proofs about ApprovalResolution, for any number of processes, keys,      *)
(* crashes and other runs, any amounts over the threshold and any limit.    *)
(***************************************************************************)
EXTENDS ApprovalResolution, TLAPS

-----------------------------------------------------------------------------
(* The inductive invariant.  Its parts are operators on the durable state   *)
(* (approval a, document d, receipts r) and on one process's local state p. *)

Granted(a) == a.status = "APPROVED"
Refused(a) == a.status \in {"REJECTED", "EXPIRED"}

\* Control points of a continuation before AGENT_RESUMED is recorded, and after.
Early == {"decisionEvent", "resumeRun", "resumeAgent"}
Late == {"attempt", "decide", "recordAllow", "recordBlock", "blocked", "effect", "receipt",
         "succeed", "toolFailed", "agentDone", "commsStart", "finish", "failRun"}

\* The approval is decided once, and nothing is durable before.
RecordShape(a, d, l, r, rp) ==
  /\ a.status = "PENDING_APPROVAL" =>
       a.version = 1 /\ d = PausedDocument /\ l = {} /\ r = {} /\ rp = {}
  /\ a.status # "PENDING_APPROVAL" =>
       a.version = 2 /\ a.status = StatusOf(a.by.decision) /\ \A c \in rp : c = a.by

\* The document of an approved run: waiting or running with its amount reserved,
\* then booked and paid.
GrantedShape(d, l, r) ==
  /\ "cancel" \notin r
  /\ d.status \in {"PENDING_APPROVAL", "RUNNING", "COMPLETED", "BLOCKED", "FAILED"}
  /\ d.prep \in {"PENDING_APPROVAL", "APPROVED", "CONFIRMED"}
  /\ d.prep # "CONFIRMED" => d.reserved = Amount /\ d.committed = Base /\ d.bound
  /\ d.prep = "CONFIRMED" => /\ d.reserved = 0 /\ d.committed = Base + Amount /\ d.booked
                             /\ "confirm" \in r
  /\ d.status = "PENDING_APPROVAL" => d.prep # "CONFIRMED" /\ r = {} /\ "RUN_RESUMED" \notin l
  /\ d.prep = "PENDING_APPROVAL" => d.status = "PENDING_APPROVAL" /\ "APPROVED" \notin l
  /\ "outbox" \in r => d.prep = "CONFIRMED"
  /\ d.notified => "outbox" \in r
  /\ d.status = "COMPLETED" => d.prep = "CONFIRMED" /\ d.notified
  /\ d.status = "BLOCKED" => r = {}

\* The document of a refused run: waiting until the amount is released, then
\* cancelled.  A repeated cancellation marks the released action anew.
RefusedShape(a, d, r) ==
  /\ "confirm" \notin r /\ "outbox" \notin r
  /\ d.status \in {"PENDING_APPROVAL", "CANCELLED"}
  /\ d.prep \in {"PENDING_APPROVAL", a.status, "CANCELLED"}
  /\ d.committed = Base /\ d.reserved \in {0, Amount}
  /\ d.reserved = 0 => "cancel" \in r
  /\ d.prep = "CANCELLED" => d.reserved = 0
  /\ d.status = "CANCELLED" => d.prep = "CANCELLED"

Shape(a, d, l, r, rp) ==
  /\ RecordShape(a, d, l, r, rp)
  /\ Granted(a) => GrantedShape(d, l, r)
  /\ Refused(a) => RefusedShape(a, d, r)

\* Two documents that agree on the commitment, whatever their status and calls.
SameCommitment(s, d) ==
  /\ s.prep = d.prep /\ s.reserved = d.reserved /\ s.committed = d.committed
  /\ s.bound = d.bound /\ s.booked = d.booked /\ s.notified = d.notified

\* The tool's effect is on record and the document is ready to have it applied.
Applicable(tool, d, r) ==
  /\ tool \in r
  /\ tool = "confirm" => d.prep = "APPROVED"
  /\ tool = "outbox" => d.prep = "CONFIRMED"

\* What RUN_FAILED persists: the document with a terminal status, or, when the
\* storage failed after TOOL_SUCCEEDED, with the effect applied as well.
FailedFrom(p, d, r) ==
  \/ p.snap.status = "FAILED" /\ SameCommitment(p.snap, d)
  \/ p.snap.status = "BLOCKED" /\ SameCommitment(p.snap, d) /\ r = {}
  \/ /\ p.snap.status = "FAILED" /\ SameCommitment(p.snap, Applied(d, p.tool))
     /\ Applicable(p.tool, d, r)

\* The process that resumes an approved run: its snapshot is current at every step.
Resuming(p, d, r) ==
  /\ p.pc = "resumeRun" /\ p.fresh => d.prep = "APPROVED"
  /\ p.pc = "resumeAgent" /\ p.fresh => d.status = "RUNNING" /\ d.prep = "APPROVED" /\ r = {}
  /\ p.pc \in Late => p.fresh /\ d.status = "RUNNING" /\ p.tool \in {"confirm", "outbox"}
  /\ p.pc \in Late \ {"agentDone", "failRun"} => p.snap = d
  /\ p.pc \in Late \ {"succeed", "toolFailed", "agentDone", "commsStart", "finish", "failRun"} =>
       (p.tool = "confirm" => r = {} /\ d.prep = "APPROVED")
  /\ p.pc \in {"succeed", "agentDone"} => p.tool \in r
  /\ p.pc \in {"succeed", "agentDone"} /\ p.tool = "confirm" => d.prep = "APPROVED"
  /\ p.pc = "agentDone" => p.snap = Applied(d, p.tool)
  /\ p.pc = "commsStart" => d.prep = "CONFIRMED"
  /\ p.pc \in Late \ {"failRun"} /\ p.tool = "outbox" => d.prep = "CONFIRMED"
  /\ p.pc = "finish" => p.tool = "outbox" /\ d.notified
  /\ p.pc = "failRun" => FailedFrom(p, d, r)

\* A process that cancels a refused run: others may overtake it, and its snapshot
\* then is of no use, but its effect is the one that was decided.
Cancelling(p, a, d, r) ==
  /\ p.pc \notin {"resumeRun", "failRun", "commsStart"}
  /\ p.pc \in Early \cup Late /\ p.fresh => d.status = "PENDING_APPROVAL"
  /\ p.pc \in Late => p.tool = "cancel"
  /\ p.pc \in Late \ {"agentDone"} /\ p.fresh => p.snap = d
  /\ p.pc \in Late \ {"attempt", "agentDone", "finish"} /\ p.fresh => d.prep = a.status
  /\ p.pc \in {"succeed", "agentDone", "finish"} => "cancel" \in r
  /\ p.pc = "agentDone" /\ p.fresh => 
       p.snap = Applied(d, "cancel") /\ d.prep = a.status /\ d.reserved = Amount
  /\ p.pc = "finish" /\ p.fresh => d.prep = "CANCELLED"

\* What a process knows of the approval and of the document.
Informed(p, a, d, r) ==
  /\ p.pc = "load" /\ p.appr.status = "PENDING_APPROVAL" => p.appr.version = 1
  /\ p.pc = "load" /\ p.appr.status # "PENDING_APPROVAL" => p.appr = a /\ a.by = p.cmd
  /\ p.pc = "claim" => p.appr.version = 1 /\ (p.fresh => p.snap = d)
  /\ p.pc \in Early \cup Late \cup {"recordReplay"} =>
       p.appr = a /\ a.status # "PENDING_APPROVAL" /\ a.by = p.cmd
  /\ p.pc \in Early /\ p.fresh => p.snap = d
  /\ p.pc \in {"decisionEvent", "resumeRun"} /\ p.fresh => d.status = "PENDING_APPROVAL"
  /\ Granted(a) => Resuming(p, d, r)
  /\ Refused(a) => Cancelling(p, a, d, r)

\* A process past RUN_RESUMED.
Engaged(p) == p.pc \in Late \/ (p.pc = "resumeAgent" /\ p.fresh)

\* RUN_RESUMED lets one process through.
Solo(a, ps) ==
  Granted(a) => \A i, j \in Instances : Engaged(ps[i]) /\ Engaged(ps[j]) => i = j

IInv ==
  /\ TypeOK
  /\ Shape(approval, doc, log, receipts, replays)
  /\ \A i \in Instances : Informed(proc[i], approval, doc, receipts)
  /\ Solo(approval, proc)

-----------------------------------------------------------------------------
(* Local states.                                                           *)

\* The types a process's fields have.
LEMMA ProcessFields ==
  ASSUME NEW p \in Process
  PROVE  /\ p.pc \in ControlPoints /\ p.cmd \in Command /\ p.appr \in ApprovalRecord
         /\ p.snap \in Document /\ p.fresh \in BOOLEAN /\ p.tool \in Tools
         /\ p.appr.status \in ApprovalStatus /\ p.appr.version \in {1, 2}
BY DEF Process, ApprovalRecord

\* The records that do not depend on the state have their types.
LEMMA ConstantTypes ==
  /\ Sweep \in Command /\ PendingRecord \in ApprovalRecord
  /\ PausedDocument \in Document /\ IdleProcess \in Process
<1>1. Sweep \in Command
  BY DEF Sweep, Command
<1>2. PendingRecord \in ApprovalRecord
  BY <1>1 DEF PendingRecord, ApprovalRecord, ApprovalStatus
<1>3. PausedDocument \in Document
  BY ApprovalAssumption DEF PausedDocument, Document, RunStatus, CommitmentStatus
<1>4. IdleProcess \in Process
  BY <1>1, <1>2, <1>3 DEF IdleProcess, Process, ControlPoints, Tools
<1> QED
  BY <1>1, <1>2, <1>3, <1>4

\* Nothing is claimed of an idle process, and it is not engaged.
LEMMA IdleInformed ==
  ASSUME NEW a, NEW d, NEW r
  PROVE  Informed(IdleProcess, a, d, r) /\ ~Engaged(IdleProcess)
BY DEF IdleProcess, Informed, Resuming, Cancelling, Engaged, Early, Late

\* What remains true of a process whose snapshot was overtaken by document e.
LEMMA StaleInformed ==
  ASSUME NEW a, NEW d, NEW e, NEW r, NEW p \in Process,
         Informed(p, a, d, r), Granted(a) => p.pc \notin Late
  PROVE  /\ Informed([p EXCEPT !.fresh = FALSE], a, e, r)
         /\ Engaged([p EXCEPT !.fresh = FALSE]) => Engaged(p)
         /\ [p EXCEPT !.fresh = FALSE] \in Process
<1> DEFINE s == [p EXCEPT !.fresh = FALSE]
<1>1. /\ s.pc = p.pc /\ s.cmd = p.cmd /\ s.appr = p.appr /\ s.snap = p.snap
      /\ s.fresh = FALSE /\ s.tool = p.tool
  BY DEF Process
<1>2. s \in Process
  BY DEF Process
<1> HIDE DEF s
<1>3. Engaged(s) => Engaged(p)
  BY <1>1 DEF Engaged
<1>4. Granted(a) => Resuming(s, e, r)
  BY <1>1 DEF Resuming, Late
<1>5. Refused(a) => Cancelling(s, a, e, r)
  BY <1>1 DEF Informed, Cancelling, Late, Early
<1>6. Informed(s, a, e, r)
  BY <1>1, <1>4, <1>5 DEF Informed
<1> QED
  BY <1>2, <1>3, <1>6 DEF s

-----------------------------------------------------------------------------
(* The two ways a process goes on.                                         *)

\* A step that touches no durable state but what IInv does not restrict keeps
\* the processes' part of the invariant if it does for the process that steps.
LEMMA LocalStep ==
  ASSUME IInv, NEW i \in Instances, NEW q \in Process, Continue(i, q),
         approval' = approval, doc' = doc, receipts' = receipts,
         Informed(q, approval, doc, receipts),
         Granted(approval) /\ Engaged(q) => Engaged(proc[i])
  PROVE  /\ proc' \in [Instances -> Process]
         /\ \A j \in Instances : Informed(proc'[j], approval', doc', receipts')
         /\ Solo(approval', proc')
<1>1. proc \in [Instances -> Process]
  BY DEF IInv, TypeOK
<1>2. /\ proc' \in [Instances -> Process]
      /\ \A j \in Instances : proc'[j] = IF j = i THEN q ELSE proc[j]
  BY <1>1 DEF Continue
<1>3. \A j \in Instances : Informed(proc'[j], approval', doc', receipts')
  BY <1>2 DEF IInv
<1>4. Solo(approval', proc')
  BY <1>2 DEF IInv, Solo
<1> QED
  BY <1>2, <1>3, <1>4

Keyed == ApprovalStatus \cup {"RUN_RESUMED", "COMPLETED", "CANCELLED"}

\* append_event keeps the invariant if what it persists, and where the process
\* goes on, are right both when the event is new and when it is on record.
LEMMA AppendStep ==
  ASSUME IInv, NEW i \in Instances, NEW key \in Keyed \cup {Unkeyed},
         NEW d \in Document, NEW q \in Process,
         AppendEvent(i, key, d, q), proc[i].pc \in Early \cup Late,
         UNCHANGED <<approval, replays, receipts, told, expired, mock, disturbances>>,
         key \in log => /\ Informed(q, approval, doc, receipts)
                        /\ Granted(approval) /\ Engaged(q) => Engaged(proc[i]),
         proc[i].fresh /\ key \notin log =>
           /\ Shape(approval, d, log \cup ({key} \ {Unkeyed}), receipts, replays)
           /\ Informed(q, approval, d, receipts)
  PROVE  IInv'
<1>1. /\ proc \in [Instances -> Process] /\ proc[i] \in Process
      /\ log \subseteq Keyed /\ Unkeyed \notin Keyed
  BY DEF IInv, TypeOK, Keyed, Unkeyed, ApprovalStatus
<1>2. CASE key \in log /\ Continue(i, q) /\ UNCHANGED <<doc, log>>
  BY <1>2, LocalStep DEF IInv, TypeOK
<1>3. CASE Return(i) /\ UNCHANGED <<doc, log>>
  BY <1>3, LocalStep, IdleInformed, ConstantTypes DEF IInv, TypeOK, Return
<1>4. CASE /\ key \notin log /\ proc[i].fresh /\ doc' = d
           /\ log' = log \cup ({key} \ {Unkeyed})
           /\ proc' = [j \in Instances |->
                         IF j = i THEN q ELSE [proc[j] EXCEPT !.fresh = FALSE]]
  <2>1. /\ Informed(proc[i], approval, doc, receipts)
        /\ Solo(approval, proc)
    BY DEF IInv
  <2>2. ASSUME NEW j \in Instances, j # i, Granted(approval) PROVE ~Engaged(proc[j])
    <3> SUFFICES ASSUME Engaged(proc[j]) PROVE FALSE
      OBVIOUS
    <3>1. doc.status = "RUNNING"
      BY <2>2 DEF IInv, Informed, Resuming, Engaged
    <3>2. Engaged(proc[i])
      BY <2>1, <1>4, <3>1 DEF Informed, Engaged, Early
    <3> QED
      BY <3>2, <2>1, <2>2 DEF Solo
  <2>3. ASSUME NEW j \in Instances, j # i
        PROVE  /\ Informed(proc'[j], approval, d, receipts)
               /\ Engaged(proc'[j]) => Engaged(proc[j])
               /\ proc'[j] \in Process
    <3>1. proc'[j] = [proc[j] EXCEPT !.fresh = FALSE]
      BY <1>4, <2>3
    <3>2. proc[j] \in Process /\ Informed(proc[j], approval, doc, receipts)
      BY <1>1 DEF IInv
    <3>3. Granted(approval) => proc[j].pc \notin Late
      BY <2>2, <2>3 DEF Engaged
    <3> QED
      BY <3>1, <3>2, <3>3, StaleInformed
  <2>4. proc'[i] = q
    BY <1>4
  <2>5. proc' \in [Instances -> Process]
    BY <1>4, <2>3, <2>4
  <2>6. \A j \in Instances : Informed(proc'[j], approval', doc', receipts')
    BY <1>4, <2>3, <2>4
  <2>7. Solo(approval', proc')
    BY <2>2, <2>3 DEF Solo
  <2>8. TypeOK'
    BY <1>1, <1>4, <2>5 DEF IInv, TypeOK, Keyed
  <2>9. Shape(approval', doc', log', receipts', replays')
    BY <1>4
  <2> QED
    BY <2>6, <2>7, <2>8, <2>9 DEF IInv
<1> QED
  BY <1>2, <1>3, <1>4 DEF AppendEvent

-----------------------------------------------------------------------------
(* The initial state.                                                      *)

\* The paused run satisfies the invariant: nothing is decided, and nothing
\* but the preparation is durable.
LEMMA InitIInv == Init => IInv
<1> SUFFICES ASSUME Init PROVE IInv
  OBVIOUS
<1>1. TypeOK
  BY ConstantTypes DEF Init, TypeOK, MockStore, ColdStore
<1>2. approval.status = "PENDING_APPROVAL" /\ approval.version = 1
  BY DEF Init, PendingRecord
<1>3. Shape(approval, doc, log, receipts, replays)
  BY <1>2 DEF Init, Shape, RecordShape, Granted, Refused
<1>4. \A i \in Instances : Informed(proc[i], approval, doc, receipts)
  BY IdleInformed DEF Init
<1>5. Solo(approval, proc)
  BY <1>2 DEF Solo, Granted
<1> QED
  BY <1>1, <1>3, <1>4, <1>5 DEF IInv

-----------------------------------------------------------------------------
(* What a step may use.                                                    *)

\* The invariant as process i sees it.
LEMMA Known ==
  ASSUME IInv, NEW i \in Instances
  PROVE  /\ proc[i] \in Process /\ Informed(proc[i], approval, doc, receipts)
         /\ Shape(approval, doc, log, receipts, replays)
         /\ approval \in ApprovalRecord /\ doc \in Document /\ receipts \subseteq Tools
         /\ approval.status = "PENDING_APPROVAL" \/ Granted(approval) \/ Refused(approval)
         /\ ~(Granted(approval) /\ Refused(approval))
         /\ log \subseteq Keyed /\ Unkeyed \notin log
BY DEF IInv, TypeOK, Keyed, Unkeyed, ApprovalStatus, ApprovalRecord, Granted, Refused

\* A continuation runs on a decided approval that it knows.
LEMMA Continuing ==
  ASSUME IInv, NEW i \in Instances, proc[i].pc \in Early \cup Late
  PROVE  /\ proc[i].appr = approval /\ approval.by = proc[i].cmd
         /\ Granted(approval) \/ Refused(approval)
         /\ Granted(approval) <=> proc[i].appr.status = "APPROVED"
         /\ Granted(approval) => Resuming(proc[i], doc, receipts)
         /\ Refused(approval) => Cancelling(proc[i], approval, doc, receipts)
BY Known DEF Informed, Granted

\* A step that leaves the durable state as it is.
LEMMA QuietStep ==
  ASSUME IInv, NEW i \in Instances, NEW q \in Process, Continue(i, q),
         UNCHANGED <<approval, doc, log, receipts, replays>>,
         Informed(q, approval, doc, receipts),
         Granted(approval) /\ Engaged(q) => Engaged(proc[i]),
         told' \in [Tools -> Nat], expired' \in BOOLEAN, mock' \in [Instances -> MockStore],
         disturbances' \in Nat
  PROVE  IInv'
<1>1. /\ proc' \in [Instances -> Process]
      /\ \A j \in Instances : Informed(proc'[j], approval', doc', receipts')
      /\ Solo(approval', proc')
  BY LocalStep
<1> QED
  BY <1>1 DEF IInv, TypeOK

\* A request that ends without touching the durable state.
LEMMA ReturnStep ==
  ASSUME IInv, NEW i \in Instances, Return(i),
         UNCHANGED <<approval, doc, log, receipts, replays>>,
         told' \in [Tools -> Nat], expired' \in BOOLEAN, mock' \in [Instances -> MockStore],
         disturbances' \in Nat
  PROVE  IInv'
BY QuietStep, IdleInformed, ConstantTypes DEF Return

\* append_event of an event that is never a replay.
LEMMA UnkeyedStep ==
  ASSUME IInv, NEW i \in Instances, NEW d \in Document, NEW q \in Process,
         AppendEvent(i, Unkeyed, d, q), proc[i].pc \in Early \cup Late,
         UNCHANGED <<approval, replays, receipts, told, expired, mock, disturbances>>,
         proc[i].fresh => /\ Shape(approval, d, log, receipts, replays)
                          /\ Informed(q, approval, d, receipts)
  PROVE  IInv'
<1>1. log \cup ({Unkeyed} \ {Unkeyed}) = log
  OBVIOUS
<1>2. Unkeyed \notin log
  BY Known
<1> QED
  BY <1>1, <1>2, AppendStep

\* An exception in a continuation leads to RUN_FAILED or ends the request.
LEMMA ThrownInformed ==
  ASSUME IInv, NEW i \in Instances, proc[i].pc \in Late, NEW s \in Document,
         NEW status \in {"FAILED", "BLOCKED"},
         Granted(approval) => s = doc /\ (status = "BLOCKED" => receipts = {})
  PROVE  /\ Thrown(i, s, status) \in Process
         /\ Informed(Thrown(i, s, status), approval, doc, receipts)
         /\ Engaged(Thrown(i, s, status)) => Engaged(proc[i])
<1> DEFINE q == Thrown(i, s, status)
<1>1. Engaged(proc[i])
  BY DEF Engaged
<1>2. CASE Refused(approval)
  <2>1. q = IdleProcess
    BY <1>2, Continuing, Known DEF Thrown
  <2> QED
    BY <2>1, <1>1, IdleInformed, ConstantTypes
<1>3. CASE Granted(approval)
  <2> DEFINE p == proc[i]
  <2>1. p \in Process /\ Informed(p, approval, doc, receipts) /\ ~Refused(approval)
    BY <1>3, Known
  <2>2. q = [p EXCEPT !.pc = "failRun", !.snap = [s EXCEPT !.status = status]]
    BY <1>3, Continuing DEF Thrown
  <2>3. [s EXCEPT !.status = status] \in Document
    BY DEF Document, RunStatus
  <2>4. /\ q.pc = "failRun" /\ q.snap = [s EXCEPT !.status = status] /\ q.cmd = p.cmd
        /\ q.appr = p.appr /\ q.fresh = p.fresh /\ q.tool = p.tool
    BY <2>1, <2>2 DEF Process
  <2>5. q \in Process
    BY <2>1, <2>2, <2>3 DEF Process, ControlPoints
  <2>6. /\ p.fresh /\ doc.status = "RUNNING" /\ p.tool \in {"confirm", "outbox"}
        /\ p.appr = approval /\ approval.by = p.cmd
    BY <1>3, Continuing DEF Resuming
  <2> HIDE DEF q, p
  <2>7. FailedFrom(q, doc, receipts)
    <3>1. q.snap.status = status /\ SameCommitment(q.snap, doc)
      BY <1>3, <2>4 DEF Document, SameCommitment
    <3> QED
      BY <1>3, <3>1 DEF FailedFrom
  <2>8. Resuming(q, doc, receipts)
    BY <1>3, <2>4, <2>6, <2>7 DEF Resuming, Late
  <2>9. Informed(q, approval, doc, receipts)
    BY <1>3, <2>1, <2>4, <2>6, <2>8 DEF Informed, Early, Granted
  <2> QED
    BY <1>1, <2>5, <2>9 DEF q
<1> QED
  BY <1>2, <1>3, Continuing

-----------------------------------------------------------------------------
(* Steps that leave the document as it is.                                 *)

\* A command that arrives has read nothing yet.
LEMMA ReceiveCommandStep ==
  ASSUME IInv, NEW i \in Instances, NEW c \in ClientCommands, ReceiveCommand(i, c)
  PROVE  IInv'
<1> DEFINE q == [proc[i] EXCEPT !.pc = "readApproval", !.cmd = c]
<1>1. c \in Command
  BY ApprovalAssumption DEF ClientCommands, Command
<1>2. q \in Process /\ q.pc = "readApproval"
  BY <1>1, Known DEF Process, ControlPoints
<1>3. Continue(i, q)
  BY DEF ReceiveCommand
<1> HIDE DEF q
<1>4. Informed(q, approval, doc, receipts) /\ ~Engaged(q)
  BY <1>2 DEF Informed, Resuming, Cancelling, Engaged, Early, Late
<1> QED
  BY <1>2, <1>3, <1>4, QuietStep DEF ReceiveCommand, IInv, TypeOK

\* The record a command read is pending, or decided by this very command.
LEMMA ReadApprovalStep ==
  ASSUME IInv, NEW i \in Instances, ReadApproval(i)
  PROVE  IInv'
<1> DEFINE q == [proc[i] EXCEPT !.pc = "load", !.appr = approval]
<1>1. CASE Return(i)
  BY <1>1, ReturnStep DEF ReadApproval, IInv, TypeOK
<1>2. CASE /\ Continue(i, q)
           /\ \/ approval.status = "PENDING_APPROVAL"
              \/ Matches(approval, proc[i].cmd)
  <2>1. q \in Process /\ q.pc = "load" /\ q.appr = approval /\ q.cmd = proc[i].cmd
    BY Known DEF Process, ControlPoints
  <2>2. approval.status = "PENDING_APPROVAL" => approval.version = 1
    BY Known DEF Shape, RecordShape
  <2> HIDE DEF q
  <2>3. Informed(q, approval, doc, receipts) /\ ~Engaged(q)
    BY <1>2, <2>1, <2>2 DEF Informed, Resuming, Cancelling, Engaged, Early, Late, Matches
  <2> QED
    BY <1>2, <2>1, <2>3, QuietStep DEF ReadApproval, IInv, TypeOK
<1> QED
  BY <1>1, <1>2 DEF ReadApproval

\* The sweep lists approvals that are pending.
LEMMA SweepDueStep ==
  ASSUME IInv, NEW i \in Instances, SweepDue(i)
  PROVE  IInv'
<1> DEFINE q == [proc[i] EXCEPT !.pc = "load", !.cmd = Sweep, !.appr = approval]
<1>1. q \in Process /\ q.pc = "load" /\ q.appr = approval
  BY Known, ConstantTypes DEF Process, ControlPoints
<1>2. approval.status = "PENDING_APPROVAL" /\ approval.version = 1
  BY Known DEF Shape, RecordShape, SweepDue
<1>3. Continue(i, q)
  BY DEF SweepDue
<1> HIDE DEF q
<1>4. Informed(q, approval, doc, receipts) /\ ~Engaged(q)
  BY <1>1, <1>2 DEF Informed, Resuming, Cancelling, Engaged, Early, Late
<1> QED
  BY <1>1, <1>3, <1>4, QuietStep DEF SweepDue, IInv, TypeOK

\* A loaded snapshot is current; a decided run that still waits is continued.
LEMMA LoadTraceStep ==
  ASSUME IInv, NEW i \in Instances, LoadTrace(i)
  PROVE  IInv'
<1> DEFINE p == [proc[i] EXCEPT !.snap = doc, !.fresh = TRUE]
<1>1. /\ p \in Process /\ p.snap = doc /\ p.fresh = TRUE /\ p.pc = "load"
      /\ p.cmd = proc[i].cmd /\ p.appr = proc[i].appr /\ p.tool = proc[i].tool
  BY Known DEF Process, LoadTrace, At
<1>2. /\ p.appr.status = "PENDING_APPROVAL" => p.appr.version = 1
      /\ p.appr.status # "PENDING_APPROVAL" => p.appr = approval /\ approval.by = p.cmd
  BY <1>1, Known DEF Informed
<1> HIDE DEF p
<1>3. CASE Return(i)
  BY <1>3, ReturnStep DEF LoadTrace, IInv, TypeOK
<1>4. ASSUME NEW c \in {Sweep, p.cmd}, Continue(i, [p EXCEPT !.pc = "claim", !.cmd = c]),
             p.appr.status = "PENDING_APPROVAL"
      PROVE  IInv'
  <2> DEFINE q == [p EXCEPT !.pc = "claim", !.cmd = c]
  <2>1. /\ q \in Process /\ q.pc = "claim" /\ q.appr = p.appr /\ q.snap = doc
    BY <1>1, ConstantTypes DEF Process, ControlPoints
  <2> HIDE DEF q
  <2>2. Informed(q, approval, doc, receipts) /\ ~Engaged(q)
    BY <1>2, <1>4, <2>1 DEF Informed, Resuming, Cancelling, Engaged, Early, Late
  <2>3. Continue(i, q)
    BY <1>4 DEF q
  <2> QED
    BY <2>1, <2>2, <2>3, QuietStep DEF LoadTrace, IInv, TypeOK
<1>5. ASSUME NEW next, next = ContinueAt(doc),
             Continue(i, [p EXCEPT !.pc = next]), p.appr.status # "PENDING_APPROVAL"
      PROVE  IInv'
  <2> DEFINE q == [p EXCEPT !.pc = next]
  <2>1. /\ q \in Process /\ q.pc = next /\ q.appr = p.appr /\ q.snap = doc /\ q.cmd = p.cmd
    BY <1>1, <1>5 DEF Process, ControlPoints, ContinueAt
  <2> HIDE DEF q
  <2>2. Informed(q, approval, doc, receipts) /\ ~Engaged(q)
    BY <1>2, <1>5, <2>1 DEF ContinueAt, Informed, Resuming, Cancelling, Engaged, Early, Late
  <2>3. Continue(i, q)
    BY <1>5 DEF q
  <2> QED
    BY <2>1, <2>2, <2>3, QuietStep DEF LoadTrace, IInv, TypeOK
<1>6. [p EXCEPT !.pc = "claim"] = [p EXCEPT !.pc = "claim", !.cmd = p.cmd]
  BY <1>1 DEF Process
<1> QED
  BY <1>3, <1>4, <1>5, <1>6 DEF LoadTrace, p

\* A replay record is of the command that decided.
LEMMA RecordReplayStep ==
  ASSUME IInv, NEW i \in Instances, RecordReplay(i)
  PROVE  IInv'
<1>1. /\ proc[i].pc = "recordReplay" /\ approval.status # "PENDING_APPROVAL"
      /\ approval.by = proc[i].cmd /\ proc[i].cmd \in Command
  BY Known, ProcessFields DEF RecordReplay, At, Informed
<1>2. /\ replays' \subseteq replays \cup {approval.by} /\ replays' \subseteq Command
      /\ UNCHANGED <<approval, doc, log, receipts, told, expired, mock, disturbances>>
  BY <1>1 DEF RecordReplay, IInv, TypeOK
<1>3. Shape(approval', doc', log', receipts', replays')
  BY <1>1, <1>2, Known DEF Shape, RecordShape
<1>4. /\ proc' \in [Instances -> Process]
      /\ \A j \in Instances : Informed(proc'[j], approval', doc', receipts')
      /\ Solo(approval', proc')
  BY <1>2, LocalStep, IdleInformed, ConstantTypes DEF RecordReplay, Return
<1> QED
  BY <1>2, <1>3, <1>4 DEF IInv, TypeOK

\* A process's caches keep their type when an effect is marked in them.
LEMMA MockStep ==
  ASSUME mock \in [Instances -> MockStore], NEW i \in Instances, NEW c, NEW x
  PROVE  [mock EXCEPT ![i].confirmed = @ \/ c, ![i].cancelled = @ \/ x]
           \in [Instances -> MockStore]
<1> DEFINE m == [mock[i] EXCEPT !.confirmed = mock[i].confirmed \/ c,
                                !.cancelled = mock[i].cancelled \/ x]
<1>1. mock[i] \in MockStore
  OBVIOUS
<1>2. (mock[i].confirmed \/ c) \in BOOLEAN /\ (mock[i].cancelled \/ x) \in BOOLEAN
  OBVIOUS
<1>3. ASSUME NEW y \in BOOLEAN, NEW z \in BOOLEAN
      PROVE  [mock[i] EXCEPT !.confirmed = y, !.cancelled = z] \in MockStore
  BY <1>1 DEF MockStore
<1>4. m \in MockStore
  BY <1>2, <1>3
<1>5. [mock EXCEPT ![i].confirmed = @ \/ c, ![i].cancelled = @ \/ x] = [mock EXCEPT ![i] = m]
  BY <1>1 DEF MockStore
<1> HIDE DEF m
<1> QED
  BY <1>4, <1>5

\* Executing the tool changes this process's caches only.
LEMMA ExecuteEffectStep ==
  ASSUME IInv, NEW i \in Instances, ExecuteEffect(i)
  PROVE  IInv'
<1> DEFINE p == proc[i]
<1>1. p \in Process /\ p.pc = "effect" /\ p.pc \in Late /\ Informed(p, approval, doc, receipts)
  BY Known DEF ExecuteEffect, At, Late
<1>2. mock' \in [Instances -> MockStore]
  <2>1. mock \in [Instances -> MockStore]
    BY DEF IInv, TypeOK
  <2>2. [mock EXCEPT ![i].confirmed = @ \/ p.tool = "confirm",
                     ![i].cancelled = @ \/ p.tool = "cancel"] \in [Instances -> MockStore]
    BY <2>1, MockStep
  <2> QED
    BY <2>1, <2>2, Zenon DEF ExecuteEffect
<1>0. told' \in [Tools -> Nat]
  BY <1>1, ProcessFields DEF ExecuteEffect, IInv, TypeOK
<1>3. ASSUME NEW next \in {"succeed", "toolFailed", "receipt"},
             Continue(i, [p EXCEPT !.pc = next]), next = "succeed" => p.tool \in receipts
      PROVE  IInv'
  <2> DEFINE q == [p EXCEPT !.pc = next]
  <2>1. /\ q \in Process /\ q.pc = next /\ q.appr = p.appr /\ q.snap = p.snap
        /\ q.cmd = p.cmd /\ q.fresh = p.fresh /\ q.tool = p.tool
    BY <1>1 DEF Process, ControlPoints
  <2>2. Continue(i, q)
    BY <1>3
  <2> HIDE DEF q, p
  <2>3. Granted(approval) => Resuming(q, doc, receipts)
    BY <1>1, <1>3, <2>1 DEF Informed, Resuming, Late
  <2>4. Refused(approval) => Cancelling(q, approval, doc, receipts)
    BY <1>1, <1>3, <2>1 DEF Informed, Cancelling, Early, Late
  <2>5. Informed(q, approval, doc, receipts)
    BY <1>1, <1>3, <2>1, <2>3, <2>4 DEF Informed, Early, Late
  <2>6. Engaged(p)
    BY <1>1 DEF Engaged
  <2> QED
    BY <1>0, <1>2, <2>1, <2>2, <2>5, <2>6, QuietStep DEF ExecuteEffect, IInv, TypeOK, p
<1> QED
  BY <1>3 DEF ExecuteEffect

\* A crash loses what was in memory, and nothing else.
LEMMA CrashStep ==
  ASSUME IInv, NEW i \in Instances, Crash(i)
  PROVE  IInv'
<1>1. mock' \in [Instances -> MockStore]
  BY DEF Crash, IInv, TypeOK, ColdStore, MockStore
<1>2. disturbances' \in Nat
  BY DEF Crash, IInv, TypeOK
<1> QED
  BY <1>1, <1>2, ReturnStep DEF Crash, IInv, TypeOK

\* What a request that failed leaves to the handler of the granted run.
LEMMA FailedAppendInformed ==
  ASSUME IInv, NEW i \in Instances, Granted(approval), proc[i].pc \in InTry
  PROVE  /\ FailedAppend(proc[i]) \in Process
         /\ Informed(FailedAppend(proc[i]), approval, doc, receipts)
<1> DEFINE p == proc[i]
           q == FailedAppend(p)
           c == p.snap.calls + (IF p.pc = "attempt" THEN 1 ELSE 0)
           s == [p.snap EXCEPT !.status = "FAILED", !.calls = c]
<1>1. /\ p \in Process /\ p.snap \in Document /\ p.pc \in Late \ {"failRun", "receipt"}
      /\ Informed(p, approval, doc, receipts) /\ ~Refused(approval)
  BY Known, ProcessFields DEF InTry, Late
<1>2. c \in Nat
  BY <1>1 DEF Document
<1>3. s \in Document /\ s.status = "FAILED" /\ SameCommitment(s, p.snap)
  BY <1>1, <1>2 DEF Document, RunStatus, SameCommitment
<1>4. q = [p EXCEPT !.pc = "failRun", !.snap = s]
  BY <1>1 DEF FailedAppend, Process, Document
<1> HIDE DEF s, q
<1>5. /\ q \in Process /\ q.pc = "failRun" /\ q.snap = s /\ q.cmd = p.cmd /\ q.appr = p.appr
      /\ q.fresh = p.fresh /\ q.tool = p.tool
  BY <1>1, <1>3, <1>4 DEF Process, ControlPoints
<1>6. Resuming(p, doc, receipts) /\ p.appr = approval /\ approval.by = p.cmd
  BY <1>1 DEF Informed
<1>7. FailedFrom(q, doc, receipts)
  <2>1. CASE p.pc = "agentDone"
    <3>1. p.snap = Applied(doc, p.tool) /\ Applicable(p.tool, doc, receipts)
      BY <1>6, <2>1 DEF Resuming, Applicable, Late
    <3> QED
      BY <1>3, <1>5, <3>1 DEF FailedFrom
  <2>2. CASE p.pc # "agentDone"
    <3>1. p.snap = doc
      BY <1>1, <1>6, <2>2 DEF Resuming
    <3> QED
      BY <1>3, <1>5, <3>1 DEF FailedFrom
  <2> QED
    BY <2>1, <2>2
<1>8. Resuming(q, doc, receipts)
  BY <1>1, <1>5, <1>6, <1>7 DEF Resuming, Late
<1>9. Informed(q, approval, doc, receipts)
  BY <1>1, <1>5, <1>6, <1>8 DEF Informed, Early, Granted
<1> QED
  BY <1>5, <1>9 DEF q

\* A storage error touches no durable state: the tool fails, the handler gets a
\* document to mark as failed, or the request ends.
LEMMA StorageErrorStep ==
  ASSUME IInv, NEW i \in Instances, StorageError(i)
  PROVE  IInv'
<1> DEFINE p == proc[i]
<1>1. /\ UNCHANGED <<approval, doc, log, receipts, replays>>
      /\ told' \in [Tools -> Nat] /\ expired' \in BOOLEAN
      /\ mock' \in [Instances -> MockStore] /\ disturbances' \in Nat
  BY DEF StorageError, IInv, TypeOK
<1>2. CASE Return(i)
  BY <1>1, <1>2, ReturnStep
<1>3. CASE p.appr.status = "APPROVED" /\ p.pc \in InTry /\ Continue(i, FailedAppend(p))
  <2>1. p.pc \in Late
    BY <1>3 DEF InTry, Late
  <2>2. Granted(approval) /\ Engaged(p)
    BY <1>3, <2>1, Continuing DEF Engaged
  <2> QED
    BY <1>1, <1>3, <2>2, FailedAppendInformed, QuietStep
<1>4. CASE p.pc \in {"effect", "receipt", "succeed"} /\ Continue(i, [p EXCEPT !.pc = "toolFailed"])
  <2> DEFINE q == [p EXCEPT !.pc = "toolFailed"]
  <2>1. p \in Process /\ p.pc \in Late /\ Informed(p, approval, doc, receipts)
    BY <1>4, Known DEF Late
  <2>2. /\ q \in Process /\ q.pc = "toolFailed" /\ q.appr = p.appr /\ q.snap = p.snap
        /\ q.cmd = p.cmd /\ q.fresh = p.fresh /\ q.tool = p.tool
    BY <2>1 DEF Process, ControlPoints
  <2>3. Continue(i, q)
    BY <1>4
  <2> HIDE DEF q, p
  <2>4. Granted(approval) => Resuming(q, doc, receipts)
    BY <1>4, <2>1, <2>2 DEF Informed, Resuming, Late
  <2>5. Refused(approval) => Cancelling(q, approval, doc, receipts)
    BY <1>4, <2>1, <2>2 DEF Informed, Cancelling, Early, Late
  <2>6. Informed(q, approval, doc, receipts)
    BY <1>4, <2>1, <2>2, <2>4, <2>5 DEF Informed, Early, Late
  <2>7. Engaged(p)
    BY <2>1 DEF Engaged
  <2> QED
    BY <1>1, <2>2, <2>3, <2>6, <2>7, QuietStep DEF p
<1> QED
  BY <1>2, <1>3, <1>4 DEF StorageError

\* Another run leaves its marks in this process's caches only.
LEMMA ServeOtherRunStep ==
  ASSUME IInv, NEW i \in Instances, ServeOtherRun(i)
  PROVE  IInv'
<1>1. mock \in [Instances -> MockStore]
  BY DEF IInv, TypeOK
<1>2. ASSUME NEW b \in {"this", "other"}
      PROVE  [mock EXCEPT ![i].prepared = @ \cup {b}] \in [Instances -> MockStore]
  BY <1>1 DEF MockStore
<1>3. ASSUME NEW outcome
      PROVE  [mock EXCEPT ![i].prepared = @ \cup {"this"},
                          ![i].confirmed = @ \/ outcome = "confirmed",
                          ![i].cancelled = @ \/ outcome = "cancelled"] \in [Instances -> MockStore]
  <2>2. /\ (mock[i].confirmed \/ outcome = "confirmed") \in BOOLEAN
        /\ (mock[i].cancelled \/ outcome = "cancelled") \in BOOLEAN
    OBVIOUS
  <2>3. ASSUME NEW y \in BOOLEAN, NEW z \in BOOLEAN
        PROVE  [mock EXCEPT ![i].prepared = @ \cup {"this"}, ![i].confirmed = y,
                            ![i].cancelled = z] \in [Instances -> MockStore]
    BY <1>1 DEF MockStore
  <2> QED
    BY <2>2, <2>3, Zenon
<1>4. mock' \in [Instances -> MockStore]
  BY <1>2, <1>3, Zenon DEF ServeOtherRun
<1>5. disturbances' \in Nat /\ UNCHANGED <<approval, replays, doc, log, receipts, told, expired, proc>>
  BY DEF ServeOtherRun, IInv, TypeOK
<1> QED
  BY <1>4, <1>5 DEF IInv, TypeOK, Shape, RecordShape, Solo

\* A claim succeeds only on a pending approval, before anything else is durable,
\* and then no other process is past its own claim.
LEMMA ClaimStep ==
  ASSUME IInv, NEW i \in Instances, Claim(i)
  PROVE  IInv'
<1> DEFINE p == proc[i]
           resolved == [status |-> StatusOf(p.cmd.decision), version |-> p.appr.version + 1,
                        by |-> p.cmd]
           q == [p EXCEPT !.pc = "decisionEvent", !.appr = resolved]
<1>1. CASE Return(i) /\ UNCHANGED approval
  BY <1>1, ReturnStep DEF Claim, IInv, TypeOK
<1>2. CASE approval.version = p.appr.version /\ approval' = resolved /\ Continue(i, q)
  <2>1. p \in Process /\ p.appr.version = 1 /\ (p.fresh => p.snap = doc)
    BY Known DEF Claim, At, Informed
  <2>2. approval.status = "PENDING_APPROVAL" /\ ~Granted(approval) /\ ~Refused(approval)
    BY <1>2, <2>1, Known DEF Shape, RecordShape, Granted, Refused
  <2>3. doc = PausedDocument /\ log = {} /\ receipts = {} /\ replays = {}
    BY <2>2, Known DEF Shape, RecordShape
  <2>4. UNCHANGED <<replays, doc, log, receipts, told, expired, mock, disturbances>>
    BY DEF Claim
  <2>5. /\ p.cmd \in Command /\ p.cmd.decision \in {"APPROVE", "REJECT", "EXPIRE"}
        /\ StatusOf(p.cmd.decision) \in ApprovalStatus \ {"PENDING_APPROVAL"}
    BY <2>1 DEF Process, Command, StatusOf, ApprovalStatus
  <2>6. /\ resolved \in ApprovalRecord /\ resolved.by = p.cmd /\ resolved.version = 2
        /\ resolved.status = StatusOf(resolved.by.decision)
        /\ resolved.status \in ApprovalStatus \ {"PENDING_APPROVAL"}
    BY <2>1, <2>5 DEF ApprovalRecord
  <2> HIDE DEF resolved
  <2>7. /\ q \in Process /\ q.pc = "decisionEvent" /\ q.appr = resolved /\ q.cmd = p.cmd
        /\ q.snap = p.snap /\ q.fresh = p.fresh
    BY <2>1, <2>6 DEF Process, ControlPoints
  <2> HIDE DEF q
  <2>8. proc' \in [Instances -> Process] /\ \A j \in Instances : proc'[j] = IF j = i THEN q ELSE proc[j]
    BY <1>2, <2>7 DEF Continue, IInv, TypeOK
  <2>9. doc.status = "PENDING_APPROVAL"
    BY <2>3 DEF PausedDocument
  <2>10. Informed(q, resolved, doc, receipts) /\ ~Engaged(q)
    BY <2>1, <2>6, <2>7, <2>9 DEF Informed, Resuming, Cancelling, Engaged, Early, Late
  <2>11. ASSUME NEW j \in Instances, j # i
         PROVE  Informed(proc[j], resolved, doc, receipts) /\ ~Engaged(proc[j])
    BY <2>2, Known DEF Informed, Resuming, Cancelling, Engaged, Early, Late
  <2>12. \A j \in Instances : Informed(proc'[j], approval', doc', receipts')
    BY <1>2, <2>4, <2>8, <2>10, <2>11
  <2>13. Solo(approval', proc')
    BY <2>8, <2>10, <2>11 DEF Solo
  <2>14. /\ doc.prep = "PENDING_APPROVAL" /\ doc.reserved = Amount /\ doc.committed = Base
         /\ doc.bound = TRUE /\ doc.notified = FALSE
    BY <2>3 DEF PausedDocument
  <2>15. Shape(resolved, doc, log, receipts, replays)
    <3>1. RecordShape(resolved, doc, log, receipts, replays)
      BY <2>3, <2>6 DEF RecordShape
    <3>2. Granted(resolved) => GrantedShape(doc, log, receipts)
      BY <2>3, <2>9, <2>14 DEF GrantedShape
    <3>3. Refused(resolved) => RefusedShape(resolved, doc, receipts)
      BY <2>3, <2>9, <2>14, ApprovalAssumption DEF RefusedShape
    <3> QED
      BY <3>1, <3>2, <3>3 DEF Shape
  <2> QED
    BY <1>2, <2>4, <2>6, <2>8, <2>12, <2>13, <2>15 DEF IInv, TypeOK
<1> QED
  BY <1>1, <1>2 DEF Claim

\* A receipt is put by the one process that resumes, or is the cancellation's.
LEMMA PutReceiptStep ==
  ASSUME IInv, NEW i \in Instances, PutReceipt(i)
  PROVE  IInv'
<1> DEFINE p == proc[i]
           q == [p EXCEPT !.pc = "succeed"]
           r == receipts \cup {p.tool}
<1>1. p \in Process /\ p.pc = "receipt" /\ p.pc \in Late /\ Engaged(p)
      /\ Informed(p, approval, doc, receipts)
  BY Known DEF PutReceipt, At, Late, Engaged
<1>2. /\ q \in Process /\ q.pc = "succeed" /\ q.appr = p.appr /\ q.cmd = p.cmd
      /\ q.snap = p.snap /\ q.fresh = p.fresh /\ q.tool = p.tool
  BY <1>1 DEF Process, ControlPoints
<1>3. receipts' = r /\ UNCHANGED <<approval, replays, doc, log, told, expired, mock, disturbances>>
      /\ Continue(i, q)
  BY DEF PutReceipt
<1>4. p.tool \in Tools /\ p.tool \in r /\ receipts \subseteq r
  BY <1>1, ProcessFields
<1>5. r \subseteq receipts \cup {p.tool}
  OBVIOUS
<1> HIDE DEF q, r
<1>6. proc' \in [Instances -> Process] /\ \A j \in Instances : proc'[j] = IF j = i THEN q ELSE proc[j]
  BY <1>2, <1>3 DEF Continue, IInv, TypeOK
<1>7. p.appr = approval /\ approval.status # "PENDING_APPROVAL" /\ approval.by = p.cmd
  BY <1>1 DEF Informed
<1>8. Shape(approval, doc, log, r, replays)
  <2>1. RecordShape(approval, doc, log, r, replays)
    BY <1>7, Known DEF Shape, RecordShape
  <2>2. Granted(approval) => GrantedShape(doc, log, r)
    <3> SUFFICES ASSUME Granted(approval) PROVE GrantedShape(doc, log, r)
      OBVIOUS
    <3>1. GrantedShape(doc, log, receipts) /\ Resuming(p, doc, receipts)
      BY <1>1, Known DEF Shape, Informed
    <3>2. doc.status = "RUNNING" /\ p.tool \in {"confirm", "outbox"}
          /\ (p.tool = "outbox" => doc.prep = "CONFIRMED")
      BY <3>1, <1>1 DEF Resuming, Late
    <3> QED
      BY <1>4, <1>5, <3>1, <3>2 DEF GrantedShape
  <2>3. Refused(approval) => RefusedShape(approval, doc, r)
    <3> SUFFICES ASSUME Refused(approval) PROVE RefusedShape(approval, doc, r)
      OBVIOUS
    <3>1. RefusedShape(approval, doc, receipts) /\ p.tool = "cancel"
      BY <1>1, Known DEF Shape, Informed, Cancelling
    <3> QED
      BY <1>4, <1>5, <3>1 DEF RefusedShape
  <2> QED
    BY <2>1, <2>2, <2>3 DEF Shape
<1>9. Informed(q, approval, doc, r)
  <2>1. Granted(approval) => Resuming(q, doc, r)
    BY <1>1, <1>2, <1>4 DEF Informed, Resuming, Late
  <2>2. Refused(approval) => Cancelling(q, approval, doc, r)
    BY <1>1, <1>2, <1>4 DEF Informed, Cancelling, Early, Late
  <2> QED
    BY <1>1, <1>2, <1>7, <2>1, <2>2 DEF Informed, Early
<1>10. ASSUME NEW j \in Instances, j # i PROVE Informed(proc[j], approval, doc, r)
  <2>1. Informed(proc[j], approval, doc, receipts)
    BY Known
  <2>2. Granted(approval) => Resuming(proc[j], doc, r)
    <3>1. Granted(approval) => ~Engaged(proc[j])
      BY <1>1, <1>10 DEF IInv, Solo
    <3> QED
      BY <2>1, <3>1 DEF Informed, Resuming, Engaged, Late
  <2>3. Refused(approval) => Cancelling(proc[j], approval, doc, r)
    BY <1>4, <2>1 DEF Informed, Cancelling
  <2> QED
    BY <2>1, <2>2, <2>3 DEF Informed
<1>11. \A j \in Instances : Informed(proc'[j], approval', doc', receipts')
  BY <1>3, <1>6, <1>9, <1>10
<1>12. Solo(approval', proc')
  BY <1>1, <1>3, <1>6 DEF IInv, Solo
<1> QED
  BY <1>3, <1>4, <1>5, <1>6, <1>8, <1>11, <1>12 DEF IInv, TypeOK

-----------------------------------------------------------------------------
(* Steps that append an event.                                             *)

\* The approval event is on record, or recorded now, before RUN_RESUMED.
LEMMA DecisionEventStep ==
  ASSUME IInv, NEW i \in Instances, DecisionEvent(i)
  PROVE  IInv'
<1> DEFINE p == proc[i]
           approved == p.appr.status = "APPROVED"
           d == IF approved THEN [p.snap EXCEPT !.prep = "APPROVED"] ELSE p.snap
           next == IF approved THEN "resumeRun" ELSE "resumeAgent"
           q == [p EXCEPT !.pc = next, !.snap = d]
           key == p.appr.status
<1>1. p \in Process /\ p.pc = "decisionEvent" /\ p.pc \in Early /\ ~Engaged(p)
  BY Known DEF DecisionEvent, At, Early, Late, Engaged
<1>2. /\ p.appr = approval /\ approval.by = p.cmd /\ (Granted(approval) <=> approved)
      /\ Granted(approval) \/ Refused(approval)
      /\ p.fresh => p.snap = doc /\ doc.status = "PENDING_APPROVAL"
  BY <1>1, Known, Continuing DEF Informed
<1>3. p.snap \in Document /\ doc \in Document /\ key \in ApprovalStatus /\ key # Unkeyed
  BY <1>1, <1>2, Known DEF Process, ApprovalRecord, ApprovalStatus, Unkeyed
<1>4. /\ d \in Document /\ d.status = p.snap.status /\ d.reserved = p.snap.reserved
      /\ d.committed = p.snap.committed /\ d.bound = p.snap.bound /\ d.booked = p.snap.booked
      /\ d.notified = p.snap.notified
      /\ approved => d.prep = "APPROVED" /\ (p.snap.prep = "APPROVED" => d = p.snap)
      /\ ~approved => d = p.snap
  BY <1>3 DEF Document, CommitmentStatus
<1> HIDE DEF d
<1>5. /\ q \in Process /\ q.pc = next /\ q.appr = p.appr /\ q.cmd = p.cmd
      /\ q.snap = d /\ q.fresh = p.fresh
  BY <1>1, <1>4 DEF Process, ControlPoints
<1>6. AppendEvent(i, key, d, q)
  BY DEF DecisionEvent, d
<1> HIDE DEF q, approved
<1>7. ASSUME NEW e, q.fresh => /\ q.snap = e /\ e.status = "PENDING_APPROVAL"
                               /\ approved => e.prep = "APPROVED"
      PROVE  Informed(q, approval, e, receipts)
  BY <1>2, <1>5, <1>7 DEF Informed, Resuming, Cancelling, Early, Late, Granted, Refused
<1>8. key \in log => /\ Informed(q, approval, doc, receipts)
                     /\ Granted(approval) /\ Engaged(q) => Engaged(p)
  <2> SUFFICES ASSUME key \in log PROVE Informed(q, approval, doc, receipts)
    BY <1>2, <1>5 DEF Engaged, Late
  <2>1. approved /\ p.fresh => doc.prep = "APPROVED"
    BY <1>2, Known DEF Shape, GrantedShape, approved
  <2> QED
    BY <1>2, <1>4, <1>5, <1>7, <2>1
<1>9. p.fresh /\ key \notin log =>
        /\ Shape(approval, d, log \cup ({key} \ {Unkeyed}), receipts, replays)
        /\ Informed(q, approval, d, receipts)
  <2> SUFFICES ASSUME p.fresh
               PROVE  /\ Shape(approval, d, log \cup ({key} \ {Unkeyed}), receipts, replays)
                      /\ Informed(q, approval, d, receipts)
    OBVIOUS
  <2>1. d.status = "PENDING_APPROVAL"
    BY <1>2, <1>4
  <2>2. Informed(q, approval, d, receipts)
    BY <1>4, <1>5, <1>7, <2>1
  <2>3. RecordShape(approval, d, log \cup ({key} \ {Unkeyed}), receipts, replays)
    BY <1>2, Known DEF Shape, RecordShape, Granted, Refused
  <2>4. Granted(approval) => GrantedShape(d, log \cup ({key} \ {Unkeyed}), receipts)
    BY <1>2, <1>4, <2>1, Known DEF Shape, GrantedShape, approved
  <2>5. Refused(approval) => RefusedShape(approval, d, receipts)
    BY <1>2, <1>4, Known DEF Shape, RefusedShape
  <2> QED
    BY <2>2, <2>3, <2>4, <2>5 DEF Shape
<1>10. key \in Keyed \cup {Unkeyed}
  BY <1>3 DEF Keyed
<1>11. UNCHANGED <<approval, replays, receipts, told, expired, mock, disturbances>>
  BY DEF DecisionEvent
<1> HIDE DEF key
<1> QED
  BY <1>1, <1>4, <1>5, <1>6, <1>8, <1>9, <1>10, <1>11, AppendStep

\* RUN_RESUMED is appended by a process whose snapshot still waits.
LEMMA ResumeRunStep ==
  ASSUME IInv, NEW i \in Instances, ResumeRun(i)
  PROVE  IInv'
<1> DEFINE p == proc[i]
           d == [p.snap EXCEPT !.status = "RUNNING"]
           q == [p EXCEPT !.pc = "resumeAgent", !.snap = d]
<1>1. p \in Process /\ p.pc = "resumeRun" /\ p.pc \in Early
  BY Known DEF ResumeRun, At, Early
<1>2. CASE Return(i) /\ UNCHANGED <<doc, log>>
  BY <1>2, ReturnStep DEF ResumeRun, IInv, TypeOK
<1>3. CASE AppendEvent(i, "RUN_RESUMED", d, q)
  <2>1. Granted(approval) /\ ~Refused(approval)
    BY <1>1, Known, Continuing DEF Cancelling
  <2>2. /\ p.appr = approval /\ approval.by = p.cmd
        /\ p.fresh => p.snap = doc /\ doc.status = "PENDING_APPROVAL" /\ doc.prep = "APPROVED"
    BY <1>1, <2>1, Known, Continuing DEF Informed, Resuming
  <2>3. GrantedShape(doc, log, receipts) /\ RecordShape(approval, doc, log, receipts, replays)
    BY <2>1, Known DEF Shape
  <2>4. p.snap \in Document
    BY <1>1, ProcessFields
  <2>5. /\ d \in Document /\ d.status = "RUNNING" /\ d.prep = p.snap.prep
        /\ d.reserved = p.snap.reserved /\ d.committed = p.snap.committed
        /\ d.bound = p.snap.bound /\ d.booked = p.snap.booked /\ d.notified = p.snap.notified
    BY <2>4 DEF Document, RunStatus
  <2> HIDE DEF d
  <2>6. /\ q \in Process /\ q.pc = "resumeAgent" /\ q.appr = p.appr /\ q.cmd = p.cmd
        /\ q.snap = d /\ q.fresh = p.fresh
    BY <1>1, <2>5 DEF Process, ControlPoints
  <2> HIDE DEF q
  <2>7. p.fresh => "RUN_RESUMED" \notin log /\ receipts = {}
    BY <2>2, <2>3 DEF GrantedShape
  <2>8. ASSUME NEW e, q.fresh => /\ q.snap = e /\ e.status = "RUNNING" /\ e.prep = "APPROVED"
                                 /\ receipts = {}
        PROVE  Informed(q, approval, e, receipts)
    BY <2>1, <2>2, <2>6, <2>8 DEF Informed, Resuming, Early, Late, Granted
  <2>9. "RUN_RESUMED" \in log => Informed(q, approval, doc, receipts) /\ ~Engaged(q)
    BY <2>6, <2>7, <2>8 DEF Engaged, Late
  <2>10. p.fresh => /\ Shape(approval, d, log \cup ({"RUN_RESUMED"} \ {Unkeyed}), receipts, replays)
                    /\ Informed(q, approval, d, receipts)
    <3> SUFFICES ASSUME p.fresh
                 PROVE  /\ Shape(approval, d, log \cup ({"RUN_RESUMED"} \ {Unkeyed}), receipts, replays)
                        /\ Informed(q, approval, d, receipts)
      OBVIOUS
    <3>1. Informed(q, approval, d, receipts)
      BY <2>2, <2>5, <2>6, <2>7, <2>8
    <3>2. GrantedShape(d, log \cup ({"RUN_RESUMED"} \ {Unkeyed}), receipts)
      BY <2>2, <2>3, <2>5, <2>7 DEF GrantedShape
    <3>3. RecordShape(approval, d, log \cup ({"RUN_RESUMED"} \ {Unkeyed}), receipts, replays)
      BY <2>1, <2>3 DEF RecordShape, Granted
    <3> QED
      BY <2>1, <3>1, <3>2, <3>3 DEF Shape
  <2>11. "RUN_RESUMED" \in Keyed \cup {Unkeyed}
    BY DEF Keyed
  <2>12. UNCHANGED <<approval, replays, receipts, told, expired, mock, disturbances>>
    BY DEF ResumeRun
  <2> QED
    BY <1>1, <1>3, <2>5, <2>6, <2>9, <2>10, <2>11, <2>12, AppendStep
<1> QED
  BY <1>2, <1>3 DEF ResumeRun

\* AGENT_RESUMED persists the snapshot as it is.
LEMMA ResumeAgentStep ==
  ASSUME IInv, NEW i \in Instances, ResumeAgent(i)
  PROVE  IInv'
<1> DEFINE p == proc[i]
           tool == IF p.appr.status = "APPROVED" THEN "confirm" ELSE "cancel"
           q == [p EXCEPT !.pc = "attempt", !.tool = tool]
<1>1. p \in Process /\ p.pc = "resumeAgent" /\ p.pc \in Early /\ p.snap \in Document
  BY Known, ProcessFields DEF ResumeAgent, At, Early
<1>2. CASE Return(i) /\ UNCHANGED <<doc, log>>
  BY <1>2, ReturnStep DEF ResumeAgent, IInv, TypeOK
<1>3. CASE AppendEvent(i, Unkeyed, p.snap, q)
  <2>1. /\ p.appr = approval /\ approval.by = p.cmd
        /\ Granted(approval) \/ Refused(approval)
        /\ Granted(approval) => tool = "confirm" /\ Resuming(p, doc, receipts)
        /\ Refused(approval) => tool = "cancel" /\ Cancelling(p, approval, doc, receipts)
        /\ p.fresh => p.snap = doc
    BY <1>1, Known, Continuing DEF Informed, Refused
  <2>2. /\ q \in Process /\ q.pc = "attempt" /\ q.appr = p.appr /\ q.cmd = p.cmd
        /\ q.snap = p.snap /\ q.fresh = p.fresh /\ q.tool = tool
    BY <1>1 DEF Process, ControlPoints, Tools
  <2> HIDE DEF q, tool
  <2>3. p.fresh => Informed(q, approval, doc, receipts)
    <3> SUFFICES ASSUME p.fresh PROVE Informed(q, approval, doc, receipts)
      OBVIOUS
    <3>1. Granted(approval) => Resuming(q, doc, receipts)
      BY <1>1, <2>1, <2>2 DEF Resuming, Late
    <3>2. Refused(approval) => Cancelling(q, approval, doc, receipts)
      BY <1>1, <2>1, <2>2 DEF Cancelling, Early, Late
    <3> QED
      BY <2>1, <2>2, <3>1, <3>2 DEF Informed, Early, Late, Granted, Refused
  <2>4. p.fresh => Shape(approval, p.snap, log, receipts, replays)
    BY <2>1, Known
  <2>5. UNCHANGED <<approval, replays, receipts, told, expired, mock, disturbances>>
    BY DEF ResumeAgent
  <2> QED
    BY <1>1, <1>3, <2>1, <2>2, <2>3, <2>4, <2>5, UnkeyedStep
<1> QED
  BY <1>2, <1>3 DEF ResumeAgent

\* Between TOOL_ATTEMPTED and the effect, events persist the snapshot as it is.
LEMMA PassStep ==
  ASSUME IInv, NEW i \in Instances, proc[i].pc \in {"decide", "recordAllow", "recordBlock"},
         NEW next \in {"recordAllow", "recordBlock", "effect", "blocked"},
         AppendEvent(i, Unkeyed, proc[i].snap, [proc[i] EXCEPT !.pc = next]),
         UNCHANGED <<approval, replays, receipts, told, expired, mock, disturbances>>
  PROVE  IInv'
<1> DEFINE p == proc[i]
           q == [p EXCEPT !.pc = next]
<1>1. p \in Process /\ p.pc \in Late /\ p.snap \in Document
  BY Known, ProcessFields DEF Late
<1>2. /\ q \in Process /\ q.pc = next /\ q.appr = p.appr /\ q.cmd = p.cmd
      /\ q.snap = p.snap /\ q.fresh = p.fresh /\ q.tool = p.tool
  BY <1>1 DEF Process, ControlPoints
<1>3. /\ p.appr = approval /\ approval.by = p.cmd
      /\ Granted(approval) \/ Refused(approval)
      /\ Granted(approval) => Resuming(p, doc, receipts)
      /\ Refused(approval) => Cancelling(p, approval, doc, receipts)
  BY <1>1, Continuing
<1> HIDE DEF q
<1>4. p.fresh => p.snap = doc
  BY <1>1, <1>3 DEF Resuming, Cancelling, Late
<1>5. p.fresh => Informed(q, approval, doc, receipts)
  <2>1. Granted(approval) => Resuming(q, doc, receipts)
    BY <1>2, <1>3 DEF Resuming, Late
  <2>2. Refused(approval) => Cancelling(q, approval, doc, receipts)
    BY <1>2, <1>3 DEF Cancelling, Early, Late
  <2> QED
    BY <1>2, <1>3, <2>1, <2>2 DEF Informed, Early, Late, Granted, Refused
<1> QED
  BY <1>1, <1>2, <1>4, <1>5, Known, UnkeyedStep DEF q

\* append_decision.
LEMMA DecideStep ==
  ASSUME IInv, NEW i \in Instances, Decide(i)
  PROVE  IInv'
BY PassStep DEF Decide, At

\* POLICY_DECIDED.
LEMMA RecordDecisionStep ==
  ASSUME IInv, NEW i \in Instances, RecordDecision(i)
  PROVE  IInv'
BY PassStep DEF RecordDecision, At

\* An event after which the agent raises.
LEMMA ThrowingStep ==
  ASSUME IInv, NEW i \in Instances, proc[i].pc \in {"blocked", "toolFailed", "succeed"},
         NEW status \in {"FAILED", "BLOCKED"},
         status = "BLOCKED" => proc[i].tool # "outbox" /\ proc[i].pc = "blocked",
         AppendEvent(i, Unkeyed, proc[i].snap, Thrown(i, proc[i].snap, status)),
         UNCHANGED <<approval, replays, receipts, told, expired, mock, disturbances>>
  PROVE  IInv'
<1> DEFINE p == proc[i]
<1>1. p \in Process /\ p.pc \in Late /\ p.snap \in Document
  BY Known, ProcessFields DEF Late
<1>2. /\ Granted(approval) \/ Refused(approval)
      /\ Granted(approval) => Resuming(p, doc, receipts)
      /\ Refused(approval) => Cancelling(p, approval, doc, receipts)
  BY <1>1, Continuing
<1>3. p.fresh => p.snap = doc
  BY <1>1, <1>2 DEF Resuming, Cancelling, Late
<1>4. Granted(approval) => p.snap = doc /\ (status = "BLOCKED" => receipts = {})
  BY <1>1, <1>2 DEF Resuming, Late
<1>5. /\ Thrown(i, p.snap, status) \in Process
      /\ Informed(Thrown(i, p.snap, status), approval, doc, receipts)
  BY <1>1, <1>4, ThrownInformed
<1> QED
  BY <1>1, <1>3, <1>5, Known, UnkeyedStep

\* TOOL_BLOCKED.
LEMMA BlockedStep ==
  ASSUME IInv, NEW i \in Instances, Blocked(i)
  PROVE  IInv'
BY ThrowingStep DEF Blocked, At

\* TOOL_FAILED.
LEMMA ToolFailedStep ==
  ASSUME IInv, NEW i \in Instances, ToolFailed(i)
  PROVE  IInv'
BY ThrowingStep DEF ToolFailed, At

\* _apply_confirmation and _apply_cancellation refuse what would make the
\* reserved amount negative.
LEMMA AppliedType ==
  ASSUME NEW s \in Document, NEW tool \in Tools, ~ApplyRaises(s, tool)
  PROVE  Applied(s, tool) \in Document
<1>1. Amount \in Nat /\ s.reserved \in Nat /\ s.committed \in Nat
  BY ApprovalAssumption DEF Document
<1>2. CASE tool = "confirm" /\ s.prep # "CONFIRMED"
  <2>1. s.reserved - Amount \in Nat /\ s.committed + Amount \in Nat
    BY <1>1, <1>2 DEF ApplyRaises
  <2> QED
    BY <1>2, <2>1 DEF Applied, Document, CommitmentStatus
<1>3. CASE tool = "cancel" /\ s.prep # "CANCELLED"
  <2>1. s.reserved - Amount \in Nat
    BY <1>1, <1>3 DEF ApplyRaises
  <2> QED
    BY <1>3, <2>1 DEF Applied, Document, CommitmentStatus
<1>4. CASE tool = "outbox"
  BY <1>4 DEF Applied, Document
<1>5. CASE \/ tool = "confirm" /\ s.prep = "CONFIRMED"
           \/ tool = "cancel" /\ s.prep = "CANCELLED"
  BY <1>5 DEF Applied
<1> QED
  BY <1>2, <1>3, <1>4, <1>5 DEF Tools

\* TOOL_SUCCEEDED: the effect has its receipt and is applied in memory.
LEMMA SucceedStep ==
  ASSUME IInv, NEW i \in Instances, Succeed(i)
  PROVE  IInv'
<1> DEFINE p == proc[i]
           s == Applied(p.snap, p.tool)
           q == [p EXCEPT !.pc = "agentDone", !.snap = s]
<1>1. /\ p \in Process /\ p.pc = "succeed" /\ p.pc \in Late /\ p.snap \in Document
      /\ p.tool \in Tools
  BY Known, ProcessFields DEF Succeed, At, Late
<1>2. CASE ApplyRaises(p.snap, p.tool)
  BY <1>1, <1>2, ThrowingStep DEF Succeed
<1>3. CASE ~ApplyRaises(p.snap, p.tool)
  <2>1. s \in Document
    BY <1>1, <1>3, AppliedType
  <2>2. AppendEvent(i, Unkeyed, p.snap, q)
    BY <1>3 DEF Succeed
  <2>3. UNCHANGED <<approval, replays, receipts, told, expired, mock, disturbances>>
    BY DEF Succeed
  <2> HIDE DEF s
  <2>4. /\ q \in Process /\ q.pc = "agentDone" /\ q.appr = p.appr /\ q.cmd = p.cmd
        /\ q.snap = s /\ q.fresh = p.fresh /\ q.tool = p.tool
    BY <1>1, <2>1 DEF Process, ControlPoints
  <2> HIDE DEF q
  <2>5. /\ p.appr = approval /\ approval.by = p.cmd
        /\ Granted(approval) \/ Refused(approval)
        /\ Granted(approval) => Resuming(p, doc, receipts)
        /\ Refused(approval) => Cancelling(p, approval, doc, receipts)
    BY <1>1, Continuing
  <2>6. p.fresh => p.snap = doc
    BY <1>1, <2>5 DEF Resuming, Cancelling, Late
  <2>7. p.fresh => Informed(q, approval, doc, receipts)
    <3> SUFFICES ASSUME p.fresh PROVE Informed(q, approval, doc, receipts)
      OBVIOUS
    <3>1. Granted(approval) => Resuming(q, doc, receipts)
      BY <1>1, <2>4, <2>5, <2>6 DEF Resuming, Late, s
    <3>2. Refused(approval) => Cancelling(q, approval, doc, receipts)
      <4> SUFFICES ASSUME Refused(approval) PROVE Cancelling(q, approval, doc, receipts)
        OBVIOUS
      <4>1. p.tool = "cancel" /\ doc.prep = approval.status /\ doc.status = "PENDING_APPROVAL"
            /\ "cancel" \in receipts /\ p.snap = doc
        BY <1>1, <2>5, <2>6 DEF Cancelling, Early, Late
      <4>2. doc.reserved = Amount
        BY <1>3, <4>1, Known, ApprovalAssumption
           DEF ApplyRaises, Refused, Shape, RefusedShape
      <4> QED
        BY <2>4, <4>1, <4>2 DEF Cancelling, Early, Late, s
    <3> QED
      BY <2>4, <2>5, <3>1, <3>2 DEF Informed, Early, Late, Granted, Refused
  <2> QED
    BY <1>1, <2>1, <2>2, <2>3, <2>4, <2>6, <2>7, Known, UnkeyedStep
<1> QED
  BY <1>2, <1>3

\* An effect on record leaves a running document booked and paid once applied.
LEMMA AppliedGranted ==
  ASSUME NEW d \in Document, NEW l, NEW r, NEW tool \in {"confirm", "outbox"},
         GrantedShape(d, l, r), d.status = "RUNNING", Applicable(tool, d, r)
  PROVE  LET e == Applied(d, tool)
         IN /\ e.status = "RUNNING" /\ e.prep = "CONFIRMED" /\ e.reserved = 0
            /\ e.committed = Base + Amount /\ e.booked /\ (e.notified => "outbox" \in r)
            /\ tool = "outbox" => e.notified
            /\ tool = "confirm" => d.reserved = Amount /\ d.committed = Base
            /\ tool = "outbox" => e.reserved = d.reserved /\ e.committed = d.committed
<1> DEFINE e == Applied(d, tool)
<1>1. CASE tool = "confirm"
  <2>0. d.prep = "APPROVED"
    BY <1>1 DEF Applicable
  <2>1. e = [d EXCEPT !.prep = "CONFIRMED", !.booked = TRUE, !.reserved = d.reserved - Amount,
                      !.committed = d.committed + Amount, !.bound = FALSE]
    BY <1>1, <2>0 DEF Applied
  <2>2. d.reserved = Amount /\ d.committed = Base
    BY <2>0 DEF GrantedShape
  <2>3. /\ e.status = d.status /\ e.prep = "CONFIRMED" /\ e.booked = TRUE
        /\ e.reserved = d.reserved - Amount /\ e.committed = d.committed + Amount
        /\ e.notified = d.notified
    BY <2>1 DEF Document
  <2>4. d.reserved - Amount = 0 /\ d.committed + Amount = Base + Amount
    BY <2>2, ApprovalAssumption
  <2>5. d.notified => "outbox" \in r
    BY DEF GrantedShape
  <2> QED
    BY <1>1, <2>2, <2>3, <2>4, <2>5
<1>2. CASE tool = "outbox"
  BY <1>2 DEF Applied, Applicable, GrantedShape, Document
<1> QED
  BY <1>1, <1>2

\* AGENT_COMPLETED makes the applied effect durable.
LEMMA AgentDoneStep ==
  ASSUME IInv, NEW i \in Instances, AgentDone(i)
  PROVE  IInv'
<1> DEFINE p == proc[i]
           next == IF p.tool = "confirm" THEN "commsStart" ELSE "finish"
           q == [p EXCEPT !.pc = next]
           d == p.snap
<1>1. /\ p \in Process /\ p.pc = "agentDone" /\ p.pc \in Late /\ d \in Document
  BY Known, ProcessFields DEF AgentDone, At, Late
<1>2. /\ q \in Process /\ q.pc = next /\ q.appr = p.appr /\ q.cmd = p.cmd
      /\ q.snap = d /\ q.fresh = p.fresh /\ q.tool = p.tool
  BY <1>1 DEF Process, ControlPoints
<1>3. AppendEvent(i, Unkeyed, d, q)
      /\ UNCHANGED <<approval, replays, receipts, told, expired, mock, disturbances>>
  BY DEF AgentDone
<1> HIDE DEF q
<1>4. /\ p.appr = approval /\ approval.by = p.cmd
      /\ Granted(approval) \/ Refused(approval)
      /\ Granted(approval) => Resuming(p, doc, receipts)
      /\ Refused(approval) => Cancelling(p, approval, doc, receipts)
      /\ doc \in Document
  BY <1>1, Continuing, Known
<1>5. ASSUME Granted(approval)
      PROVE  /\ Resuming(q, d, receipts) /\ GrantedShape(d, log, receipts)
  <2>1. /\ doc.status = "RUNNING" /\ p.tool \in {"confirm", "outbox"}
        /\ d = Applied(doc, p.tool) /\ p.fresh /\ Applicable(p.tool, doc, receipts)
    BY <1>1, <1>4, <1>5 DEF Resuming, Late, Applicable
  <2>2. GrantedShape(doc, log, receipts)
    BY <1>5, Known DEF Shape
  <2>3. /\ d.status = "RUNNING" /\ d.prep = "CONFIRMED" /\ d.reserved = 0
        /\ d.committed = Base + Amount /\ d.booked /\ (d.notified => "outbox" \in receipts)
        /\ p.tool = "outbox" => d.notified
    BY <1>4, <2>1, <2>2, AppliedGranted
  <2>4. GrantedShape(d, log, receipts)
    BY <2>1, <2>2, <2>3 DEF GrantedShape, Applicable
  <2>5. Resuming(q, d, receipts)
    BY <1>2, <2>1, <2>3 DEF Resuming, Late
  <2> QED
    BY <2>4, <2>5
<1>6. ASSUME Refused(approval), p.fresh
      PROVE  /\ Cancelling(q, approval, d, receipts) /\ RefusedShape(approval, d, receipts)
  <2>1. /\ p.tool = "cancel" /\ doc.status = "PENDING_APPROVAL" /\ "cancel" \in receipts
        /\ d = Applied(doc, "cancel") /\ doc.prep = approval.status /\ doc.reserved = Amount
    BY <1>1, <1>4, <1>6 DEF Cancelling, Early, Late
  <2>2. RefusedShape(approval, doc, receipts)
    BY <1>6, Known DEF Shape
  <2>3. d = [doc EXCEPT !.prep = "CANCELLED", !.reserved = doc.reserved - Amount, !.bound = FALSE]
    BY <1>6, <2>1 DEF Applied, Refused
  <2>4. /\ d.status = "PENDING_APPROVAL" /\ d.prep = "CANCELLED" /\ d.reserved = 0
        /\ d.committed = doc.committed
    <3>1. doc.reserved - Amount = 0
      BY <2>1, ApprovalAssumption
    <3> QED
      BY <1>4, <2>1, <2>3, <3>1 DEF Document
  <2>5. RefusedShape(approval, d, receipts)
    BY <2>1, <2>2, <2>4 DEF RefusedShape
  <2>6. Cancelling(q, approval, d, receipts)
    BY <1>2, <2>1, <2>4 DEF Cancelling, Early, Late
  <2> QED
    BY <2>5, <2>6
<1>7. p.fresh => Shape(approval, d, log, receipts, replays)
  BY <1>4, <1>5, <1>6, Known DEF Shape, RecordShape, Granted, Refused
<1>8. p.fresh => Informed(q, approval, d, receipts)
  BY <1>2, <1>4, <1>5, <1>6 DEF Informed, Early, Late, Granted, Refused
<1> QED
  BY <1>1, <1>2, <1>3, <1>7, <1>8, UnkeyedStep

\* Customer communications starts on a paid booking.
LEMMA CommsStartStep ==
  ASSUME IInv, NEW i \in Instances, CommsStart(i)
  PROVE  IInv'
<1> DEFINE p == proc[i]
           q == [p EXCEPT !.pc = "attempt", !.tool = "outbox"]
<1>1. p \in Process /\ p.pc = "commsStart" /\ p.pc \in Late /\ p.snap \in Document
  BY Known, ProcessFields DEF CommsStart, At, Late
<1>2. /\ q \in Process /\ q.pc = "attempt" /\ q.appr = p.appr /\ q.cmd = p.cmd
      /\ q.snap = p.snap /\ q.fresh = p.fresh /\ q.tool = "outbox"
  BY <1>1 DEF Process, ControlPoints, Tools
<1>3. AppendEvent(i, Unkeyed, p.snap, q)
      /\ UNCHANGED <<approval, replays, receipts, told, expired, mock, disturbances>>
  BY DEF CommsStart
<1> HIDE DEF q
<1>4. /\ p.appr = approval /\ approval.by = p.cmd /\ Granted(approval) /\ ~Refused(approval)
      /\ Resuming(p, doc, receipts)
  BY <1>1, Continuing, Known DEF Cancelling
<1>5. p.snap = doc
  BY <1>1, <1>4 DEF Resuming, Late
<1>6. Resuming(q, doc, receipts)
  BY <1>1, <1>2, <1>4, <1>5 DEF Resuming, Late
<1>7. Informed(q, approval, doc, receipts)
  BY <1>2, <1>4, <1>6 DEF Informed, Early, Late, Granted
<1> QED
  BY <1>1, <1>2, <1>3, <1>5, <1>7, Known, UnkeyedStep

\* After the run's last event the process answers or records its replay.
LEMMA AfterRunInformed ==
  ASSUME NEW p \in Process, NEW a, NEW d, NEW r,
         p.appr = a, a.status # "PENDING_APPROVAL", a.by = p.cmd
  PROVE  /\ AfterRun(p) \in Process /\ Informed(AfterRun(p), a, d, r) /\ ~Engaged(AfterRun(p))
<1> DEFINE q == [p EXCEPT !.pc = "recordReplay"]
<1>1. q \in Process /\ q.pc = "recordReplay" /\ q.appr = p.appr /\ q.cmd = p.cmd
  BY DEF Process, ControlPoints
<1> HIDE DEF q
<1>2. Informed(q, a, d, r) /\ ~Engaged(q)
  BY <1>1 DEF Informed, Resuming, Cancelling, Engaged, Early, Late
<1> QED
  BY <1>1, <1>2, IdleInformed, ConstantTypes DEF AfterRun, q

\* RUN_COMPLETED follows the notification, RUN_CANCELLED the release.
LEMMA FinishStep ==
  ASSUME IInv, NEW i \in Instances, Finish(i)
  PROVE  IInv'
<1> DEFINE p == proc[i]
           status == IF p.tool = "cancel" THEN "CANCELLED" ELSE "COMPLETED"
           d == [p.snap EXCEPT !.status = status]
           q == AfterRun(p)
           l == log \cup ({status} \ {Unkeyed})
<1>1. p \in Process /\ p.pc = "finish" /\ p.pc \in Late /\ p.snap \in Document
  BY Known, ProcessFields DEF Finish, At, Late
<1>2. /\ p.appr = approval /\ approval.by = p.cmd
      /\ Granted(approval) \/ Refused(approval)
      /\ Granted(approval) => Resuming(p, doc, receipts)
      /\ Refused(approval) => Cancelling(p, approval, doc, receipts)
      /\ doc \in Document
  BY <1>1, Continuing, Known
<1>3. \A e : q \in Process /\ Informed(q, approval, e, receipts) /\ ~Engaged(q)
  BY <1>1, <1>2, AfterRunInformed DEF Granted, Refused
<1>4. /\ d \in Document /\ d.status = status /\ d.prep = p.snap.prep
      /\ d.reserved = p.snap.reserved /\ d.committed = p.snap.committed
      /\ d.bound = p.snap.bound /\ d.booked = p.snap.booked /\ d.notified = p.snap.notified
  BY <1>1 DEF Document, RunStatus
<1>5. /\ AppendEvent(i, status, d, q)
      /\ UNCHANGED <<approval, replays, receipts, told, expired, mock, disturbances>>
  BY DEF Finish
<1> HIDE DEF d, q
<1>6. ASSUME p.fresh PROVE Shape(approval, d, l, receipts, replays)
  <2>1. p.snap = doc
    BY <1>1, <1>2, <1>6 DEF Resuming, Cancelling, Late
  <2>2. RecordShape(approval, d, l, receipts, replays)
    BY <1>2, Known DEF Shape, RecordShape, Granted, Refused
  <2>3. Granted(approval) => GrantedShape(d, l, receipts)
    <3> SUFFICES ASSUME Granted(approval) PROVE GrantedShape(d, l, receipts)
      OBVIOUS
    <3>1. /\ p.tool = "outbox" /\ doc.notified /\ doc.prep = "CONFIRMED"
          /\ GrantedShape(doc, log, receipts)
      BY <1>1, <1>2, Known DEF Resuming, Late, Shape
    <3>2. status = "COMPLETED" /\ "CANCELLED" # "APPROVED"
      BY <3>1
    <3> QED
      BY <1>4, <2>1, <3>1, <3>2 DEF GrantedShape
  <2>4. Refused(approval) => RefusedShape(approval, d, receipts)
    <3> SUFFICES ASSUME Refused(approval) PROVE RefusedShape(approval, d, receipts)
      OBVIOUS
    <3>1. p.tool = "cancel" /\ doc.prep = "CANCELLED" /\ RefusedShape(approval, doc, receipts)
      BY <1>1, <1>2, <1>6, Known DEF Cancelling, Late, Shape
    <3> QED
      BY <1>4, <2>1, <3>1 DEF RefusedShape
  <2> QED
    BY <2>2, <2>3, <2>4 DEF Shape
<1>7. status \in Keyed \cup {Unkeyed}
  BY DEF Keyed
<1> HIDE DEF status
<1> QED
  BY <1>1, <1>3, <1>4, <1>5, <1>6, <1>7, AppendStep

\* RUN_FAILED: a blocked run has told the carrier nothing.
LEMMA FailRunStep ==
  ASSUME IInv, NEW i \in Instances, FailRun(i)
  PROVE  IInv'
<1> DEFINE p == proc[i]
           d == p.snap
           q == AfterRun(p)
<1>1. p \in Process /\ p.pc = "failRun" /\ p.pc \in Late /\ d \in Document
  BY Known, ProcessFields DEF FailRun, At, Late
<1>2. /\ p.appr = approval /\ approval.by = p.cmd /\ Granted(approval) /\ ~Refused(approval)
      /\ Resuming(p, doc, receipts) /\ doc \in Document /\ approval.status # "PENDING_APPROVAL"
  BY <1>1, Continuing, Known DEF Cancelling, Granted
<1>3. \A e : q \in Process /\ Informed(q, approval, e, receipts)
  BY <1>1, <1>2, AfterRunInformed
<1>4. /\ AppendEvent(i, Unkeyed, d, q)
      /\ UNCHANGED <<approval, replays, receipts, told, expired, mock, disturbances>>
  BY DEF FailRun
<1> HIDE DEF q
<1>5. /\ doc.status = "RUNNING" /\ FailedFrom(p, doc, receipts)
      /\ p.tool \in {"confirm", "outbox"} /\ GrantedShape(doc, log, receipts)
      /\ doc.prep # "PENDING_APPROVAL"
  BY <1>1, <1>2, Known DEF Resuming, Late, Shape, GrantedShape
<1>6. RecordShape(approval, d, log, receipts, replays)
  BY <1>2, Known DEF Shape, RecordShape
<1>7. GrantedShape(d, log, receipts)
  <2>1. CASE /\ SameCommitment(d, doc)
             /\ d.status = "FAILED" \/ (d.status = "BLOCKED" /\ receipts = {})
    BY <1>5, <2>1 DEF SameCommitment, GrantedShape
  <2>2. CASE /\ d.status = "FAILED" /\ SameCommitment(d, Applied(doc, p.tool))
             /\ Applicable(p.tool, doc, receipts)
    <3> DEFINE e == Applied(doc, p.tool)
    <3>1. /\ e.prep = "CONFIRMED" /\ e.reserved = 0 /\ e.committed = Base + Amount /\ e.booked
          /\ e.notified => "outbox" \in receipts
      BY <1>2, <1>5, <2>2, AppliedGranted
    <3> HIDE DEF e
    <3>2. /\ d.prep = "CONFIRMED" /\ d.reserved = 0 /\ d.committed = Base + Amount /\ d.booked
          /\ d.notified => "outbox" \in receipts
      BY <2>2, <3>1 DEF SameCommitment, e
    <3>3. "confirm" \in receipts /\ "cancel" \notin receipts
      BY <1>5, <2>2 DEF Applicable, GrantedShape
    <3> QED
      BY <2>2, <3>2, <3>3 DEF GrantedShape
  <2> QED
    BY <1>5, <2>1, <2>2 DEF FailedFrom
<1>8. Shape(approval, d, log, receipts, replays)
  BY <1>2, <1>6, <1>7 DEF Shape
<1> QED
  BY <1>1, <1>3, <1>4, <1>8, UnkeyedStep

\* TOOL_ATTEMPTED, with the mark of a cancellation set anew.
LEMMA AttemptStep ==
  ASSUME IInv, NEW i \in Instances, Attempt(i)
  PROVE  IInv'
<1> DEFINE p == proc[i]
           s == Prepared(p)
           d == [s EXCEPT !.calls = s.calls + 1]
           q == [p EXCEPT !.pc = "decide", !.snap = d]
<1>1. p \in Process /\ p.pc = "attempt" /\ p.pc \in Late /\ p.snap \in Document
      /\ p.appr \in ApprovalRecord
  BY Known, ProcessFields DEF Attempt, At, Late
<1>2. /\ p.appr = approval /\ approval.by = p.cmd
      /\ Granted(approval) \/ Refused(approval)
      /\ Granted(approval) => Resuming(p, doc, receipts)
      /\ Refused(approval) => Cancelling(p, approval, doc, receipts)
      /\ doc \in Document
  BY <1>1, Continuing, Known
<1>3. /\ s \in Document /\ s.status = p.snap.status /\ s.reserved = p.snap.reserved
      /\ s.committed = p.snap.committed /\ s.bound = p.snap.bound
      /\ s.booked = p.snap.booked /\ s.notified = p.snap.notified
      /\ p.tool = "cancel" => s.prep = approval.status
      /\ p.tool # "cancel" => s = p.snap
  BY <1>1, <1>2 DEF Prepared, Document, ApprovalRecord, ApprovalStatus, CommitmentStatus
<1>4. UNCHANGED <<approval, replays, receipts, told, expired, mock, disturbances>>
  BY DEF Attempt
<1> HIDE DEF s
<1>5. CASE Continue(i, Thrown(i, s, "FAILED")) /\ UNCHANGED <<doc, log>>
  <2>1. Granted(approval) => s = doc
    BY <1>1, <1>2, <1>3 DEF Resuming, Late
  <2> QED
    BY <1>1, <1>3, <1>4, <1>5, <2>1, ThrownInformed, QuietStep DEF IInv, TypeOK
<1>6. CASE AppendEvent(i, Unkeyed, d, q)
  <2>1. /\ d \in Document /\ d.status = s.status /\ d.prep = s.prep /\ d.reserved = s.reserved
        /\ d.committed = s.committed /\ d.bound = s.bound /\ d.booked = s.booked
        /\ d.notified = s.notified
    BY <1>3 DEF Document
  <2> HIDE DEF d
  <2>2. /\ q \in Process /\ q.pc = "decide" /\ q.appr = p.appr /\ q.cmd = p.cmd
        /\ q.snap = d /\ q.fresh = p.fresh /\ q.tool = p.tool
    BY <1>1, <2>1 DEF Process, ControlPoints
  <2> HIDE DEF q
  <2>3. p.fresh => p.snap = doc
    BY <1>1, <1>2 DEF Resuming, Cancelling, Late
  <2>4. ASSUME Granted(approval)
        PROVE  Resuming(q, d, receipts) /\ GrantedShape(d, log, receipts)
    <3>1. p.tool \in {"confirm", "outbox"} /\ p.fresh /\ GrantedShape(doc, log, receipts)
      BY <1>1, <1>2, <2>4, Known DEF Resuming, Shape
    <3>2. GrantedShape(d, log, receipts)
      BY <1>3, <2>1, <2>3, <3>1 DEF GrantedShape
    <3>3. Resuming(q, d, receipts)
      BY <1>1, <1>2, <1>3, <2>1, <2>2, <2>3, <2>4, <3>1 DEF Resuming, Late
    <3> QED
      BY <3>2, <3>3
  <2>5. ASSUME Refused(approval), p.fresh
        PROVE  Cancelling(q, approval, d, receipts) /\ RefusedShape(approval, d, receipts)
    <3>1. p.tool = "cancel" /\ doc.status = "PENDING_APPROVAL" /\ RefusedShape(approval, doc, receipts)
      BY <1>1, <1>2, <2>5, Known DEF Cancelling, Shape
    <3>2. RefusedShape(approval, d, receipts)
      BY <1>3, <2>1, <2>3, <2>5, <3>1 DEF RefusedShape, Refused
    <3>3. Cancelling(q, approval, d, receipts)
      BY <1>3, <2>1, <2>2, <2>3, <2>5, <3>1 DEF Cancelling, Early, Late
    <3> QED
      BY <3>2, <3>3
  <2>6. p.fresh => Shape(approval, d, log, receipts, replays)
    BY <1>2, <2>4, <2>5, Known DEF Shape, RecordShape, Granted, Refused
  <2>7. p.fresh => Informed(q, approval, d, receipts)
    BY <1>2, <2>2, <2>4, <2>5 DEF Informed, Early, Late, Granted, Refused
  <2> QED
    BY <1>1, <1>4, <1>6, <2>1, <2>2, <2>6, <2>7, UnkeyedStep
<1> QED
  BY <1>5, <1>6 DEF Attempt, s

-----------------------------------------------------------------------------
(* The invariant.                                                          *)

\* The clock touches nothing the invariant is about.
LEMMA TickStep == IInv /\ Tick => IInv'
BY DEF Tick, IInv, TypeOK, Shape, RecordShape, Solo

\* A stuttering step keeps the invariant.
LEMMA Stutter == IInv /\ UNCHANGED vars => IInv'
BY DEF vars, IInv, TypeOK, Shape, RecordShape, Solo

\* Every step of every process and of the environment keeps the invariant.
LEMMA NextIInv == IInv /\ [Next]_vars => IInv'
<1> SUFFICES ASSUME IInv, Next PROVE IInv'
  BY Stutter
<1>1. ASSUME NEW i \in Instances, Step(i) PROVE IInv'
  BY <1>1, ReadApprovalStep, LoadTraceStep, ClaimStep, RecordReplayStep, DecisionEventStep,
     ResumeRunStep, ResumeAgentStep, AgentDoneStep, CommsStartStep, FinishStep, FailRunStep,
     AttemptStep, DecideStep, RecordDecisionStep, BlockedStep, ExecuteEffectStep,
     PutReceiptStep, SucceedStep, ToolFailedStep DEF Step
<1> QED
  BY <1>1, SweepDueStep, CrashStep, StorageErrorStep, ServeOtherRunStep, ReceiveCommandStep, TickStep DEF Next

\* The inductive invariant holds of every reachable state.
THEOREM Invariance == Spec => []IInv
BY InitIInv, NextIInv, PTL DEF Spec

\* Every variable keeps its type; in particular no sequence of retried
\* confirmations and cancellations (_apply_confirmation, _apply_cancellation)
\* makes the reserved spend negative.
THEOREM TypeCorrect == Spec => []TypeOK
<1>1. IInv => TypeOK
  BY DEF IInv
<1> QED
  BY <1>1, Invariance, PTL

\* A decided approval has the document of its outcome, an undecided one the
\* document of the paused run.
LEMMA DocumentCases ==
  ASSUME IInv
  PROVE  \/ approval.status = "PENDING_APPROVAL" /\ doc = PausedDocument /\ receipts = {}
            /\ replays = {}
         \/ Granted(approval) /\ GrantedShape(doc, log, receipts)
         \/ Refused(approval) /\ RefusedShape(approval, doc, receipts)
BY ApprovalAssumption, Known DEF Shape, RecordShape

\* Committed spend includes the amount exactly when the booking is confirmed,
\* and the reservation is gone only after a durable effect receipt: for any
\* number of processes, retries, crashes and shared caches.
THEOREM SpendSafe == Spec => []SpendFollowsEffects
<1>1. IInv => SpendFollowsEffects
  <2> SUFFICES ASSUME IInv PROVE SpendFollowsEffects
    OBVIOUS
  <2>1. CASE doc = PausedDocument
    BY <2>1, ApprovalAssumption DEF PausedDocument, SpendFollowsEffects
  <2>2. CASE Granted(approval) /\ GrantedShape(doc, log, receipts)
    BY <2>2, ApprovalAssumption DEF GrantedShape, SpendFollowsEffects
  <2>3. CASE Refused(approval) /\ RefusedShape(approval, doc, receipts)
    BY <2>3, ApprovalAssumption DEF Refused, RefusedShape, SpendFollowsEffects
  <2> QED
    BY <2>1, <2>2, <2>3, DocumentCases
<1> QED
  BY <1>1, Invariance, PTL

\* A terminal status tells the truth: COMPLETED is booked, paid and notified,
\* CANCELLED released, BLOCKED without any effect.
THEOREM TerminalSafe == Spec => []TerminalTruthful
<1>1. IInv => TerminalTruthful
  <2> SUFFICES ASSUME IInv PROVE TerminalTruthful
    OBVIOUS
  <2>1. CASE doc = PausedDocument
    BY <2>1 DEF PausedDocument, TerminalTruthful
  <2>2. CASE Granted(approval) /\ GrantedShape(doc, log, receipts)
    BY <2>2 DEF Granted, GrantedShape, TerminalTruthful
  <2>3. CASE Refused(approval) /\ RefusedShape(approval, doc, receipts)
    BY <2>3 DEF RefusedShape, TerminalTruthful
  <2> QED
    BY <2>1, <2>2, <2>3, DocumentCases
<1> QED
  BY <1>1, Invariance, PTL

\* Replay records, from which later retries are answered, exist only for the
\* command that decided the approval.
THEOREM ReplaySafe == Spec => []ReplayOfWinner
<1>1. IInv => ReplayOfWinner
  BY DEF IInv, Shape, RecordShape, ReplayOfWinner
<1> QED
  BY <1>1, Invariance, PTL

\* The fresh authorization after an approval never escalates a second time.
THEOREM EscalatesOnce == Spec => []NoSecondEscalation
<1>1. IInv => NoSecondEscalation
  <2> SUFFICES ASSUME IInv, NEW i \in Instances, proc[i].pc = "decide"
               PROVE  PolicyOutcome(proc[i]) # "ESCALATE"
    BY DEF NoSecondEscalation, At
  <2> DEFINE p == proc[i]
  <2>1. /\ p.pc \in Late
        /\ Granted(approval) \/ Refused(approval)
        /\ Granted(approval) => Resuming(p, doc, receipts)
        /\ Refused(approval) => Cancelling(p, approval, doc, receipts)
    BY Continuing DEF Late
  <2>2. CASE Refused(approval)
    BY <2>1, <2>2 DEF Cancelling, PolicyOutcome
  <2>3. CASE Granted(approval) /\ p.tool = "confirm"
    <3>1. p.snap = doc /\ doc.prep = "APPROVED"
      BY <2>1, <2>3 DEF Resuming, Late
    <3>2. doc.bound /\ doc.committed = Base /\ doc.reserved = Amount
      BY <2>3, <3>1, Known DEF Shape, GrantedShape
    <3>3. Base + Amount > Threshold /\ ~(Base + Amount <= Threshold)
      BY ApprovalAssumption
    <3>4. ConfirmOutcome(doc) # "ESCALATE"
      BY <2>3, <3>1, <3>2, <3>3 DEF ConfirmOutcome, Granted
    <3> QED
      BY <2>3, <3>1, <3>4 DEF PolicyOutcome
  <2>4. CASE Granted(approval) /\ p.tool = "outbox"
    BY <2>4 DEF PolicyOutcome
  <2> QED
    BY <2>1, <2>2, <2>3, <2>4 DEF Resuming
<1> QED
  BY <1>1, Invariance, PTL

-----------------------------------------------------------------------------
(* What steps do to the document.                                          *)

\* A process whose append is accepted works on a run that is not over, and
\* unless it has an applied effect to persist on the spend the document records.
LEMMA FreshSnapshot ==
  ASSUME IInv, NEW i \in Instances, proc[i].pc \in Early \cup Late, proc[i].fresh
  PROVE  /\ doc.status \notin Terminal
         /\ proc[i].pc \notin {"agentDone", "failRun"} => proc[i].snap = doc
<1> DEFINE p == proc[i]
<1>1. /\ p.pc \in Early => p.snap = doc
      /\ p.pc \in {"decisionEvent", "resumeRun"} => doc.status = "PENDING_APPROVAL"
      /\ Granted(approval) \/ Refused(approval)
      /\ Granted(approval) => Resuming(p, doc, receipts)
      /\ Refused(approval) => Cancelling(p, approval, doc, receipts)
      /\ doc \in Document
  BY Known, Continuing DEF Informed
<1>2. doc.status \in {"PENDING_APPROVAL", "RUNNING"}
  BY <1>1 DEF Resuming, Cancelling, Early
<1>3. p.pc \notin {"agentDone", "failRun"} => p.snap = doc
  BY <1>1 DEF Resuming, Cancelling
<1> QED
  BY <1>2, <1>3 DEF Terminal

\* What a continuation makes of the document.
Written(i) ==
  \/ (AgentDone(i) \/ FailRun(i)) /\ doc' = proc[i].snap
  \/ /\ proc[i].pc \notin {"agentDone", "failRun"}
     /\ \/ doc' = proc[i].snap
        \/ proc[i].pc = "decisionEvent" /\ doc' = [proc[i].snap EXCEPT !.prep = "APPROVED"]
        \/ \E status \in {"RUNNING", "COMPLETED", "CANCELLED"} :
             doc' = [proc[i].snap EXCEPT !.status = status]
        \/ proc[i].pc = "attempt" /\ doc' = [Prepared(proc[i]) EXCEPT !.calls = @ + 1]

\* The steps that may change the document are those of continuations, and they
\* change it only when their snapshot is current.
LEMMA WhoWrites ==
  ASSUME Next, doc' # doc
  PROVE  /\ UNCHANGED <<approval, receipts>>
         /\ \E i \in Instances :
              proc[i].pc \in Early \cup Late /\ proc[i].fresh /\ Written(i)
<1>1. PICK i \in Instances : Step(i)
  BY DEF Next, SweepDue, Crash, StorageError, ServeOtherRun, ReceiveCommand, Tick
<1>2. CASE DecisionEvent(i)
  BY <1>2 DEF DecisionEvent, Written, AppendEvent, At, Early
<1>3. CASE ResumeRun(i)
  BY <1>3 DEF ResumeRun, Written, AppendEvent, At, Early
<1>4. CASE ResumeAgent(i)
  BY <1>4 DEF ResumeAgent, Written, AppendEvent, At, Early
<1>5. CASE AgentDone(i) \/ FailRun(i)
  BY <1>5 DEF AgentDone, FailRun, Written, AppendEvent, At, Late
<1>6. CASE CommsStart(i) \/ ToolFailed(i)
  BY <1>6 DEF CommsStart, ToolFailed, Written, AppendEvent, At, Late
<1>7. CASE Finish(i)
  BY <1>7 DEF Finish, Written, AppendEvent, At, Late
<1>8. CASE Attempt(i)
  BY <1>8 DEF Attempt, Written, AppendEvent, At, Late
<1>9. CASE Decide(i) \/ RecordDecision(i)
  BY <1>9 DEF Decide, RecordDecision, Written, AppendEvent, At, Late
<1>10. CASE Blocked(i) \/ Succeed(i)
  BY <1>10 DEF Blocked, Succeed, Written, AppendEvent, At, Late
<1>11. CASE \/ ReadApproval(i) \/ LoadTrace(i) \/ Claim(i) \/ RecordReplay(i)
            \/ ExecuteEffect(i) \/ PutReceipt(i)
  BY <1>11 DEF ReadApproval, LoadTrace, Claim, RecordReplay, ExecuteEffect, PutReceipt
<1> QED
  BY <1>1, <1>2, <1>3, <1>4, <1>5, <1>6, <1>7, <1>8, <1>9, <1>10, <1>11 DEF Step

\* The document of a finished run never changes again, whatever late, stale or
\* retried process goes on with it.
THEOREM FinishedForever == Spec => TerminalFinal
<1>1. IInv /\ [Next]_vars => [doc.status \in Terminal => doc' = doc]_vars
  <2> SUFFICES ASSUME IInv, Next, doc' # doc PROVE doc.status \notin Terminal
    BY DEF vars
  <2> QED
    BY WhoWrites, FreshSnapshot
<1> QED
  BY <1>1, Invariance, PTL DEF Spec, TerminalFinal

-----------------------------------------------------------------------------
(* What the carrier and the customer are told.                             *)

\* A run that was resumed does not wait again, and a paid booking stays paid.
LEMMA DocumentOnward ==
  ASSUME IInv, Next, Granted(approval)
  PROVE  /\ doc.status # "PENDING_APPROVAL" => doc'.status # "PENDING_APPROVAL"
         /\ doc.prep = "CONFIRMED" => doc'.prep = "CONFIRMED"
<1> SUFFICES ASSUME doc' # doc
             PROVE  /\ doc.status # "PENDING_APPROVAL" => doc'.status # "PENDING_APPROVAL"
                    /\ doc.prep = "CONFIRMED" => doc'.prep = "CONFIRMED"
  OBVIOUS
<1>1. PICK i \in Instances : proc[i].pc \in Early \cup Late /\ proc[i].fresh /\ Written(i)
  BY WhoWrites
<1> DEFINE p == proc[i]
<1>2. /\ p \in Process /\ p.snap \in Document /\ doc \in Document /\ ~Refused(approval)
      /\ Informed(p, approval, doc, receipts) /\ Resuming(p, doc, receipts)
      /\ GrantedShape(doc, log, receipts)
  BY <1>1, Known, ProcessFields DEF Informed, Shape
<1>3. CASE (AgentDone(i) \/ FailRun(i)) /\ doc' = p.snap
  <2>1. p.pc \in {"agentDone", "failRun"} /\ p.pc \in Late
    BY <1>3 DEF AgentDone, FailRun, At, Late
  <2>2. CASE p.pc = "agentDone"
    <3>1. /\ doc' = Applied(doc, p.tool) /\ Applicable(p.tool, doc, receipts)
          /\ doc.status = "RUNNING" /\ p.tool \in {"confirm", "outbox"}
      BY <1>2, <1>3, <2>1, <2>2 DEF Resuming, Applicable, Late
    <3> QED
      BY <1>2, <3>1, AppliedGranted
  <2>3. CASE p.pc = "failRun"
    <3>1. /\ FailedFrom(p, doc, receipts) /\ doc.status = "RUNNING"
          /\ p.tool \in {"confirm", "outbox"}
      BY <1>2, <2>1, <2>3 DEF Resuming
    <3>2. Applicable(p.tool, doc, receipts) => Applied(doc, p.tool).prep = "CONFIRMED"
      BY <1>2, <3>1, AppliedGranted
    <3> QED
      BY <1>3, <3>1, <3>2 DEF FailedFrom, SameCommitment
  <2> QED
    BY <2>1, <2>2, <2>3
<1>4. CASE p.pc \notin {"agentDone", "failRun"}
  <2>1. p.snap = doc
    BY <1>1, <1>4, FreshSnapshot
  <2>2. CASE p.pc = "decisionEvent" /\ doc' = [p.snap EXCEPT !.prep = "APPROVED"]
    <3>1. doc.status = "PENDING_APPROVAL"
      BY <1>1, <1>2, <2>2 DEF Informed
    <3> QED
      BY <1>2, <3>1 DEF GrantedShape
  <2>3. CASE \E status \in {"RUNNING", "COMPLETED", "CANCELLED"} :
               doc' = [p.snap EXCEPT !.status = status]
    BY <1>2, <2>1, <2>3 DEF Document
  <2>4. CASE p.pc = "attempt" /\ doc' = [Prepared(p) EXCEPT !.calls = @ + 1]
    <3>1. p.tool # "cancel"
      BY <1>2, <2>4 DEF Resuming, Late
    <3>2. Prepared(p) = doc
      BY <2>1, <3>1 DEF Prepared
    <3> QED
      BY <1>2, <2>4, <3>2 DEF Document
  <2>5. CASE doc' = p.snap
    BY <2>1, <2>5
  <2> QED
    BY <1>1, <1>3, <1>4, <2>2, <2>3, <2>4, <2>5 DEF Written, AgentDone, FailRun, At
<1> QED
  BY <1>1, <1>3, <1>4 DEF Written

\* A tool in progress that was not called yet.
Ahead == {"attempt", "decide", "recordAllow", "recordBlock", "blocked", "effect"}

\* What was told fits the decision, the document d and the receipts r.
CountShape(a, d, r, t) ==
  /\ a.status = "PENDING_APPROVAL" => \A x \in Tools : t[x] = 0
  /\ Refused(a) => t["confirm"] = 0 /\ t["outbox"] = 0
  /\ Granted(a) => t["cancel"] = 0 /\ t["confirm"] <= 1 /\ t["outbox"] <= 1
  /\ Granted(a) /\ d.status = "PENDING_APPROVAL" => t["confirm"] = 0 /\ t["outbox"] = 0
  /\ t["outbox"] > 0 => d.prep = "CONFIRMED"
  /\ \A x \in r : t[x] > 0

\* What process p has told, or is about to tell for the first time.
CountAt(p, a, t) ==
  /\ p.pc = "receipt" => t[p.tool] > 0
  /\ Granted(a) /\ p.pc = "resumeAgent" /\ p.fresh => t["confirm"] = 0 /\ t["outbox"] = 0
  /\ Granted(a) /\ p.pc \in Ahead => t[p.tool] = 0
  /\ Granted(a) /\ ((p.pc \in Late /\ p.tool = "confirm") \/ p.pc = "commsStart") => t["outbox"] = 0

Counted ==
  /\ CountShape(approval, doc, receipts, told)
  /\ \A i \in Instances : CountAt(proc[i], approval, told)

\* Nothing was told before the pause was decided.
LEMMA InitCounted == Init => Counted
<1> SUFFICES ASSUME Init PROVE Counted
  OBVIOUS
<1>1. /\ told["confirm"] = 0 /\ told["cancel"] = 0 /\ told["outbox"] = 0 /\ \A x \in Tools : told[x] = 0
      /\ approval.status = "PENDING_APPROVAL" /\ receipts = {}
      /\ \A i \in Instances : proc[i].pc = "idle"
  BY DEF Init, Tools, PendingRecord, IdleProcess
<1>2. CountShape(approval, doc, receipts, told)
  BY <1>1 DEF CountShape, Granted, Refused
<1>3. ASSUME NEW i \in Instances PROVE CountAt(proc[i], approval, told)
  BY <1>1 DEF CountAt, Ahead, Late
<1> QED
  BY <1>2, <1>3 DEF Counted

\* A process elsewhere has nothing to count.
LEMMA NotCounting ==
  ASSUME NEW p, NEW a, NEW t, p.pc \notin Late \cup {"resumeAgent"}
  PROVE  CountAt(p, a, t)
BY DEF CountAt, Ahead, Late

\* A process that goes on with its tool, or gives it up.
LEMMA SameTool ==
  ASSUME NEW p, NEW q, NEW a, NEW t, CountAt(p, a, t),
         p.pc \in Late, q.tool = p.tool, q.pc \in Late \ {"receipt", "commsStart"},
         q.pc \in Ahead => p.pc \in Ahead
  PROVE  CountAt(q, a, t)
BY DEF CountAt, Ahead, Late

\* A step that tells nobody anything keeps the count right if it does for the
\* process that steps.
LEMMA QuietCount ==
  ASSUME IInv, IInv', Next, Counted, NEW i \in Instances, NEW q, told' = told, approval' = approval,
         proc'[i] = q, CountAt(q, approval, told),
         \A j \in Instances \ {i} :
           proc'[j] = proc[j] \/ proc'[j] = [proc[j] EXCEPT !.fresh = FALSE],
         \A x \in receipts' \ receipts : told[x] > 0
  PROVE  Counted'
<1>1. CountShape(approval', doc', receipts', told')
  <2>1. told \in [Tools -> Nat] /\ approval.status \in ApprovalStatus
    BY DEF IInv, TypeOK, ApprovalRecord
  <2>2. CountShape(approval, doc, receipts, told)
    BY DEF Counted
  <2>3. CASE Granted(approval)
    BY <2>1, <2>2, <2>3, DocumentOnward DEF CountShape, Granted, Refused
  <2>4. CASE ~Granted(approval)
    BY <2>1, <2>2, <2>4 DEF CountShape, Granted, Refused, ApprovalStatus, Tools
  <2> QED
    BY <2>3, <2>4
<1>2. ASSUME NEW j \in Instances PROVE CountAt(proc'[j], approval', told')
  <2>1. CASE j = i
    BY <2>1
  <2>2. CASE j # i /\ proc'[j] = proc[j]
    BY <2>2 DEF Counted
  <2>3. CASE j # i /\ proc'[j] = [proc[j] EXCEPT !.fresh = FALSE]
    <3>1. /\ proc'[j].pc = proc[j].pc /\ proc'[j].tool = proc[j].tool /\ ~proc'[j].fresh
      BY <2>3, Known DEF Process
    <3> QED
      BY <3>1 DEF Counted, CountAt
  <2> QED
    BY <2>1, <2>2, <2>3
<1> QED
  BY <1>1, <1>2 DEF Counted

\* A step of process i alone.
LEMMA LocalCount ==
  ASSUME IInv, IInv', Next, Counted, NEW i \in Instances, NEW q, Continue(i, q),
         told' = told, approval' = approval, CountAt(q, approval, told),
         \A x \in receipts' \ receipts : told[x] > 0
  PROVE  Counted'
<1>1. proc'[i] = q /\ \A j \in Instances \ {i} : proc'[j] = proc[j]
  BY DEF Continue, IInv, TypeOK
<1> QED
  BY <1>1, QuietCount

\* A request that ends.
LEMMA ReturnCount ==
  ASSUME IInv, IInv', Next, Counted, NEW i \in Instances, Return(i),
         told' = told, approval' = approval, receipts' = receipts
  PROVE  Counted'
BY LocalCount, NotCounting DEF Return, IdleProcess, Late

\* append_event, where the process that goes on counts right if its snapshot was
\* current or the event is on record.
LEMMA AppendCount ==
  ASSUME IInv, IInv', Next, Counted, NEW i \in Instances, NEW key, NEW d, NEW q,
         AppendEvent(i, key, d, q), UNCHANGED <<approval, receipts, told>>,
         key \in log \/ proc[i].fresh => CountAt(q, approval, told)
  PROVE  Counted'
<1>1. CASE key \in log /\ Continue(i, q)
  BY <1>1, LocalCount
<1>2. CASE Return(i)
  BY <1>2, ReturnCount
<1>3. CASE /\ proc[i].fresh
           /\ proc' = [j \in Instances |->
                         IF j = i THEN q ELSE [proc[j] EXCEPT !.fresh = FALSE]]
  BY <1>3, QuietCount
<1> QED
  BY <1>1, <1>2, <1>3 DEF AppendEvent

\* Steps outside a resumption.
LEMMA OutsideCount ==
  ASSUME IInv, IInv', Next, Counted, NEW i \in Instances,
         \/ ReadApproval(i) \/ LoadTrace(i) \/ RecordReplay(i) \/ SweepDue(i) \/ Crash(i)
         \/ \E c \in ClientCommands : ReceiveCommand(i, c)
  PROVE  Counted'
<1>1. UNCHANGED <<approval, receipts, told>> /\ proc[i] \in Process
  BY Known DEF ReadApproval, LoadTrace, RecordReplay, SweepDue, Crash, ReceiveCommand
<1>2. CASE Return(i)
  BY <1>1, <1>2, ReturnCount
<1>3. CASE \E q : /\ Continue(i, q)
                  /\ q.pc \in {"readApproval", "load", "claim", "decisionEvent", "recordReplay"}
  BY <1>1, <1>3, LocalCount, NotCounting DEF Late
<1>4. CASE ReadApproval(i)
  <2>1. [proc[i] EXCEPT !.pc = "load", !.appr = approval].pc = "load"
    BY <1>1 DEF Process
  <2> QED
    BY <1>2, <1>3, <1>4, <2>1 DEF ReadApproval
<1>5. CASE LoadTrace(i)
  <2> DEFINE p == [proc[i] EXCEPT !.snap = doc, !.fresh = TRUE]
             next == ContinueAt(doc)
  <2>1. /\ [p EXCEPT !.pc = "claim", !.cmd = Sweep].pc = "claim" /\ [p EXCEPT !.pc = "claim"].pc = "claim"
        /\ [p EXCEPT !.pc = next].pc = next
    BY <1>1 DEF Process
  <2>2. \/ Return(i) \/ Continue(i, [p EXCEPT !.pc = "claim", !.cmd = Sweep])
        \/ Continue(i, [p EXCEPT !.pc = "claim"]) \/ Continue(i, [p EXCEPT !.pc = next])
    BY <1>5 DEF LoadTrace
  <2>3. next \in {"decisionEvent", "recordReplay"}
    BY DEF ContinueAt
  <2> HIDE DEF p, next
  <2> QED
    BY <1>2, <1>3, <2>1, <2>2, <2>3
<1>6. CASE SweepDue(i)
  <2>1. [proc[i] EXCEPT !.pc = "load", !.cmd = Sweep, !.appr = approval].pc = "load"
    BY <1>1 DEF Process
  <2> QED
    BY <1>3, <1>6, <2>1 DEF SweepDue
<1>7. CASE \E c \in ClientCommands : ReceiveCommand(i, c)
  <2>1. PICK c \in ClientCommands : ReceiveCommand(i, c)
    BY <1>7
  <2>2. [proc[i] EXCEPT !.pc = "readApproval", !.cmd = c].pc = "readApproval"
    BY <1>1 DEF Process
  <2> QED
    BY <1>3, <2>1, <2>2 DEF ReceiveCommand
<1> QED
  BY <1>2, <1>4, <1>5, <1>6, <1>7 DEF RecordReplay, Crash

\* The claim: nothing was told yet, and nobody is about to tell.
LEMMA ClaimCount ==
  ASSUME IInv, IInv', Next, Counted, NEW i \in Instances, Claim(i)
  PROVE  Counted'
<1>1. UNCHANGED <<doc, receipts, told>>
  BY DEF Claim
<1>2. CASE Return(i) /\ approval' = approval
  BY <1>1, <1>2, ReturnCount
<1>3. CASE /\ approval.version = proc[i].appr.version
           /\ \E q \in Process : Continue(i, q) /\ q.pc = "decisionEvent"
  <2>1. approval.status = "PENDING_APPROVAL"
    BY <1>3, Known DEF Claim, At, Informed, Shape, RecordShape
  <2>2. \A x \in Tools : told[x] = 0
    BY <2>1 DEF Counted, CountShape
  <2>3. \A j \in Instances : proc[j].pc \notin Late /\ proc[j].tool \in Tools
    BY <2>1, Known, ProcessFields DEF Informed
  <2>4. \A j \in Instances : proc'[j].pc \notin Late /\ (proc'[j].pc = "decisionEvent" \/ proc'[j] = proc[j])
    BY <1>3, <2>3 DEF Continue, IInv, TypeOK, Late
  <2>5. \A j \in Instances : CountAt(proc'[j], approval', told')
    BY <1>1, <2>2, <2>4 DEF CountAt, Late, Ahead, Tools
  <2>6. receipts = {}
    BY <2>1, Known DEF Shape, RecordShape
  <2>7. CountShape(approval', doc', receipts', told')
    BY <1>1, <2>2, <2>6 DEF CountShape, Tools
  <2> QED
    BY <2>5, <2>7 DEF Counted
<1>4. \/ Return(i) /\ approval' = approval
      \/ /\ approval.version = proc[i].appr.version
         /\ Continue(i, [proc[i] EXCEPT !.pc = "decisionEvent", !.appr = approval'])
  BY DEF Claim
<1>5. [proc[i] EXCEPT !.pc = "decisionEvent", !.appr = approval'].pc = "decisionEvent"
      /\ [proc[i] EXCEPT !.pc = "decisionEvent", !.appr = approval'] \in Process
  <2>1. approval' \in ApprovalRecord /\ proc[i] \in Process
    BY Known DEF IInv, TypeOK
  <2> QED
    BY <2>1 DEF Process, ControlPoints
<1> QED
  BY <1>2, <1>3, <1>4, <1>5

\* Until the agent goes on, nothing was told of an approved run.
LEMMA ResumptionCount ==
  ASSUME IInv, IInv', Next, Counted, NEW i \in Instances,
         DecisionEvent(i) \/ ResumeRun(i) \/ ResumeAgent(i)
  PROVE  Counted'
<1> DEFINE p == proc[i]
<1>1. /\ p \in Process /\ p.pc \in Early /\ UNCHANGED <<approval, receipts, told>>
      /\ Informed(p, approval, doc, receipts) /\ Unkeyed \notin log
      /\ Shape(approval, doc, log, receipts, replays) /\ CountAt(p, approval, told)
      /\ CountShape(approval, doc, receipts, told)
      /\ Granted(approval) <=> p.appr.status = "APPROVED"
  BY Known, Continuing DEF DecisionEvent, ResumeRun, ResumeAgent, At, Early, Counted
<1>2. CASE DecisionEvent(i)
  <2> DEFINE approved == p.appr.status = "APPROVED"
             d == IF approved THEN [p.snap EXCEPT !.prep = "APPROVED"] ELSE p.snap
             next == IF approved THEN "resumeRun" ELSE "resumeAgent"
             q == [p EXCEPT !.pc = next, !.snap = d]
  <2>1. AppendEvent(i, p.appr.status, d, q)
    BY <1>2 DEF DecisionEvent
  <2> HIDE DEF d
  <2>2. q.pc = next
    BY <1>1 DEF Process
  <2> HIDE DEF q
  <2>3. CountAt(q, approval, told)
    BY <1>1, <2>2 DEF CountAt, Ahead, Late
  <2> QED
    BY <1>1, <2>1, <2>3, AppendCount
<1>3. CASE ResumeRun(i)
  <2> DEFINE d == [p.snap EXCEPT !.status = "RUNNING"]
             q == [p EXCEPT !.pc = "resumeAgent", !.snap = d]
  <2>1. Return(i) \/ AppendEvent(i, "RUN_RESUMED", d, q)
    BY <1>3 DEF ResumeRun
  <2> HIDE DEF d
  <2>2. q.pc = "resumeAgent" /\ q.fresh = p.fresh
    BY <1>1 DEF Process
  <2> HIDE DEF q
  <2>3. CountAt(q, approval, told)
    <3>1. p.fresh => doc.status = "PENDING_APPROVAL"
      BY <1>1, <1>3 DEF Informed, ResumeRun, At
    <3> QED
      BY <1>1, <2>2, <3>1 DEF CountAt, CountShape, Ahead, Late
  <2> QED
    BY <1>1, <2>1, <2>3, AppendCount, ReturnCount
<1>4. CASE ResumeAgent(i)
  <2> DEFINE tool == IF p.appr.status = "APPROVED" THEN "confirm" ELSE "cancel"
             q == [p EXCEPT !.pc = "attempt", !.tool = tool]
  <2>1. Return(i) \/ AppendEvent(i, Unkeyed, p.snap, q)
    BY <1>4 DEF ResumeAgent
  <2>2. q.pc = "attempt" /\ q.tool = tool
    BY <1>1 DEF Process
  <2> HIDE DEF q
  <2>3. p.fresh => CountAt(q, approval, told)
    BY <1>1, <1>4, <2>2 DEF ResumeAgent, At, CountAt, Ahead, Late
  <2> QED
    BY <1>1, <2>1, <2>3, AppendCount, ReturnCount
<1> QED
  BY <1>2, <1>3, <1>4

\* Events around the tool call, and errors on the way.
LEMMA ToolCount ==
  ASSUME IInv, IInv', Next, Counted, NEW i \in Instances,
         \/ Attempt(i) \/ Decide(i) \/ RecordDecision(i) \/ Blocked(i) \/ Succeed(i)
         \/ ToolFailed(i) \/ PutReceipt(i) \/ StorageError(i)
  PROVE  Counted'
<1> DEFINE p == proc[i]
<1>1. /\ p \in Process /\ CountAt(p, approval, told) /\ UNCHANGED <<approval, told>>
      /\ Unkeyed \notin log
  BY Known DEF Attempt, Decide, RecordDecision, Blocked, Succeed, ToolFailed, PutReceipt,
     StorageError, Counted
<1>2. ASSUME p.pc \in Late, NEW s, NEW status PROVE CountAt(Thrown(i, s, status), approval, told)
  <2>1. CASE Thrown(i, s, status) = IdleProcess
    BY <2>1, NotCounting DEF IdleProcess, Late
  <2>2. CASE Thrown(i, s, status) = [p EXCEPT !.pc = "failRun", !.snap = [s EXCEPT !.status = status]]
    <3> DEFINE q == Thrown(i, s, status)
    <3>1. q.pc = "failRun" /\ q.tool = p.tool
      BY <1>1, <2>2 DEF Process
    <3> HIDE DEF q
    <3> QED
      BY <1>1, <1>2, <3>1, SameTool DEF Late, Ahead, q
  <2> QED
    BY <2>1, <2>2 DEF Thrown
<1>3. ASSUME p.pc \in Late, NEW next \in Late \ {"receipt", "commsStart"},
             next \in Ahead => p.pc \in Ahead, NEW s
      PROVE  /\ CountAt([p EXCEPT !.pc = next], approval, told)
             /\ CountAt([p EXCEPT !.pc = next, !.snap = s], approval, told)
  <2> DEFINE q == [p EXCEPT !.pc = next]
             u == [p EXCEPT !.pc = next, !.snap = s]
  <2>1. q.pc = next /\ q.tool = p.tool /\ u.pc = next /\ u.tool = p.tool
    BY <1>1 DEF Process
  <2> HIDE DEF q, u
  <2>2. CountAt(q, approval, told)
    BY <1>1, <1>3, <2>1, SameTool
  <2>3. CountAt(u, approval, told)
    BY <1>1, <1>3, <2>1, SameTool
  <2> QED
    BY <2>2, <2>3 DEF q, u
<1>4. CASE Attempt(i)
  <2> DEFINE d == [Prepared(p) EXCEPT !.calls = @ + 1]
             q == [p EXCEPT !.pc = "decide", !.snap = d]
  <2>1. \/ AppendEvent(i, Unkeyed, d, q)
        \/ Continue(i, Thrown(i, Prepared(p), "FAILED"))
    BY <1>4 DEF Attempt
  <2>2. p.pc = "attempt" /\ p.pc \in Late /\ UNCHANGED receipts
    BY <1>4 DEF Attempt, At, Late
  <2>3. CountAt(q, approval, told) /\ CountAt(Thrown(i, Prepared(p), "FAILED"), approval, told)
    BY <1>2, <1>3, <2>2 DEF Late, Ahead
  <2> HIDE DEF q, d
  <2> QED
    BY <1>1, <2>1, <2>2, <2>3, AppendCount, LocalCount
<1>5. CASE Decide(i) \/ RecordDecision(i)
  <2>1. PICK next \in {"recordAllow", "recordBlock", "effect", "blocked"} :
          AppendEvent(i, Unkeyed, p.snap, [p EXCEPT !.pc = next])
    BY <1>5 DEF Decide, RecordDecision
  <2>2. p.pc \in Ahead /\ p.pc \in Late /\ UNCHANGED receipts
    BY <1>5 DEF Decide, RecordDecision, At, Late, Ahead
  <2>3. CountAt([p EXCEPT !.pc = next], approval, told)
    BY <1>3, <2>2 DEF Late
  <2> QED
    BY <1>1, <2>1, <2>2, <2>3, AppendCount
<1>6. CASE Blocked(i) \/ ToolFailed(i) \/ Succeed(i)
  <2>1. \/ \E s, status : AppendEvent(i, Unkeyed, p.snap, Thrown(i, s, status))
        \/ \E s : AppendEvent(i, Unkeyed, p.snap, [p EXCEPT !.pc = "agentDone", !.snap = s])
    BY <1>6 DEF Blocked, ToolFailed, Succeed
  <2>2. p.pc \in Late /\ UNCHANGED receipts
    BY <1>6 DEF Blocked, ToolFailed, Succeed, At, Late
  <2>3. \A s : CountAt([p EXCEPT !.pc = "agentDone", !.snap = s], approval, told)
    BY <1>3, <2>2 DEF Late, Ahead
  <2>4. \A s, status : CountAt(Thrown(i, s, status), approval, told)
    BY <1>2, <2>2
  <2> QED
    BY <1>1, <2>1, <2>2, <2>3, <2>4, AppendCount
<1>7. CASE PutReceipt(i)
  <2>1. /\ p.pc = "receipt" /\ p.pc \in Late /\ receipts' = receipts \cup {p.tool}
        /\ Continue(i, [p EXCEPT !.pc = "succeed"])
    BY <1>7 DEF PutReceipt, At, Late
  <2>2. CountAt([p EXCEPT !.pc = "succeed"], approval, told)
    BY <1>3, <2>1 DEF Late, Ahead
  <2>3. told[p.tool] > 0
    BY <1>1, <2>1 DEF CountAt
  <2> QED
    BY <1>1, <2>1, <2>2, <2>3, LocalCount
<1>8. CASE StorageError(i)
  <2>1. UNCHANGED receipts
    BY <1>8 DEF StorageError
  <2>2. CASE Return(i)
    BY <1>1, <2>1, <2>2, ReturnCount
  <2>3. CASE p.pc \in InTry /\ Continue(i, FailedAppend(p))
    <3>1. FailedAppend(p).pc = "failRun" /\ FailedAppend(p).tool = p.tool /\ p.pc \in Late
      BY <1>1, <2>3 DEF FailedAppend, Process, InTry, Late
    <3>2. CountAt(FailedAppend(p), approval, told)
      BY <1>1, <3>1, SameTool DEF Late, Ahead
    <3> QED
      BY <1>1, <2>1, <2>3, <3>2, LocalCount
  <2>4. CASE p.pc \in {"effect", "receipt", "succeed"} /\ Continue(i, [p EXCEPT !.pc = "toolFailed"])
    <3>1. CountAt([p EXCEPT !.pc = "toolFailed"], approval, told)
      BY <1>3, <2>4 DEF Late, Ahead
    <3> QED
      BY <1>1, <2>1, <2>4, <3>1, LocalCount
  <2> QED
    BY <1>8, <2>2, <2>3, <2>4 DEF StorageError
<1> QED
  BY <1>4, <1>5, <1>6, <1>7, <1>8

\* The carrier's part hands over to the message, which was not sent yet.
LEMMA HandoverCount ==
  ASSUME IInv, IInv', Next, Counted, NEW i \in Instances,
         AgentDone(i) \/ CommsStart(i) \/ Finish(i) \/ FailRun(i)
  PROVE  Counted'
<1> DEFINE p == proc[i]
<1>1. /\ p \in Process /\ p.pc \in Late /\ CountAt(p, approval, told)
      /\ UNCHANGED <<approval, receipts, told>>
  BY Known DEF AgentDone, CommsStart, Finish, FailRun, At, Late, Counted
<1>2. CASE AgentDone(i)
  <2> DEFINE next == IF p.tool = "confirm" THEN "commsStart" ELSE "finish"
             q == [p EXCEPT !.pc = next]
  <2>1. AppendEvent(i, Unkeyed, p.snap, q)
    BY <1>2 DEF AgentDone
  <2>2. q.pc = next /\ q.tool = p.tool
    BY <1>1 DEF Process
  <2> HIDE DEF q
  <2>3. CountAt(q, approval, told)
    BY <1>1, <2>2 DEF CountAt, Late, Ahead
  <2> QED
    BY <1>1, <2>1, <2>3, AppendCount
<1>3. CASE CommsStart(i)
  <2> DEFINE q == [p EXCEPT !.pc = "attempt", !.tool = "outbox"]
  <2>1. AppendEvent(i, Unkeyed, p.snap, q) /\ p.pc = "commsStart"
    BY <1>3 DEF CommsStart, At
  <2>2. q.pc = "attempt" /\ q.tool = "outbox"
    BY <1>1 DEF Process
  <2> HIDE DEF q
  <2>3. CountAt(q, approval, told)
    BY <1>1, <2>1, <2>2 DEF CountAt, Late, Ahead
  <2> QED
    BY <1>1, <2>1, <2>3, AppendCount
<1>4. CASE Finish(i) \/ FailRun(i)
  <2>1. \E key, d : AppendEvent(i, key, d, AfterRun(p))
    BY <1>4 DEF Finish, FailRun
  <2>2. AfterRun(p).pc \in {"idle", "recordReplay"}
    BY <1>1 DEF AfterRun, IdleProcess, Process
  <2>3. CountAt(AfterRun(p), approval, told)
    BY <2>2, NotCounting DEF Late
  <2> QED
    BY <1>1, <2>1, <2>3, AppendCount
<1> QED
  BY <1>2, <1>3, <1>4

\* The call itself: the one process that resumes an approved run makes it once.
LEMMA CallCount ==
  ASSUME IInv, IInv', Next, Counted, NEW i \in Instances, ExecuteEffect(i)
  PROVE  Counted'
<1> DEFINE p == proc[i]
<1>1. /\ p \in Process /\ p.tool \in Tools /\ p.pc = "effect" /\ p.pc \in Late /\ p.pc \in Ahead
      /\ CountAt(p, approval, told) /\ CountShape(approval, doc, receipts, told)
      /\ UNCHANGED <<approval, doc, receipts>> /\ told \in [Tools -> Nat]
      /\ Granted(approval) \/ Refused(approval)
      /\ Granted(approval) => Resuming(p, doc, receipts)
      /\ Refused(approval) => Cancelling(p, approval, doc, receipts)
  BY Known, Continuing, ProcessFields DEF ExecuteEffect, At, Late, Ahead, Counted, IInv, TypeOK
<1>2. CASE told' = told /\ \E next \in {"succeed", "toolFailed"} : Continue(i, [p EXCEPT !.pc = next])
  <2>1. PICK next \in {"succeed", "toolFailed"} : Continue(i, [p EXCEPT !.pc = next])
    BY <1>2
  <2>2. [p EXCEPT !.pc = next].pc = next /\ [p EXCEPT !.pc = next].tool = p.tool
    BY <1>1 DEF Process
  <2>3. CountAt([p EXCEPT !.pc = next], approval, told)
    BY <1>1, <2>2, SameTool DEF Late, Ahead
  <2> QED
    BY <1>1, <1>2, <2>1, <2>3, LocalCount
<1>3. CASE told' = [told EXCEPT ![p.tool] = @ + 1] /\ Continue(i, [p EXCEPT !.pc = "receipt"])
  <2> DEFINE q == [p EXCEPT !.pc = "receipt"]
  <2>1. q.pc = "receipt" /\ q.tool = p.tool
    BY <1>1 DEF Process
  <2>2. proc'[i] = q /\ \A j \in Instances \ {i} : proc'[j] = proc[j]
    BY <1>3 DEF Continue, IInv, TypeOK
  <2> HIDE DEF q
  <2>3. /\ told'[p.tool] = told[p.tool] + 1 /\ told[p.tool] \in Nat
        /\ \A x \in Tools \ {p.tool} : told'[x] = told[x]
    BY <1>1, <1>3
  <2>4. \A x \in Tools : told[x] > 0 => told'[x] > 0
    BY <1>1, <2>3
  <2>5. CASE Refused(approval)
    <3>1. p.tool = "cancel" /\ ~Granted(approval) /\ approval.status # "PENDING_APPROVAL"
      BY <1>1, <2>5 DEF Cancelling, Granted, Refused
    <3>2. told'["confirm"] = told["confirm"] /\ told'["outbox"] = told["outbox"]
      BY <2>3, <3>1 DEF Tools
    <3>3. CountShape(approval, doc, receipts, told')
      BY <1>1, <2>4, <3>1, <3>2, Known DEF CountShape
    <3>4. ASSUME NEW j \in Instances PROVE CountAt(proc'[j], approval, told')
      <4>1. proc[j].tool \in Tools /\ CountAt(proc[j], approval, told)
        BY Known, ProcessFields DEF Counted
      <4>2. CASE j = i
        BY <2>1, <2>2, <2>3, <3>1, <4>2 DEF CountAt
      <4>3. CASE j # i
        BY <2>2, <2>4, <3>1, <4>1, <4>3 DEF CountAt
      <4> QED
        BY <4>2, <4>3
    <3> QED
      BY <1>1, <3>3, <3>4 DEF Counted
  <2>6. CASE Granted(approval)
    <3>1. /\ p.tool \in {"confirm", "outbox"} /\ told[p.tool] = 0 /\ ~Refused(approval)
          /\ doc.status = "RUNNING" /\ (p.tool = "outbox" => doc.prep = "CONFIRMED")
          /\ approval.status # "PENDING_APPROVAL"
      BY <1>1, <2>6 DEF Resuming, CountAt, Granted, Refused, Late
    <3>2. told'["cancel"] = told["cancel"]
      BY <2>3, <3>1 DEF Tools
    <3>3. CountShape(approval, doc, receipts, told')
      BY <1>1, <2>3, <2>4, <2>6, <3>1, <3>2, Known DEF CountShape, Tools
    <3>4. ASSUME NEW j \in Instances, j # i PROVE CountAt(proc'[j], approval, told')
      <4>1. ~Engaged(proc[j]) /\ Engaged(p)
        BY <1>1, <2>6, <3>4 DEF IInv, Solo, Engaged
      <4> QED
        BY <2>2, <3>4, <4>1 DEF Engaged, CountAt, Ahead, Late
    <3>5. CountAt(q, approval, told')
      <4>1. p.tool = "confirm" => told'["outbox"] = 0
        BY <1>1, <2>3, <2>6 DEF CountAt, Tools
      <4> QED
        BY <2>1, <2>3, <3>1, <4>1 DEF CountAt, Ahead, Late
    <3> QED
      BY <1>1, <2>2, <3>3, <3>4, <3>5 DEF Counted
  <2> QED
    BY <1>1, <2>5, <2>6
<1> QED
  BY <1>2, <1>3 DEF ExecuteEffect

\* Every step keeps the count.
LEMMA NextCounted == IInv /\ IInv' /\ Counted /\ [Next]_vars => Counted'
<1> SUFFICES ASSUME IInv, IInv', Counted, [Next]_vars PROVE Counted'
  OBVIOUS
<1>1. CASE UNCHANGED vars
  BY <1>1 DEF vars, Counted
<1>2. CASE Next /\ UNCHANGED <<approval, doc, receipts, told, proc>>
  BY <1>2 DEF Counted
<1>3. ASSUME Next, NEW i \in Instances, Step(i) PROVE Counted'
  BY <1>3, OutsideCount, ClaimCount, ResumptionCount, ToolCount, HandoverCount, CallCount DEF Step
<1>4. ASSUME Next, NEW i \in Instances,
             \/ SweepDue(i) \/ Crash(i) \/ StorageError(i) \/ ServeOtherRun(i)
             \/ \E c \in ClientCommands : ReceiveCommand(i, c)
      PROVE  Counted'
  BY <1>2, <1>4, OutsideCount, ToolCount DEF ServeOtherRun
<1> QED
  BY <1>1, <1>2, <1>3, <1>4 DEF Next, Tick

\* The carrier is told to confirm at most once and only for an approved run, a
\* release only for a refused one, and the customer once, after a paid booking:
\* counted at the calls themselves, whatever dies, fails or runs beside it between
\* a call and its receipt (_execute_with_durable_receipt).
THEOREM ToldSafe == Spec => []ToldOnce
<1>1. IInv /\ Counted => ToldOnce
  <2> SUFFICES ASSUME IInv, Counted PROVE ToldOnce
    OBVIOUS
  <2>1. /\ told \in [Tools -> Nat] /\ CountShape(approval, doc, receipts, told)
        /\ approval.status = "PENDING_APPROVAL" \/ Granted(approval) \/ Refused(approval)
    BY DEF IInv, TypeOK, Counted, ApprovalRecord, ApprovalStatus, Granted, Refused
  <2>2. /\ told["confirm"] \in Nat /\ told["cancel"] \in Nat /\ told["outbox"] \in Nat
    BY <2>1 DEF Tools
  <2>3. CASE approval.status = "PENDING_APPROVAL"
    BY <2>1, <2>2, <2>3 DEF CountShape, Tools, ToldOnce
  <2>4. CASE Granted(approval)
    BY <2>1, <2>2, <2>4 DEF CountShape, Granted, ToldOnce
  <2>5. CASE Refused(approval)
    BY <2>1, <2>2, <2>5 DEF CountShape, Refused, ToldOnce
  <2> QED
    BY <2>1, <2>3, <2>4, <2>5
<1> QED
  BY <1>1, InitCounted, NextCounted, Invariance, PTL DEF Spec

-----------------------------------------------------------------------------
(* The refinement of Commitment.                                           *)

\* The paused run is an open commitment with its amount reserved.
LEMMA PromiseInit == Init => Promise!Init
<1> SUFFICES ASSUME Init PROVE Promise!Init
  OBVIOUS
<1>1. DecisionTaken = "open"
  BY DEF Init, PendingRecord, DecisionTaken
<1>2. EffectMade = "none" /\ CustomerTold = FALSE
  BY DEF Init, EffectMade, CustomerTold
<1>3. doc.reserved = Amount /\ doc.committed = Base /\ Amount # 0
  BY ApprovalAssumption DEF Init, PausedDocument
<1>4. SpendRecorded = "reserved"
  BY <1>3 DEF SpendRecorded
<1> QED
  BY <1>1, <1>2, <1>4 DEF Promise!Init

\* What the mapping reads besides spend.
LEMMA SpendOnly ==
  ASSUME UNCHANGED <<approval, receipts>>
  PROVE  UNCHANGED <<DecisionTaken, EffectMade, CustomerTold>>
BY DEF DecisionTaken, EffectMade, CustomerTold

\* A step that leaves the approval, the receipts and the spend is a stutter.
LEMMA PromiseStutter ==
  ASSUME UNCHANGED <<approval, receipts>>,
         doc'.reserved = doc.reserved, doc'.committed = doc.committed
  PROVE  UNCHANGED Promise!vars
BY SpendOnly DEF Promise!vars, SpendRecorded

\* Claiming the approval is the one decision.
LEMMA PromiseClaim ==
  ASSUME IInv, NEW i \in Instances, Claim(i)
  PROVE  Promise!DecideOnce \/ UNCHANGED Promise!vars
<1>1. UNCHANGED <<doc, receipts>>
  BY DEF Claim
<1>2. CASE approval' = approval
  BY <1>1, <1>2, PromiseStutter
<1>3. CASE approval.version = proc[i].appr.version /\ approval'.status = StatusOf(proc[i].cmd.decision)
  <2>1. approval.status = "PENDING_APPROVAL"
    BY <1>3, Known DEF Claim, At, Informed, Shape, RecordShape
  <2>2. approval'.status \in {"APPROVED", "REJECTED", "EXPIRED"}
    BY <1>3, Known, ProcessFields DEF Command, StatusOf
  <2>3. DecisionTaken = "open" /\ DecisionTaken' \in {"granted", "refused"}
    BY <2>1, <2>2 DEF DecisionTaken
  <2>4. UNCHANGED <<EffectMade, SpendRecorded, CustomerTold>>
    BY <1>1 DEF EffectMade, SpendRecorded, CustomerTold
  <2> QED
    BY <2>3, <2>4 DEF Promise!DecideOnce
<1> QED
  BY <1>2, <1>3 DEF Claim

\* A receipt is the effect that was decided, or the notice of a paid booking.
LEMMA PromiseReceipt ==
  ASSUME IInv, NEW i \in Instances, PutReceipt(i)
  PROVE  Promise!TellCarrier \/ Promise!Notify \/ UNCHANGED Promise!vars
<1> DEFINE p == proc[i]
<1>1. /\ p.pc = "receipt" /\ p.pc \in Late /\ receipts' = receipts \cup {p.tool}
      /\ UNCHANGED <<approval, doc>>
  BY DEF PutReceipt, At, Late
<1>2. /\ Granted(approval) \/ Refused(approval)
      /\ Granted(approval) => Resuming(p, doc, receipts) /\ GrantedShape(doc, log, receipts)
      /\ Refused(approval) =>
           Cancelling(p, approval, doc, receipts) /\ RefusedShape(approval, doc, receipts)
  BY <1>1, Continuing, Known DEF Shape
<1>3. UNCHANGED <<DecisionTaken, SpendRecorded>>
  BY <1>1 DEF DecisionTaken, SpendRecorded
<1>4. CASE Granted(approval) /\ p.tool = "confirm"
  <2>1. receipts = {} /\ receipts' = {"confirm"}
    BY <1>1, <1>2, <1>4 DEF Resuming, Late
  <2>2. DecisionTaken = "granted"
    BY <1>4 DEF Granted, DecisionTaken
  <2>3. EffectMade = "none" /\ EffectMade' = "confirmed" /\ UNCHANGED CustomerTold
    BY <2>1 DEF EffectMade, CustomerTold
  <2> QED
    BY <1>3, <2>2, <2>3 DEF Promise!TellCarrier
<1>5. CASE Granted(approval) /\ p.tool = "outbox"
  <2>1. doc.prep = "CONFIRMED"
    BY <1>1, <1>2, <1>5 DEF Resuming, Late
  <2>2. "confirm" \in receipts /\ doc.reserved = 0 /\ doc.committed = Base + Amount
    BY <1>2, <1>5, <2>1 DEF GrantedShape
  <2>3. SpendRecorded = "committed"
    BY <2>2, ApprovalAssumption DEF SpendRecorded
  <2>4. EffectMade' = EffectMade /\ CustomerTold' = TRUE
    BY <1>1, <1>5, <2>2 DEF EffectMade, CustomerTold
  <2> QED
    BY <1>3, <2>3, <2>4 DEF Promise!Notify
<1>6. CASE Refused(approval)
  <2>1. p.tool = "cancel" /\ "confirm" \notin receipts
    BY <1>1, <1>2, <1>6 DEF Cancelling, RefusedShape
  <2>2. DecisionTaken = "refused"
    BY <1>6 DEF Refused, DecisionTaken
  <2>3. UNCHANGED CustomerTold
    BY <1>1, <2>1 DEF CustomerTold
  <2>4. CASE "cancel" \in receipts
    BY <1>1, <1>3, <2>1, <2>3, <2>4 DEF Promise!vars, EffectMade
  <2>5. CASE "cancel" \notin receipts
    <3>1. EffectMade = "none" /\ EffectMade' = "released"
      BY <1>1, <2>1, <2>5 DEF EffectMade
    <3> QED
      BY <1>3, <2>2, <2>3, <3>1 DEF Promise!TellCarrier
  <2> QED
    BY <2>4, <2>5
<1> QED
  BY <1>1, <1>2, <1>4, <1>5, <1>6 DEF Resuming

\* AGENT_COMPLETED records the spend of the effect, or RUN_FAILED instead of it.
LEMMA PromiseSpend ==
  ASSUME IInv, NEW i \in Instances, AgentDone(i) \/ FailRun(i), proc[i].fresh,
         doc' = proc[i].snap, UNCHANGED <<approval, receipts>>
  PROVE  Promise!MoveSpend \/ UNCHANGED Promise!vars
<1> DEFINE p == proc[i]
<1>1. p.pc \in {"agentDone", "failRun"} /\ p.pc \in Late
  BY DEF AgentDone, FailRun, At, Late
<1>2. /\ Granted(approval) \/ Refused(approval)
      /\ Granted(approval) => Resuming(p, doc, receipts) /\ GrantedShape(doc, log, receipts)
      /\ Refused(approval) =>
           Cancelling(p, approval, doc, receipts) /\ RefusedShape(approval, doc, receipts)
      /\ doc \in Document
  BY <1>1, Continuing, Known DEF Shape
<1>3. Amount - Amount = 0 /\ 0 # Amount /\ Base # Base + Amount
  BY ApprovalAssumption
<1>4. CASE SameCommitment(p.snap, doc)
  BY <1>4, PromiseStutter DEF SameCommitment
<1>5. CASE /\ Granted(approval) /\ Applicable(p.tool, doc, receipts)
           /\ SameCommitment(p.snap, Applied(doc, p.tool))
  <2> DEFINE e == Applied(doc, p.tool)
  <2>1. /\ e.reserved = 0 /\ e.committed = Base + Amount
        /\ p.tool = "confirm" => doc.reserved = Amount /\ doc.committed = Base
        /\ p.tool = "outbox" => e.reserved = doc.reserved /\ e.committed = doc.committed
        /\ p.tool \in {"confirm", "outbox"}
    BY <1>1, <1>2, <1>5, AppliedGranted DEF Resuming
  <2> HIDE DEF e
  <2>2. doc'.reserved = e.reserved /\ doc'.committed = e.committed
    BY <1>5 DEF SameCommitment, e
  <2>3. CASE p.tool = "confirm"
    <3>1. "confirm" \in receipts
      BY <1>5, <2>3 DEF Applicable
    <3>2. SpendRecorded = "reserved" /\ SpendRecorded' = "committed" /\ EffectMade = "confirmed"
      BY <1>3, <2>1, <2>2, <2>3, <3>1 DEF SpendRecorded, EffectMade
    <3> QED
      BY <3>2, SpendOnly DEF Promise!MoveSpend
  <2>4. CASE p.tool = "outbox"
    BY <2>1, <2>2, <2>4, PromiseStutter
  <2> QED
    BY <2>1, <2>3, <2>4
<1>6. CASE Refused(approval)
  <2>1. /\ doc' = Applied(doc, "cancel") /\ doc.prep = approval.status /\ "cancel" \in receipts
        /\ "confirm" \notin receipts /\ doc.reserved = Amount /\ doc.committed = Base
    BY <1>1, <1>2, <1>6 DEF Cancelling, RefusedShape
  <2>2. doc'.reserved = doc.reserved - Amount /\ doc'.committed = doc.committed
    BY <1>2, <1>6, <2>1 DEF Applied, Document, Refused
  <2>3. SpendRecorded = "reserved" /\ SpendRecorded' = "freed" /\ EffectMade = "released"
    BY <1>3, <2>1, <2>2 DEF SpendRecorded, EffectMade
  <2> QED
    BY <2>3, SpendOnly DEF Promise!MoveSpend
<1>7. ASSUME Granted(approval)
      PROVE  \/ SameCommitment(p.snap, doc)
             \/ Applicable(p.tool, doc, receipts) /\ SameCommitment(p.snap, Applied(doc, p.tool))
  BY <1>1, <1>2, <1>7 DEF Resuming, FailedFrom, Applicable, SameCommitment, Late
<1> QED
  BY <1>2, <1>4, <1>5, <1>6, <1>7

\* Every step is a step of the commitment, or a stutter.
LEMMA PromiseNext ==
  ASSUME IInv, [Next]_vars
  PROVE  [Promise!Next]_(Promise!vars)
<1>1. CASE UNCHANGED vars
  BY <1>1, PromiseStutter DEF vars
<1>2. CASE Next /\ doc' # doc
  <2>1. UNCHANGED <<approval, receipts>>
    BY <1>2, WhoWrites
  <2>2. PICK i \in Instances : proc[i].pc \in Early \cup Late /\ proc[i].fresh /\ Written(i)
    BY <1>2, WhoWrites
  <2>3. CASE (AgentDone(i) \/ FailRun(i)) /\ doc' = proc[i].snap
    BY <2>1, <2>2, <2>3, PromiseSpend DEF Promise!Next
  <2>4. CASE proc[i].pc \notin {"agentDone", "failRun"}
    <3>1. proc[i].snap \in Document
      BY Known, ProcessFields
    <3>2. proc[i].snap = doc /\ ~AgentDone(i) /\ ~FailRun(i)
      BY <2>2, <2>4, FreshSnapshot DEF AgentDone, FailRun, At
    <3>4. /\ doc'.reserved = proc[i].snap.reserved
          /\ doc'.committed = proc[i].snap.committed
      BY <2>2, <3>1, <3>2 DEF Document, Prepared, Written
    <3> QED
      BY <2>1, <3>2, <3>4, PromiseStutter
  <2> QED
    BY <2>2, <2>3, <2>4 DEF Written
<1>3. CASE Next /\ doc' = doc /\ UNCHANGED <<approval, receipts>>
  BY <1>3, PromiseStutter
<1>4. CASE Next /\ ~UNCHANGED <<approval, receipts>>
  <2>1. PICK i \in Instances : Claim(i) \/ PutReceipt(i)
    <3>1. PICK i \in Instances : Step(i)
      BY <1>4 DEF Next, SweepDue, Crash, StorageError, ServeOtherRun, ReceiveCommand, Tick
    <3>2. Claim(i) \/ PutReceipt(i)
      BY <1>4, <3>1 DEF Step, ReadApproval, LoadTrace, RecordReplay, DecisionEvent, ResumeRun,
         ResumeAgent, AgentDone, CommsStart, Finish, FailRun, Attempt, Decide, RecordDecision,
         Blocked, ExecuteEffect, Succeed, ToolFailed
    <3> QED
      BY <3>2
  <2> QED
    BY <2>1, PromiseClaim, PromiseReceipt DEF Promise!Next
<1> QED
  BY <1>1, <1>2, <1>3, <1>4

\* Resolution by any number of racing, crashing and retrying processes implements
\* the abstract two-phase commitment: one decision, the effect that was decided,
\* spend moved once after it, a notice only for a paid booking.
THEOREM Refinement == Spec => ImplementsCommitment
<1>1. IInv /\ [Next]_vars => [Promise!Next]_(Promise!vars)
  BY PromiseNext
<1> QED
  BY <1>1, PromiseInit, Invariance, PTL DEF Spec, ImplementsCommitment, Promise!Spec

-----------------------------------------------------------------------------
(* What can make an approved run fail.                                     *)

\* The processes serve nothing else, neither the engine nor the store fails, and the
\* two calls of the continuation are within the limit.
Untroubled == OtherRuns = {} /\ ~EngineMayFail /\ ~StorageMayFail /\ UsedCalls + 2 <= MaxToolCalls

\* A process that resumes an approved run is not on its way to a failure: the tools
\* did not refuse, the message was not blocked, and it has calls left.
Unfailing(p, d) ==
  /\ p.pc # "toolFailed"
  /\ p.pc \in {"recordBlock", "blocked"} => p.tool # "outbox"
  /\ p.pc = "failRun" => p.snap.status = "BLOCKED"
  /\ (p.pc = "resumeAgent" /\ p.fresh) \/ (p.pc = "attempt" /\ p.tool = "confirm") =>
       d.calls = UsedCalls
  /\ (p.pc \in Late \ {"attempt", "failRun"} /\ p.tool = "confirm")
       \/ (p.pc = "attempt" /\ p.tool = "outbox") \/ p.pc = "commsStart" =>
       d.calls <= UsedCalls + 1

Unfailed ==
  /\ doc.status # "FAILED"
  /\ ~Refused(approval) /\ doc.status = "PENDING_APPROVAL" => doc.calls = UsedCalls
  /\ \A i \in Instances : mock[i].prepared \subseteq {"this"}
  /\ ~Refused(approval) => \A i \in Instances : ~mock[i].cancelled
  /\ Granted(approval) => \A i \in Instances : Unfailing(proc[i], doc)

\* The paused run has not failed.
LEMMA InitUnfailed == Init => Unfailed
<1> SUFFICES ASSUME Init PROVE Unfailed
  OBVIOUS
<1>1. doc.status = "PENDING_APPROVAL" /\ doc.calls = UsedCalls /\ approval.status = "PENDING_APPROVAL"
  BY DEF Init, PausedDocument, PendingRecord
<1>2. \A i \in Instances : mock[i].prepared \subseteq {"this"} /\ ~mock[i].cancelled
  BY DEF Init, ColdStore
<1> QED
  BY <1>1, <1>2 DEF Unfailed, Granted

\* Nothing is asked of a process that does not resume.
LEMMA Elsewhere ==
  ASSUME NEW p, NEW d, p.pc \notin Late, p.pc = "resumeAgent" => ~p.fresh
  PROVE  Unfailing(p, d)
BY DEF Unfailing, Late

\* A process that continues on a current snapshot has the document in it.
LEMMA CurrentSnapshot ==
  ASSUME IInv, NEW i \in Instances, proc[i].pc \in (Early \cup Late) \ {"agentDone", "failRun"},
         proc[i].fresh
  PROVE  proc[i].snap = doc
<1>1. /\ proc[i].pc \in Early => proc[i].snap = doc
      /\ Granted(approval) \/ Refused(approval)
      /\ Granted(approval) => Resuming(proc[i], doc, receipts)
      /\ Refused(approval) => Cancelling(proc[i], approval, doc, receipts)
  BY Known, Continuing DEF Informed
<1> QED
  BY <1>1 DEF Resuming, Cancelling

\* A step of one process keeps the others from failing: a process that resumes is not
\* overtaken, so the document it relies on is its own to change.
LEMMA UnfailedStep ==
  ASSUME IInv, IInv', Unfailed, NEW i \in Instances, approval' = approval,
         \A j \in Instances \ {i} :
           \/ proc'[j] = proc[j] /\ doc' = doc
           \/ proc'[j] = [proc[j] EXCEPT !.fresh = FALSE],
         \A j \in Instances : mock'[j].prepared \subseteq {"this"},
         ~Refused(approval) => \A j \in Instances : ~mock'[j].cancelled,
         doc'.status # "FAILED",
         ~Refused(approval) /\ doc'.status = "PENDING_APPROVAL" => doc'.calls = UsedCalls,
         Granted(approval) => Unfailing(proc'[i], doc')
  PROVE  Unfailed'
<1>1. ASSUME Granted(approval), NEW j \in Instances, j # i PROVE Unfailing(proc'[j], doc')
  <2>1. CASE proc'[j] = proc[j] /\ doc' = doc
    BY <1>1, <2>1 DEF Unfailed
  <2>2. CASE proc'[j] = [proc[j] EXCEPT !.fresh = FALSE]
    <3>1. proc[j] \in Process
      BY Known
    <3>2. ~proc'[j].fresh
      BY <2>2, <3>1 DEF Process
    <3>3. Resuming(proc'[j], doc', receipts')
      BY <1>1 DEF IInv, Informed
    <3>4. proc'[j].pc \notin Late
      BY <3>2, <3>3 DEF Resuming
    <3> QED
      BY <3>2, <3>4, Elsewhere
  <2> QED
    BY <1>1, <2>1, <2>2
<1> QED
  BY <1>1 DEF Unfailed

\* The step of a process that touches nothing durable, nor its mock store.
LEMMA UnfailedLocal ==
  ASSUME IInv, IInv', Unfailed, NEW i \in Instances, NEW q, Continue(i, q),
         UNCHANGED <<approval, doc, mock>>, Granted(approval) => Unfailing(q, doc)
  PROVE  Unfailed'
<1>1. proc'[i] = q /\ \A j \in Instances \ {i} : proc'[j] = proc[j]
  BY DEF Continue, IInv, TypeOK
<1> QED
  BY <1>1, UnfailedStep DEF Unfailed

\* A request that ends.
LEMMA UnfailedReturn ==
  ASSUME IInv, IInv', Unfailed, NEW i \in Instances, Return(i), UNCHANGED <<approval, doc, mock>>
  PROVE  Unfailed'
<1>1. Unfailing(IdleProcess, doc)
  BY Elsewhere DEF IdleProcess, Late
<1> QED
  BY <1>1, UnfailedLocal DEF Return

\* An append, of a new event or of one on record.
LEMMA UnfailedAppend ==
  ASSUME IInv, IInv', Unfailed, NEW i \in Instances, NEW key, NEW d, NEW q,
         AppendEvent(i, key, d, q), UNCHANGED <<approval, mock>>,
         key \in log /\ Granted(approval) => Unfailing(q, doc),
         key \notin log /\ proc[i].fresh =>
           /\ d.status # "FAILED"
           /\ ~Refused(approval) /\ d.status = "PENDING_APPROVAL" => d.calls = UsedCalls
           /\ Granted(approval) => Unfailing(q, d)
  PROVE  Unfailed'
<1>1. CASE key \in log /\ Continue(i, q) /\ UNCHANGED <<doc, log>>
  BY <1>1, UnfailedLocal
<1>2. CASE Return(i) /\ UNCHANGED <<doc, log>>
  BY <1>2, UnfailedReturn
<1>3. CASE /\ key \notin log /\ proc[i].fresh /\ doc' = d
           /\ proc' = [j \in Instances |-> IF j = i THEN q ELSE [proc[j] EXCEPT !.fresh = FALSE]]
  <2>1. proc'[i] = q /\ \A j \in Instances \ {i} : proc'[j] = [proc[j] EXCEPT !.fresh = FALSE]
    BY <1>3
  <2> QED
    BY <1>3, <2>1, UnfailedStep DEF Unfailed
<1> QED
  BY <1>1, <1>2, <1>3 DEF AppendEvent

\* An unkeyed event that persists the snapshot as it is.
LEMMA UnfailedPass ==
  ASSUME IInv, IInv', Unfailed, NEW i \in Instances, NEW q,
         proc[i].pc \in (Early \cup Late) \ {"agentDone", "failRun"},
         AppendEvent(i, Unkeyed, proc[i].snap, q), UNCHANGED <<approval, mock>>,
         Granted(approval) /\ proc[i].fresh => Unfailing(q, doc)
  PROVE  Unfailed'
<1>1. Unkeyed \notin log
  BY Known
<1>2. proc[i].fresh => proc[i].snap = doc
  BY CurrentSnapshot
<1> QED
  BY <1>1, <1>2, UnfailedAppend DEF Unfailed

\* An exception of a step that is refused or blocked.
LEMMA ThrownUnfailing ==
  ASSUME IInv, NEW i \in Instances, proc[i].pc \in Late, NEW s \in Document, Granted(approval)
  PROVE  Unfailing(Thrown(i, s, "BLOCKED"), doc)
<1> DEFINE q == Thrown(i, s, "BLOCKED")
<1>1. q = [proc[i] EXCEPT !.pc = "failRun", !.snap = [s EXCEPT !.status = "BLOCKED"]] /\ proc[i] \in Process
  BY Continuing, Known DEF Thrown
<1>2. q.pc = "failRun" /\ q.snap = [s EXCEPT !.status = "BLOCKED"]
  BY <1>1 DEF Process
<1>3. q.snap.status = "BLOCKED"
  BY <1>2 DEF Document
<1> HIDE DEF q
<1> QED
  BY <1>2, <1>3 DEF Unfailing, q

\* The steps before a continuation and after it.
LEMMA OutsideUnfailed ==
  ASSUME IInv, IInv', Unfailed, NEW i \in Instances,
         \/ ReadApproval(i) \/ LoadTrace(i) \/ RecordReplay(i) \/ SweepDue(i)
         \/ \E c \in ClientCommands : ReceiveCommand(i, c)
  PROVE  Unfailed'
<1>1. UNCHANGED <<approval, doc, mock>>
  BY DEF ReadApproval, LoadTrace, RecordReplay, SweepDue, ReceiveCommand
<1>2. proc[i] \in Process
  BY Known
<1>3. CASE Return(i)
  BY <1>1, <1>3, UnfailedReturn
<1>4. CASE \E q : Continue(i, q) /\ q.pc \in {"readApproval", "load", "claim", "decisionEvent", "recordReplay"}
  <2>1. PICK q : Continue(i, q) /\ q.pc \in {"readApproval", "load", "claim", "decisionEvent", "recordReplay"}
    BY <1>4
  <2>2. Unfailing(q, doc)
    BY <2>1, Elsewhere DEF Late
  <2> QED
    BY <1>1, <2>1, <2>2, UnfailedLocal
<1>5. CASE ReadApproval(i)
  <2>1. [proc[i] EXCEPT !.pc = "load", !.appr = approval].pc = "load"
    BY <1>2 DEF Process
  <2> QED
    BY <1>3, <1>4, <1>5, <2>1 DEF ReadApproval
<1>6. CASE LoadTrace(i)
  <2> DEFINE p == [proc[i] EXCEPT !.snap = doc, !.fresh = TRUE]
             next == ContinueAt(doc)
  <2>1. /\ [p EXCEPT !.pc = "claim", !.cmd = Sweep].pc = "claim" /\ [p EXCEPT !.pc = "claim"].pc = "claim"
        /\ [p EXCEPT !.pc = next].pc = next
    BY <1>2 DEF Process
  <2>2. \/ Return(i) \/ Continue(i, [p EXCEPT !.pc = "claim", !.cmd = Sweep])
        \/ Continue(i, [p EXCEPT !.pc = "claim"]) \/ Continue(i, [p EXCEPT !.pc = next])
    BY <1>6 DEF LoadTrace
  <2>3. next \in {"decisionEvent", "recordReplay"}
    BY DEF ContinueAt
  <2> HIDE DEF p, next
  <2> QED
    BY <1>3, <1>4, <2>1, <2>2, <2>3
<1>7. CASE RecordReplay(i)
  BY <1>3, <1>7 DEF RecordReplay
<1>8. CASE SweepDue(i)
  <2>1. [proc[i] EXCEPT !.pc = "load", !.cmd = Sweep, !.appr = approval].pc = "load"
    BY <1>2 DEF Process
  <2> QED
    BY <1>4, <1>8, <2>1 DEF SweepDue
<1>9. CASE \E c \in ClientCommands : ReceiveCommand(i, c)
  <2>1. PICK c \in ClientCommands : ReceiveCommand(i, c)
    BY <1>9
  <2>2. [proc[i] EXCEPT !.pc = "readApproval", !.cmd = c].pc = "readApproval"
    BY <1>2 DEF Process
  <2> QED
    BY <1>4, <2>1, <2>2 DEF ReceiveCommand
<1> QED
  BY <1>5, <1>6, <1>7, <1>8, <1>9

\* The claim: before it nobody continues, and the run waits with its calls uncounted.
LEMMA ClaimUnfailed ==
  ASSUME IInv, IInv', Unfailed, NEW i \in Instances, Claim(i)
  PROVE  Unfailed'
<1>1. CASE Return(i) /\ UNCHANGED approval
  BY <1>1, UnfailedReturn DEF Claim
<1>2. CASE approval.version = proc[i].appr.version /\
           Continue(i, [proc[i] EXCEPT !.pc = "decisionEvent", !.appr = approval'])
  <2>1. proc[i].appr.version = 1 /\ proc[i] \in Process
    BY Known DEF Claim, At, Informed
  <2>2. approval.status = "PENDING_APPROVAL" /\ doc = PausedDocument
    BY <1>2, <2>1, Known DEF Shape, RecordShape
  <2>3. UNCHANGED <<doc, mock>> /\ doc.status = "PENDING_APPROVAL" /\ doc.calls = UsedCalls
    BY <2>2 DEF Claim, PausedDocument
  <2>4. ASSUME NEW j \in Instances PROVE Unfailing(proc'[j], doc)
    <3>1. CASE j = i
      <4>1. proc'[i].pc = "decisionEvent"
        BY <1>2, <2>1 DEF Continue, IInv, TypeOK, Process
      <4> QED
        BY <3>1, <4>1, Elsewhere DEF Late
    <3>2. CASE j # i
      <4>1. proc'[j] = proc[j]
        BY <1>2, <3>2 DEF Continue, IInv, TypeOK
      <4>2. proc[j].pc \notin Early \cup Late
        BY <2>2, Known DEF Informed
      <4> QED
        BY <4>1, <4>2, Elsewhere DEF Early
    <3> QED
      BY <3>1, <3>2
  <2>5. ~Refused(approval)
    BY <2>2 DEF Refused
  <2> QED
    BY <2>3, <2>4, <2>5 DEF Unfailed
<1> QED
  BY <1>1, <1>2 DEF Claim

\* The decision is recorded and the run resumes, with no call counted yet.
LEMMA ResumptionUnfailed ==
  ASSUME IInv, IInv', Unfailed, NEW i \in Instances, DecisionEvent(i) \/ ResumeRun(i) \/ ResumeAgent(i)
  PROVE  Unfailed'
<1> DEFINE p == proc[i]
<1>1. /\ p \in Process /\ p.snap \in Document /\ p.pc \in Early /\ UNCHANGED <<approval, mock>>
      /\ Granted(approval) <=> p.appr.status = "APPROVED"
      /\ (Granted(approval) \/ Refused(approval)) /\ ~(Granted(approval) /\ Refused(approval))
  BY Known, Continuing, ProcessFields DEF DecisionEvent, ResumeRun, ResumeAgent, At, Early
<1>2. p.fresh => p.snap = doc
  BY <1>1, CurrentSnapshot DEF Early, Late
<1>3. p.pc \in {"decisionEvent", "resumeRun"} /\ p.fresh => doc.status = "PENDING_APPROVAL"
  BY Known DEF Informed
<1>4. CASE DecisionEvent(i)
  <2> DEFINE d == IF p.appr.status = "APPROVED" THEN [p.snap EXCEPT !.prep = "APPROVED"] ELSE p.snap
             next == IF p.appr.status = "APPROVED" THEN "resumeRun" ELSE "resumeAgent"
             q == [p EXCEPT !.pc = next, !.snap = d]
  <2>1. AppendEvent(i, p.appr.status, d, q)
    BY <1>4 DEF DecisionEvent
  <2>2. d.status = p.snap.status /\ d.calls = p.snap.calls
    BY <1>1 DEF Document
  <2>3. q.pc = next
    BY <1>1 DEF Process
  <2>4. Granted(approval) => q.pc = "resumeRun"
    BY <1>1, <2>3
  <2> HIDE DEF d, q
  <2>5. Granted(approval) => Unfailing(q, d) /\ Unfailing(q, doc)
    BY <2>4, Elsewhere DEF Late
  <2> QED
    BY <1>1, <1>2, <2>1, <2>2, <2>5, UnfailedAppend DEF Unfailed
<1>5. CASE ResumeRun(i)
  <2>1. CASE Return(i) /\ UNCHANGED doc
    BY <1>1, <2>1, UnfailedReturn
  <2> DEFINE d == [p.snap EXCEPT !.status = "RUNNING"]
             q == [p EXCEPT !.pc = "resumeAgent", !.snap = d]
  <2>2. CASE AppendEvent(i, "RUN_RESUMED", d, q)
    <3>1. d.status = "RUNNING" /\ d.calls = p.snap.calls
      BY <1>1 DEF Document
    <3>2. q.pc = "resumeAgent" /\ q.fresh = p.fresh
      BY <1>1 DEF Process
    <3>3. p.pc = "resumeRun"
      BY <1>5 DEF ResumeRun, At
    <3> HIDE DEF d, q
    <3>4. ASSUME Granted(approval), p.fresh PROVE d.calls = UsedCalls /\ "RUN_RESUMED" \notin log
      <4>1. doc.status = "PENDING_APPROVAL" /\ p.snap = doc /\ ~Refused(approval)
        BY <1>1, <1>2, <1>3, <3>3, <3>4
      <4>2. doc.calls = UsedCalls
        BY <4>1 DEF Unfailed
      <4>3. "RUN_RESUMED" \notin log
        BY <3>4, <4>1, Known DEF Shape, GrantedShape
      <4> QED
        BY <3>1, <4>1, <4>2, <4>3
    <3>5. Granted(approval) /\ p.fresh => Unfailing(q, d)
      BY <3>2, <3>4 DEF Unfailing, Late
    <3>6. Granted(approval) /\ ~p.fresh => Unfailing(q, doc)
      BY <3>2, Elsewhere DEF Late
    <3> QED
      BY <1>1, <2>2, <3>1, <3>4, <3>5, <3>6, UnfailedAppend
  <2> QED
    BY <1>5, <2>1, <2>2 DEF ResumeRun
<1>6. CASE ResumeAgent(i)
  <2>1. CASE Return(i) /\ UNCHANGED doc
    BY <1>1, <2>1, UnfailedReturn
  <2> DEFINE tool == IF p.appr.status = "APPROVED" THEN "confirm" ELSE "cancel"
             q == [p EXCEPT !.pc = "attempt", !.tool = tool]
  <2>2. CASE AppendEvent(i, Unkeyed, p.snap, q)
    <3>1. q.pc = "attempt" /\ q.tool = tool /\ p.pc = "resumeAgent"
      BY <1>1, <1>6 DEF Process, ResumeAgent, At
    <3> HIDE DEF q
    <3>2. ASSUME Granted(approval), p.fresh PROVE Unfailing(q, doc)
      <4>1. Unfailing(p, doc)
        BY <3>2 DEF Unfailed
      <4>2. q.tool = "confirm"
        BY <1>1, <3>1, <3>2
      <4> QED
        BY <3>1, <3>2, <4>1, <4>2 DEF Unfailing, Late
    <3> QED
      BY <1>1, <2>2, <3>1, <3>2, UnfailedPass DEF Early
  <2> QED
    BY <1>6, <2>1, <2>2 DEF ResumeAgent
<1> QED
  BY <1>4, <1>5, <1>6

\* The agent is ready and within the limit: a first call for the booking, a second for
\* the message.
LEMMA AttemptUnfailed ==
  ASSUME Untroubled, IInv, IInv', Unfailed, NEW i \in Instances, Attempt(i)
  PROVE  Unfailed'
<1> DEFINE p == proc[i]
           d == [Prepared(p) EXCEPT !.calls = @ + 1]
           q == [p EXCEPT !.pc = "decide", !.snap = d]
<1>1. /\ p \in Process /\ p.snap \in Document /\ p.pc = "attempt" /\ p.pc \in Late
      /\ UNCHANGED <<approval, mock>>
      /\ Granted(approval) <=> p.appr.status = "APPROVED"
      /\ (Granted(approval) \/ Refused(approval)) /\ ~(Granted(approval) /\ Refused(approval))
      /\ Granted(approval) => Resuming(p, doc, receipts)
  BY Known, Continuing, ProcessFields DEF Attempt, At, Late
<1>2. p.fresh => p.snap = doc
  BY <1>1, CurrentSnapshot
<1>3. /\ Prepared(p) \in Document /\ Prepared(p).status = p.snap.status
      /\ Prepared(p).calls = p.snap.calls
  <2>1. p.appr.status \in ApprovalStatus
    BY <1>1, ProcessFields
  <2>2. CASE p.tool = "cancel"
    <3>1. p.appr.status \in CommitmentStatus
      BY <1>1, <2>1, <2>2 DEF CommitmentStatus, ApprovalStatus
    <3> QED
      BY <1>1, <2>2, <3>1 DEF Prepared, Document
  <2>3. CASE p.tool # "cancel"
    BY <1>1, <2>3 DEF Prepared
  <2> QED
    BY <2>2, <2>3
<1>4. d.status = p.snap.status /\ d.calls = p.snap.calls + 1
  BY <1>3 DEF Document
<1>5. q.pc = "decide" /\ q.tool = p.tool
  BY <1>1 DEF Process
<1>6. UsedCalls \in Nat /\ MaxToolCalls \in Nat /\ UsedCalls + 2 <= MaxToolCalls
  BY ApprovalAssumption DEF Untroubled
<1>7. p.snap.calls \in Nat
  BY <1>1 DEF Document
<1> HIDE DEF q, d
<1>8. ASSUME Granted(approval)
      PROVE  /\ AgentReady(p) /\ p.snap.calls < MaxToolCalls /\ p.snap = doc /\ doc.status = "RUNNING"
             /\ p.tool = "confirm" => p.snap.calls = UsedCalls
  <2>1. /\ p.fresh /\ p.tool \in {"confirm", "outbox"} /\ p.snap = doc /\ doc.status = "RUNNING"
        /\ p.tool = "confirm" => doc.prep = "APPROVED"
        /\ p.tool = "outbox" => doc.prep = "CONFIRMED"
    BY <1>1, <1>8 DEF Resuming
  <2>2. doc.prep = "CONFIRMED" => doc.booked
    BY <1>8, Known DEF Shape, GrantedShape
  <2>3. AgentReady(p)
    BY <2>1, <2>2 DEF AgentReady
  <2>4. Unfailing(p, doc)
    BY <1>8 DEF Unfailed
  <2>5. (p.tool = "confirm" => doc.calls = UsedCalls) /\ (p.tool = "outbox" => doc.calls <= UsedCalls + 1)
    BY <1>1, <2>4 DEF Unfailing
  <2>6. p.snap.calls <= UsedCalls + 1
    BY <1>6, <1>7, <2>1, <2>5
  <2>7. p.snap.calls < MaxToolCalls
    BY <1>6, <1>7, <2>6
  <2> QED
    BY <2>1, <2>3, <2>5, <2>7
<1>9. CASE AppendEvent(i, Unkeyed, d, q)
  <2>1. Granted(approval) => Unfailing(q, d)
    <3>1. ASSUME Granted(approval), p.tool = "confirm" PROVE d.calls <= UsedCalls + 1
      BY <1>4, <1>6, <1>8, <3>1
    <3> QED
      BY <1>5, <3>1 DEF Unfailing, Late
  <2>2. Granted(approval) => d.status = "RUNNING"
    BY <1>4, <1>8
  <2>3. p.fresh => d.status # "FAILED"
    BY <1>2, <1>4 DEF Unfailed
  <2>4. Unkeyed \notin log
    BY Known
  <2> QED
    BY <1>1, <1>9, <2>1, <2>2, <2>3, <2>4, UnfailedAppend
<1>10. CASE Continue(i, Thrown(i, Prepared(p), "FAILED")) /\ UNCHANGED doc /\ ~Granted(approval)
  <2>1. Return(i)
    BY <1>1, <1>10 DEF Thrown, Return
  <2> QED
    BY <1>1, <1>10, <2>1, UnfailedReturn
<1>11. \/ AppendEvent(i, Unkeyed, d, q)
       \/ /\ ~(AgentReady(p) /\ p.snap.calls < MaxToolCalls)
          /\ Continue(i, Thrown(i, Prepared(p), "FAILED")) /\ UNCHANGED doc
  BY DEF Attempt, d, q
<1> QED
  BY <1>8, <1>9, <1>10, <1>11

\* The decision: the message is never blocked.
LEMMA DecideUnfailed ==
  ASSUME Untroubled, IInv, IInv', Unfailed, NEW i \in Instances, Decide(i) \/ RecordDecision(i)
  PROVE  Unfailed'
<1> DEFINE p == proc[i]
<1>1. /\ p \in Process /\ p.pc \in {"decide", "recordAllow", "recordBlock"} /\ UNCHANGED <<approval, mock>>
  BY Known DEF Decide, RecordDecision, At
<1>2. \E next \in {"recordAllow", "recordBlock", "effect", "blocked"} :
        /\ AppendEvent(i, Unkeyed, p.snap, [p EXCEPT !.pc = next])
        /\ next = "recordBlock" => p.tool # "outbox"
        /\ next = "blocked" => p.pc = "recordBlock"
  <2>1. CASE Decide(i)
    <3>1. PICK outcome \in {PolicyOutcome(p)} :
            AppendEvent(i, Unkeyed, p.snap,
              [p EXCEPT !.pc = IF outcome = "ALLOW" THEN "recordAllow" ELSE "recordBlock"])
      BY <2>1 DEF Decide, Untroubled
    <3>2. p.tool = "outbox" => outcome = "ALLOW"
      BY DEF PolicyOutcome
    <3> QED
      BY <3>1, <3>2
  <2>2. CASE RecordDecision(i)
    BY <1>1, <2>2 DEF RecordDecision, At
  <2> QED
    BY <2>1, <2>2
<1>3. PICK next \in {"recordAllow", "recordBlock", "effect", "blocked"} :
        /\ AppendEvent(i, Unkeyed, p.snap, [p EXCEPT !.pc = next])
        /\ next = "recordBlock" => p.tool # "outbox"
        /\ next = "blocked" => p.pc = "recordBlock"
  BY <1>2
<1> DEFINE q == [p EXCEPT !.pc = next]
<1>4. q.pc = next /\ q.tool = p.tool
  BY <1>1 DEF Process
<1> HIDE DEF q
<1>5. Granted(approval) => Unfailing(q, doc)
  <2>1. Granted(approval) => Unfailing(p, doc)
    BY DEF Unfailed
  <2> QED
    BY <1>1, <1>3, <1>4, <2>1 DEF Unfailing, Late
<1> QED
  BY <1>1, <1>3, <1>5, UnfailedPass DEF Late, q

\* A refusal of the policy blocks the run, and no tool refuses.
LEMMA RefusalUnfailed ==
  ASSUME IInv, IInv', Unfailed, NEW i \in Instances, Blocked(i) \/ ToolFailed(i)
  PROVE  Unfailed'
<1> DEFINE p == proc[i]
<1>1. /\ p \in Process /\ p.snap \in Document /\ p.pc \in {"blocked", "toolFailed"} /\ p.pc \in Late
      /\ UNCHANGED <<approval, mock>>
  BY Known, ProcessFields DEF Blocked, ToolFailed, At, Late
<1>2. Granted(approval) => p.pc = "blocked" /\ p.tool # "outbox"
  BY <1>1 DEF Unfailed, Unfailing
<1>3. PICK status \in {"FAILED", "BLOCKED"} :
        /\ AppendEvent(i, Unkeyed, p.snap, Thrown(i, p.snap, status))
        /\ Granted(approval) => status = "BLOCKED"
  BY <1>1, <1>2 DEF Blocked, ToolFailed, At
<1>4. Granted(approval) => Unfailing(Thrown(i, p.snap, status), doc)
  BY <1>1, <1>3, ThrownUnfailing
<1> QED
  BY <1>1, <1>3, <1>4, UnfailedPass

\* The effect: with only this run's booking in its store the tool does not refuse.
LEMMA EffectUnfailed ==
  ASSUME IInv, IInv', Unfailed, NEW i \in Instances, ExecuteEffect(i) \/ PutReceipt(i)
  PROVE  Unfailed'
<1> DEFINE p == proc[i]
           q(pc) == [p EXCEPT !.pc = pc]
<1>1. /\ p \in Process /\ p.pc \in {"effect", "receipt"} /\ p.pc \in Late /\ UNCHANGED <<approval, doc>>
      /\ mock \in [Instances -> MockStore]
      /\ Granted(approval) \/ Refused(approval)
      /\ Granted(approval) => Resuming(p, doc, receipts)
  BY Known, Continuing DEF ExecuteEffect, PutReceipt, At, Late, IInv, TypeOK
<1>2. Granted(approval) => p.tool \in {"confirm", "outbox"} /\ ~Refuses(mock[i], p.tool)
  <2>1. Granted(approval) => p.tool \in {"confirm", "outbox"} /\ ~Refused(approval)
    BY <1>1 DEF Resuming, Granted, Refused
  <2>2. mock[i].prepared \subseteq {"this"} /\ (~Refused(approval) => ~mock[i].cancelled)
    BY DEF Unfailed
  <2> QED
    BY <2>1, <2>2 DEF Refuses
<1>3. PICK next \in {"succeed", "receipt", "toolFailed"} :
        /\ Continue(i, q(next))
        /\ next = "toolFailed" => Refuses(mock[i], p.tool)
        /\ \/ mock' = mock
           \/ mock' = [mock EXCEPT ![i].confirmed = @ \/ p.tool = "confirm",
                                   ![i].cancelled = @ \/ p.tool = "cancel"]
  BY DEF ExecuteEffect, PutReceipt
<1>4. q(next).pc = next /\ q(next).tool = p.tool
  BY <1>1 DEF Process
<1>5. proc'[i] = q(next) /\ \A j \in Instances \ {i} : proc'[j] = proc[j]
  BY <1>3 DEF Continue, IInv, TypeOK
<1> HIDE DEF q
<1>6. Granted(approval) => Unfailing(q(next), doc)
  <2>1. Granted(approval) => Unfailing(p, doc)
    BY DEF Unfailed
  <2> QED
    BY <1>1, <1>2, <1>3, <1>4, <2>1 DEF Unfailing, Late
<1>7. \A j \in Instances : mock'[j].prepared = mock[j].prepared
  BY <1>1, <1>3 DEF MockStore
<1>8. p.tool # "cancel" => \A j \in Instances : mock[j].cancelled <=> mock'[j].cancelled
  BY <1>1, <1>3 DEF MockStore
<1>9. ~Refused(approval) => \A j \in Instances : ~mock'[j].cancelled
  BY <1>1, <1>2, <1>8 DEF Unfailed
<1> QED
  BY <1>1, <1>5, <1>6, <1>7, <1>9, UnfailedStep DEF Unfailed

\* The confirmation is applied to the reservation it was prepared with.
LEMMA SucceedUnfailed ==
  ASSUME IInv, IInv', Unfailed, NEW i \in Instances, Succeed(i)
  PROVE  Unfailed'
<1> DEFINE p == proc[i]
           q == [p EXCEPT !.pc = "agentDone", !.snap = Applied(p.snap, p.tool)]
           after == IF ApplyRaises(p.snap, p.tool) THEN Thrown(i, p.snap, "FAILED") ELSE q
<1>1. /\ p \in Process /\ p.pc = "succeed" /\ p.pc \in Late /\ UNCHANGED <<approval, mock>>
      /\ Granted(approval) => Resuming(p, doc, receipts)
      /\ AppendEvent(i, Unkeyed, p.snap, after)
  BY Known, Continuing DEF Succeed, At, Late
<1>2. q.pc = "agentDone" /\ q.tool = p.tool
  BY <1>1 DEF Process
<1> HIDE DEF q
<1>3. ASSUME Granted(approval) PROVE Unfailing(after, doc)
  <2>1. p.snap = doc /\ p.tool \in {"confirm", "outbox"} /\ (p.tool = "confirm" => doc.prep = "APPROVED")
    BY <1>1, <1>3 DEF Resuming, Late
  <2>2. doc.prep = "APPROVED" => doc.reserved = Amount /\ Amount \in Nat
    BY <1>3, Known, ApprovalAssumption DEF Shape, GrantedShape
  <2>3. ~ApplyRaises(p.snap, p.tool)
    <3>1. doc.prep = "APPROVED" => ~(doc.reserved < Amount)
      BY <2>2
    <3> QED
      BY <2>1, <3>1 DEF ApplyRaises
  <2>4. Unfailing(p, doc)
    BY <1>3 DEF Unfailed
  <2> QED
    BY <1>1, <1>2, <2>3, <2>4 DEF Unfailing, Late
<1> HIDE DEF after
<1> QED
  BY <1>1, <1>3, UnfailedPass

\* The carrier is done, and communications start.
LEMMA HandoverUnfailed ==
  ASSUME IInv, IInv', Unfailed, NEW i \in Instances, AgentDone(i) \/ CommsStart(i)
  PROVE  Unfailed'
<1> DEFINE p == proc[i]
<1>1. /\ p \in Process /\ p.snap \in Document /\ p.pc \in {"agentDone", "commsStart"} /\ p.pc \in Late
      /\ UNCHANGED <<approval, mock>> /\ Unkeyed \notin log /\ doc \in Document
      /\ Granted(approval) \/ Refused(approval)
      /\ Granted(approval) => Resuming(p, doc, receipts)
      /\ Refused(approval) => Cancelling(p, approval, doc, receipts)
  BY Known, Continuing, ProcessFields DEF AgentDone, CommsStart, At, Late
<1>2. CASE CommsStart(i)
  <2> DEFINE q == [p EXCEPT !.pc = "attempt", !.tool = "outbox"]
  <2>1. q.pc = "attempt" /\ q.tool = "outbox" /\ p.pc = "commsStart"
    BY <1>1, <1>2 DEF Process, CommsStart, At
  <2>2. AppendEvent(i, Unkeyed, p.snap, q)
    BY <1>2 DEF CommsStart
  <2> HIDE DEF q
  <2>3. Granted(approval) => Unfailing(q, doc)
    <3>1. Granted(approval) => Unfailing(p, doc)
      BY DEF Unfailed
    <3> QED
      BY <2>1, <3>1 DEF Unfailing, Late
  <2> QED
    BY <1>1, <2>1, <2>2, <2>3, UnfailedPass
<1>3. CASE AgentDone(i)
  <2> DEFINE next == IF p.tool = "confirm" THEN "commsStart" ELSE "finish"
             q == [p EXCEPT !.pc = next]
  <2>1. q.pc = next /\ q.tool = p.tool /\ p.pc = "agentDone"
    BY <1>1, <1>3 DEF Process, AgentDone, At
  <2>2. AppendEvent(i, Unkeyed, p.snap, q)
    BY <1>3 DEF AgentDone
  <2> HIDE DEF q
  <2>3. p.fresh => \E tool : p.snap = Applied(doc, tool) /\ tool \in {"confirm", "cancel", "outbox"}
    BY <1>1, <2>1 DEF Resuming, Cancelling, Late
  <2>4. p.fresh => p.snap.status = doc.status /\ p.snap.calls = doc.calls
    BY <1>1, <2>3 DEF Applied, Document
  <2>5. Granted(approval) => Unfailing(q, doc)
    <3>1. Granted(approval) => Unfailing(p, doc)
      BY DEF Unfailed
    <3> QED
      BY <2>1, <3>1 DEF Unfailing, Late
  <2>6. Granted(approval) /\ p.fresh => Unfailing(q, p.snap)
    BY <2>4, <2>5 DEF Unfailing
  <2> QED
    BY <1>1, <2>2, <2>4, <2>6, UnfailedAppend DEF Unfailed
<1> QED
  BY <1>2, <1>3

\* A run that ends completes, cancels or is blocked.
LEMMA EndUnfailed ==
  ASSUME IInv, IInv', Unfailed, NEW i \in Instances, Finish(i) \/ FailRun(i)
  PROVE  Unfailed'
<1> DEFINE p == proc[i]
           q == AfterRun(p)
<1>1. /\ p \in Process /\ p.snap \in Document /\ p.pc \in {"finish", "failRun"} /\ p.pc \in Late
      /\ UNCHANGED <<approval, mock>>
      /\ Granted(approval) \/ Refused(approval)
      /\ Refused(approval) => Cancelling(p, approval, doc, receipts)
  BY Known, Continuing, ProcessFields DEF Finish, FailRun, At, Late
<1>2. \A d : Unfailing(q, d)
  <2>1. q.pc \in {"idle", "recordReplay"}
    BY <1>1 DEF AfterRun, IdleProcess, Process
  <2> HIDE DEF q
  <2> QED
    BY <2>1, Elsewhere DEF Late
<1> HIDE DEF q
<1>3. CASE Finish(i)
  <2> DEFINE status == IF p.tool = "cancel" THEN "CANCELLED" ELSE "COMPLETED"
             d == [p.snap EXCEPT !.status = status]
  <2>1. AppendEvent(i, status, d, q) /\ d.status \in {"CANCELLED", "COMPLETED"}
    BY <1>1, <1>3 DEF Finish, Document, q
  <2> HIDE DEF d, status
  <2> QED
    BY <1>1, <1>2, <2>1, UnfailedAppend
<1>4. CASE FailRun(i)
  <2>1. AppendEvent(i, Unkeyed, p.snap, q) /\ p.pc = "failRun"
    BY <1>4 DEF FailRun, At, q
  <2>2. p.snap.status = "BLOCKED"
    BY <1>1, <2>1 DEF Unfailed, Unfailing, Cancelling
  <2> QED
    BY <1>1, <1>2, <2>1, <2>2, UnfailedAppend
<1> QED
  BY <1>3, <1>4

\* A process that dies forgets its store too.
LEMMA CrashUnfailed ==
  ASSUME IInv, IInv', Unfailed, NEW i \in Instances, Crash(i)
  PROVE  Unfailed'
<1>1. /\ UNCHANGED <<approval, doc>> /\ mock \in [Instances -> MockStore]
      /\ mock' = [mock EXCEPT ![i] = ColdStore]
      /\ proc'[i] = IdleProcess /\ \A j \in Instances \ {i} : proc'[j] = proc[j]
  BY DEF Crash, Return, Continue, IInv, TypeOK
<1>2. /\ \A j \in Instances : mock'[j].prepared \subseteq {"this"}
      /\ ~Refused(approval) => \A j \in Instances : ~mock'[j].cancelled
  BY <1>1 DEF ColdStore, Unfailed
<1>3. Unfailing(IdleProcess, doc)
  BY Elsewhere DEF IdleProcess, Late
<1> QED
  BY <1>1, <1>2, <1>3, UnfailedStep DEF Unfailed

\* No step makes the run fail.
LEMMA NextUnfailed == Untroubled /\ IInv /\ IInv' /\ Unfailed /\ [Next]_vars => Unfailed'
<1> SUFFICES ASSUME Untroubled, IInv, IInv', Unfailed, [Next]_vars PROVE Unfailed'
  OBVIOUS
<1>1. CASE UNCHANGED vars
  BY <1>1 DEF vars, Unfailed
<1>2. CASE Tick
  BY <1>2 DEF Tick, Unfailed
<1>3. ASSUME NEW i \in Instances, Step(i) PROVE Unfailed'
  BY <1>3, OutsideUnfailed, ClaimUnfailed, ResumptionUnfailed, AttemptUnfailed, DecideUnfailed,
     RefusalUnfailed, EffectUnfailed, SucceedUnfailed, HandoverUnfailed, EndUnfailed DEF Step
<1>4. ASSUME NEW i \in Instances PROVE ~ServeOtherRun(i) /\ ~StorageError(i)
  BY DEF ServeOtherRun, StorageError, Untroubled
<1> QED
  BY <1>1, <1>2, <1>3, <1>4, OutsideUnfailed, CrashUnfailed DEF Next

\* An approved run fails only for one of four reasons: the call limit, an engine that
\* fails on the message, a request to the store that fails although the snapshot is
\* current, or another run in the store of the process that resumes it.
\* Without them it never does, through any crashes, races and retries: a cold process
\* completes it as well as the one that prepared it (resume_approved).
THEOREM ApprovedSafe ==
  ASSUME Untroubled
  PROVE  Spec => []ApprovedRunNeverFails
<1>1. Init => Unfailed
  BY InitUnfailed
<1>2. IInv /\ IInv' /\ Unfailed /\ [Next]_vars => Unfailed'
  BY NextUnfailed
<1>3. Unfailed => ApprovedRunNeverFails
  BY DEF Unfailed, ApprovedRunNeverFails
<1> QED
  BY <1>1, <1>2, <1>3, Invariance, PTL DEF Spec

=============================================================================
