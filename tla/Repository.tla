----------------------------- MODULE Repository -----------------------------
(***************************************************************************)
(* DynamoDBTraceStore: the traces of one demo namespace in a table shared   *)
(* by several API processes.  A transaction is one step; everything else a  *)
(* method does is one step per request, so that a read can be torn by a     *)
(* write, a reset cut short by a crash, and an answer lost after its write. *)
(*                                                                         *)
(* A process serves one request at a time (its event loop blocks) and holds *)
(* at most one TrajectoryState; the processes interleave.  Every read is    *)
(* strongly consistent and a query fits in one page.  One approval is       *)
(* followed per trace; receipts and replay records are ApprovalResolution's.*)
(***************************************************************************)
EXTENDS Naturals, FiniteSetsExt

CONSTANTS
  Procs, Traces,
  MaxEvents, MaxVersion,
  MaxRevision,    \* bound on storage_revision, i.e. on the writes to a trace
  MaxFaults,      \* bound on answers lost and on keys left by their batch
  MaxResets,      \* bound on resets
  BatchSize       \* keys of one batch_write_item

ASSUME RepositoryAssumption ==
  /\ Traces \subseteq Nat \ {0}
  /\ MaxEvents \in Nat /\ MaxRevision \in Nat /\ MaxVersion \in Nat
  /\ MaxFaults \in Nat /\ MaxResets \in Nat /\ BatchSize \in Nat \ {0}

VARIABLES
  table,    \* the items present, by key
  proc,     \* what each process is doing, with its local variables
  lost,     \* answers lost so far
  resets,   \* resets begun so far
  listed,   \* history: traces on some reset's list
  late,     \* history: traces written after they were listed
  cut,      \* history: traces some item of which was deleted
  skipped,  \* history: keys a reset's batch was to delete and did not
  acked     \* history: <<process, trace, sequence>> of every append that returned, of
            \* the traces no reset has touched

history == <<listed, late, cut, skipped>>
vars == <<table, proc, lost, resets, history, acked>>

-----------------------------------------------------------------------------
(* Keys and items.                                                         *)

\* The sort keys of a trace's partition in the table's order, then the approval
\* pointer's and the namespace's.
Kinds ==
  <<"APPROVAL", "DECISION", "EVENT", "HEAD", "META", "POINTER",
    "NS_APPROVAL", "NS_TRACE">>

PartitionKinds == {Kinds[i] : i \in 1..5}

Key(t, kind, n) == [trace |-> t, kind |-> kind, n |-> n]

Meta(t) == Key(t, "META", 0)
Head(t) == Key(t, "HEAD", 0)
Event(t, n) == Key(t, "EVENT", n)
Decision(t, n) == Key(t, "DECISION", n)
Approval(t) == Key(t, "APPROVAL", 0)
Pointer(t) == Key(t, "POINTER", 0)
NsApproval(t) == Key(t, "NS_APPROVAL", 0)
NsTrace(t) == Key(t, "NS_TRACE", 0)

\* One item, and a write of items f over items g.
Item(k, value) == [j \in {k} |-> value]
f ++ g == [k \in DOMAIN f \cup DOMAIN g |-> IF k \in DOMAIN f THEN f[k] ELSE g[k]]

ApprovalCopies(t) == {Approval(t), Pointer(t), NsApproval(t)}

Has(k) == k \in DOMAIN table
Query(t, kinds) == {k \in DOMAIN table : k.trace = t /\ k.kind \in kinds}

\* get_events and get_decisions.
EventsOf(t) == [n \in {k.n : k \in Query(t, {"EVENT"})} |-> table[Event(t, n)]]
DecisionsOf(t) == {k.n : k \in Query(t, {"DECISION"})}

-----------------------------------------------------------------------------
(* Processes.                                                              *)

\* A TrajectoryState; META stores it without its trace id, events and decisions.
\* asked: pending_approval_id is set; done: the run has ended.
NewState(t) ==
  [trace |-> t, rev |-> 0, next |-> 1, asked |-> FALSE, done |-> FALSE, events |-> <<>>,
   decisions |-> {}]

MetaOf(s) == [rev |-> s.rev, next |-> s.next, asked |-> s.asked, done |-> s.done]

DecodeState(t, meta) ==
  [NewState(t) EXCEPT !.rev = meta.rev, !.next = meta.next, !.asked = meta.asked,
                      !.done = meta.done]

\* read: the head, version or sequence a request was answered with; since: at a
\* verification's start, the stored revision; traces, todo, batch: a reset's
\* traces still to be queried, keys to be deleted and batch on its way.
Idle ==
  [pc |-> "idle", state |-> NewState(0), read |-> 0, since |-> 0,
   valid |-> TRUE, traces |-> {}, todo |-> {}, batch |-> {}]

Init ==
  /\ table = <<>> /\ proc = [p \in Procs |-> Idle]
  /\ lost = 0 /\ resets = 0 /\ listed = {} /\ late = {} /\ cut = {}
  /\ skipped = {} /\ acked = {}

At(p, pc) == proc[p].pc = pc
Held(p) == proc[p].state
Trace(p) == proc[p].state.trace

Becomes(p, new) == proc' = [proc EXCEPT ![p] = new]
Reads(p, new) == Becomes(p, new) /\ UNCHANGED <<table, lost, resets, history, acked>>

Faults == lost + Cardinality(skipped)

\* A conditional write of items to t.  The caller is told of a success, unless the
\* answer is lost: any exception is a failure to it.
Writes(t, ok, items, answer) ==
  /\ table' = IF ok THEN items ++ table ELSE table
  /\ late' = late \cup (IF ok THEN {t} \cap listed ELSE {})
  /\ answer \in {ok} \cup (IF Faults < MaxFaults THEN {FALSE} ELSE {})
  /\ lost' = lost + (IF ok /\ ~answer THEN 1 ELSE 0)
  /\ UNCHANGED <<resets, listed, cut, skipped>>

-----------------------------------------------------------------------------
(* Creating and loading.                                                   *)

\* create_run: META, HEAD and the namespace pointer, for a fresh trace id.
CreateRun(p, t) ==
  /\ At(p, "idle") /\ t \notin cut /\ ~Has(NsTrace(t))
  /\ \E answer \in BOOLEAN :
       /\ Writes(t, TRUE, Item(Meta(t), MetaOf(NewState(t))) ++ Item(Head(t), 0) ++ Item(NsTrace(t), 0),
                 answer)
       /\ Becomes(p, IF answer THEN [Idle EXCEPT !.pc = "ready", !.state = NewState(t)] ELSE Idle)
  /\ UNCHANGED acked

\* load_trace: META, then the events, then the decisions.
LoadMeta(p, t) ==
  /\ At(p, "idle") /\ Has(Meta(t))
  /\ Reads(p, [Idle EXCEPT !.pc = "loadEvents", !.state = DecodeState(t, table[Meta(t)])])

LoadEvents(p) ==
  /\ At(p, "loadEvents")
  /\ Reads(p, [proc[p] EXCEPT !.pc = "loadDecisions", !.state.events = EventsOf(Trace(p))])

\* Mutant of LoadDecisions: the revision is taken when the load is complete.
LoadDecisions_Revision(p) ==
  /\ At(p, "loadDecisions") /\ Has(Meta(Trace(p)))
  /\ Reads(p, [proc[p] EXCEPT !.pc = "ready", !.state.decisions = DecisionsOf(Trace(p)),
                              !.state.rev = table[Meta(Trace(p))].rev])

LoadDecisions(p) ==
  /\ At(p, "loadDecisions")
  /\ Reads(p, [proc[p] EXCEPT !.pc = "ready", !.state.decisions = DecisionsOf(Trace(p))])

\* The handler returns or the process crashes, and its state is gone; a batch on
\* its way is still carried out.
Leave(p) ==
  /\ proc[p].pc # "idle" /\ proc[p].batch = {}
  /\ Reads(p, Idle)

-----------------------------------------------------------------------------
(* Writing with a held state.                                              *)

MetaUnchanged(p) == Has(Meta(Trace(p))) /\ table[Meta(Trace(p))].rev = Held(p).rev

\* append_event reads HEAD; a sequence that does not fit is the caller's error.
ReadHead(p) ==
  /\ At(p, "ready") /\ ~Held(p).done
  /\ Has(Head(Trace(p))) /\ Held(p).next = table[Head(Trace(p))] + 1
  /\ Reads(p, [proc[p] EXCEPT !.pc = "append", !.read = table[Head(Trace(p))]])

\* Mutant of AppendAllowed: plain updates of HEAD and META.
AppendAllowed_Unconditional(p) == Has(Meta(Trace(p)))

\* The conditions of the transaction's writes.
AppendAllowed(p) ==
  /\ ~Has(Event(Trace(p), proc[p].read + 1))
  /\ Has(Head(Trace(p))) /\ table[Head(Trace(p))] = proc[p].read
  /\ MetaUnchanged(p)

\* What a caller's state is after a failure.
RolledBack(p) == Held(p)

\* The transaction: event, HEAD and META.
AppendEvent(p, done) ==
  LET t == Trace(p)
      n == proc[p].read + 1
      item == [by |-> p, clean |-> TRUE]
      new == [Held(p) EXCEPT !.rev = @ + 1, !.next = @ + 1, !.done = done,
                             !.events = Item(n, item) ++ @]
  IN  /\ At(p, "append") /\ n <= MaxEvents /\ new.rev <= MaxRevision
      /\ \E answer \in BOOLEAN :
           /\ Writes(t, AppendAllowed(p),
                     Item(Event(t, n), item) ++ Item(Head(t), n) ++ Item(Meta(t), MetaOf(new)),
                     answer)
           /\ Becomes(p, [Idle EXCEPT !.pc = "ready",
                                      !.state = IF answer THEN new ELSE RolledBack(p)])
           /\ acked' = acked \cup (IF answer THEN {<<p, t, n>>} ELSE {})

\* append_decision; a decision's id is fresh.
AppendDecision(p) ==
  LET n == Held(p).rev + 1
      new == [Held(p) EXCEPT !.rev = @ + 1, !.decisions = @ \cup {n}]
  IN  /\ At(p, "ready") /\ ~Held(p).done /\ n <= MaxRevision
      /\ \E answer \in BOOLEAN :
           /\ Writes(Trace(p), MetaUnchanged(p),
                     Item(Decision(Trace(p), n), 0) ++ Item(Meta(Trace(p)), MetaOf(new)), answer)
           /\ Becomes(p, [Idle EXCEPT !.pc = "ready",
                                      !.state = IF answer THEN new ELSE RolledBack(p)])
      /\ UNCHANGED acked

NewApproval(t) == [k \in ApprovalCopies(t) |-> 1]

\* add_approval: three copies of the record and META.
AddApproval(p) ==
  LET new == [Held(p) EXCEPT !.rev = @ + 1, !.asked = TRUE]
  IN  /\ At(p, "ready") /\ ~Held(p).done /\ ~Held(p).asked /\ new.rev <= MaxRevision
      /\ \E answer \in BOOLEAN :
           /\ Writes(Trace(p), MetaUnchanged(p) /\ ApprovalCopies(Trace(p)) \cap DOMAIN table = {},
                     NewApproval(Trace(p)) ++ Item(Meta(Trace(p)), MetaOf(new)), answer)
           /\ Becomes(p, [Idle EXCEPT !.pc = "ready",
                                      !.state = IF answer THEN new ELSE RolledBack(p)])
      /\ UNCHANGED acked

-----------------------------------------------------------------------------
(* Approvals, verification and the tamper demo.                            *)

\* replace_approval reads the pointer's copy ...
ReadApproval(p, t) ==
  /\ At(p, "idle") /\ Has(Pointer(t)) /\ table[Pointer(t)] < MaxVersion
  /\ Reads(p, [Idle EXCEPT !.pc = "replace", !.state.trace = t, !.read = table[Pointer(t)]])

ReplaceAllowed(p) ==
  \A k \in ApprovalCopies(Trace(p)) : Has(k) /\ table[k] = proc[p].read

\* Mutant of Replaced: the copy in the namespace's list is forgotten.
Replaced_NoNamespace(p) ==
  [k \in ApprovalCopies(Trace(p)) \ {NsApproval(Trace(p))} |-> proc[p].read + 1]

Replaced(p) == [k \in ApprovalCopies(Trace(p)) |-> proc[p].read + 1]

\* ... and updates the three copies if each has the version it read.
ReplaceApproval(p) ==
  /\ At(p, "replace")
  /\ \E answer \in BOOLEAN :
       Writes(Trace(p), ReplaceAllowed(p), Replaced(p), answer)
  /\ Becomes(p, Idle) /\ UNCHANGED acked

\* verify_trace reads the events ...
VerifyEvents(p, t) ==
  /\ At(p, "idle")
  /\ Reads(p, [Idle EXCEPT !.pc = "verify", !.state.trace = t, !.state.events = EventsOf(t),
                           !.since = IF Has(Meta(t)) THEN table[Meta(t)].rev ELSE 0])

\* Mutant of VerifyChain: the events only have to reach the head.
VerifyChain_Reach(events, head) == head \in DOMAIN events \cup {0}

\* verify_chain: whole, unaltered and ending at the head.
VerifyChain(events, head) ==
  DOMAIN events = 1..head /\ \A n \in DOMAIN events : events[n].clean

\* ... and then the head.
VerifyHead(p) ==
  /\ At(p, "verify")
  /\ Reads(p, IF Has(Head(Trace(p)))
              THEN [proc[p] EXCEPT !.pc = "verdict",
                      !.valid = VerifyChain(Held(p).events, table[Head(Trace(p))])]
              ELSE Idle)

\* tamper_event_summary_for_demo: of a loaded run that has ended, one event is
\* read again ...
TamperRead(p, n) ==
  /\ At(p, "ready") /\ Held(p).done /\ Has(Event(Trace(p), n))
  /\ Reads(p, [proc[p] EXCEPT !.pc = "tamper", !.read = n,
                              !.state.events = Item(n, table[Event(Trace(p), n)]) ++ @])

\* ... and written back altered, whether or not it is still there.
TamperWrite(p) ==
  /\ At(p, "tamper")
  /\ Writes(Trace(p), TRUE,
            Item(Event(Trace(p), proc[p].read),
                 [Held(p).events[proc[p].read] EXCEPT !.clean = FALSE]), TRUE)
  /\ Becomes(p, Idle) /\ UNCHANGED acked

-----------------------------------------------------------------------------
(* reset_demo_namespace.                                                   *)

\* The namespace's pointers.
ResetList(p) ==
  LET pointers == {k \in DOMAIN table : k.kind \in {"NS_TRACE", "NS_APPROVAL"}}
      traces == {k.trace : k \in {q \in pointers : q.kind = "NS_TRACE"}}
      approvals == {k.trace : k \in {q \in pointers : q.kind = "NS_APPROVAL"}}
  IN  /\ At(p, "idle") /\ resets < MaxResets
      /\ resets' = resets + 1 /\ listed' = listed \cup traces \cup approvals
      /\ Becomes(p, [Idle EXCEPT !.pc = "reset", !.traces = traces,
                                 !.todo = pointers \cup {Pointer(t) : t \in approvals}])
      /\ UNCHANGED <<table, lost, late, cut, skipped, acked>>

\* One trace's items.
ResetQuery(p) ==
  /\ At(p, "reset") /\ proc[p].traces # {}
  /\ LET t == Min(proc[p].traces)
     IN  Reads(p, [proc[p] EXCEPT !.traces = @ \ {t},
                                  !.todo = @ \cup Query(t, PartitionKinds)])

\* Mutant of DeleteOrder: the namespace's pointers go first.
DeleteOrder_PointersFirst(k) ==
  LET rank == CHOOSE i \in DOMAIN Kinds : Kinds[i] = k.kind
  IN  <<IF k.kind \in PartitionKinds THEN 3 ELSE 2, rank, k.trace, k.n>>

\* The order of delete_keys: the traces' items, the approval pointers, the
\* namespace's pointers.
DeleteOrder(k) ==
  LET rank == CHOOSE i \in DOMAIN Kinds : Kinds[i] = k.kind
  IN  IF k.kind \in PartitionKinds THEN <<1, k.trace, rank, k.n>> ELSE <<2, rank, k.trace, k.n>>

Before(a, b) ==
  \E i \in 1..4 : /\ DeleteOrder(a)[i] < DeleteOrder(b)[i]
                  /\ \A j \in 1..(i - 1) : DeleteOrder(a)[j] = DeleteOrder(b)[j]

\* The next batch is sent, whatever became of the last one.  Some of its keys the table
\* may leave: it names them in UnprocessedItems, which nobody looks at, or the request
\* fails half way.
ResetBatch(p) ==
  /\ At(p, "reset") /\ proc[p].traces = {} /\ proc[p].todo # {} /\ proc[p].batch = {}
  /\ LET batch == {k \in proc[p].todo :
                     Cardinality({j \in proc[p].todo : Before(j, k)}) < BatchSize}
     IN  \E left \in SUBSET batch :
           /\ lost + Cardinality(skipped \cup left) <= MaxFaults
           /\ skipped' = skipped \cup left
           /\ Becomes(p, [proc[p] EXCEPT !.todo = @ \ batch, !.batch = batch \ left])
  /\ UNCHANGED <<table, lost, resets, listed, late, cut, acked>>

\* The table deletes the others in any order.
DeleteItem(p, k) ==
  /\ k \in proc[p].batch
  /\ table' = [j \in DOMAIN table \ {k} |-> table[j]]
  /\ cut' = cut \cup {k.trace} /\ skipped' = skipped \ {k}
  /\ acked' = {a \in acked : a[2] # k.trace}
  /\ Becomes(p, [proc[p] EXCEPT !.batch = @ \ {k}])
  /\ UNCHANGED <<lost, resets, listed, late>>

-----------------------------------------------------------------------------
Load(p) == (\E t \in Traces : LoadMeta(p, t)) \/ LoadEvents(p) \/ LoadDecisions(p)
Append(p) == ReadHead(p) \/ \E done \in BOOLEAN : AppendEvent(p, done)
Approve(p) == (\E t \in Traces : ReadApproval(p, t)) \/ ReplaceApproval(p)
Verify(p) == (\E t \in Traces : VerifyEvents(p, t)) \/ VerifyHead(p)
Tamper(p) == (\E n \in 1..MaxEvents : TamperRead(p, n)) \/ TamperWrite(p)
Reset(p) ==
  \/ ResetList(p) \/ ResetQuery(p) \/ ResetBatch(p)
  \/ \E k \in proc[p].batch : DeleteItem(p, k)

Next ==
  \E p \in Procs :
    \/ \E t \in Traces : CreateRun(p, t)
    \/ Load(p) \/ Append(p) \/ AppendDecision(p) \/ AddApproval(p)
    \/ Approve(p) \/ Verify(p) \/ Tamper(p) \/ Reset(p) \/ Leave(p)

Spec == Init /\ [][Next]_vars

-----------------------------------------------------------------------------
(* Properties.                                                             *)

\* Optimistic revisions make the three reads of load_trace and the rollback after
\* a lost answer safe: a state with the stored revision is the stored trace, so
\* what is torn or outdated can never be written back.  Only a reset that has begun
\* to delete the trace breaks it (META goes after the events).
SnapshotFaithful ==
  \A p \in Procs :
    LET s == Held(p)
    IN  s.trace \notin cut /\ At(p, "ready") /\ MetaUnchanged(p) =>
          /\ MetaOf(s) = table[Meta(s.trace)]
          /\ \A n \in DOMAIN s.events : s.events[n].by = EventsOf(s.trace)[n].by
          /\ DOMAIN s.events = DOMAIN EventsOf(s.trace) /\ s.decisions = DecisionsOf(s.trace)

\* Until a reset deletes a trace, its events are those of the chain up to HEAD, META
\* agrees with HEAD, and an append that returned is in the table under its
\* sequence, as the only one told so.
AckedKept ==
  /\ \A t \in Traces \ cut : Has(Meta(t)) =>
       /\ Has(Head(t)) /\ table[Meta(t)].next = table[Head(t)] + 1
       /\ DOMAIN EventsOf(t) = 1..table[Head(t)]
  /\ \A a \in acked : a[2] \notin cut =>
       Has(Event(a[2], a[3])) /\ table[Event(a[2], a[3])].by = a[1]

\* The three copies of an approval never disagree on its version, also in a reset
\* that stopped half way, and stand and fall together before one.
ApprovalCopiesAgree ==
  \A t \in Traces :
    LET copies == ApprovalCopies(t) \cap DOMAIN table
    IN  /\ \A j, k \in copies : table[j] = table[k]
        /\ t \notin cut => copies \in {{}, ApprovalCopies(t)}

\* Keys whose deletion is on its way or did not happen.
InFlight == UNION {proc[p].batch : p \in Procs}
Missed == InFlight \cup skipped

\* What a reset that crashed left behind the next one finds: a run that can be loaded
\* and an approval that can be resolved are in the namespace's list, and so is every
\* item of a trace that was not written while it was being reset.  The one gap is an
\* item the table did not delete with its batch: the reset goes on to the pointers
\* all the same, and what it missed may stay for good, a run without a listing.
ResetResumable ==
  \A t \in Traces :
    /\ Meta(t) \in DOMAIN table \ Missed => Has(NsTrace(t))
    /\ Pointer(t) \in DOMAIN table \ Missed => Has(NsApproval(t))
    /\ t \notin late /\ Query(t, PartitionKinds) \ Missed # {} => Has(NsTrace(t))

\* A verdict is explained by the trace: VALID means the events read are a whole
\* chain nobody altered, INVALID that an event was altered, a reset deleted from the
\* trace, or a writer came between verify_trace's two reads.
VerdictExplained ==
  \A p \in Procs : At(p, "verdict") =>
    LET t == Trace(p)
        clean == \A n \in DOMAIN Held(p).events : Held(p).events[n].clean
    IN  /\ proc[p].valid =>
             clean /\ \E head \in 0..MaxEvents : DOMAIN Held(p).events = 1..head
        /\ ~proc[p].valid => ~clean \/ t \in cut \/ table[Meta(t)].rev > proc[p].since
=============================================================================
