------------------------------- MODULE Ledger -------------------------------
(***************************************************************************)
(* The hash-chained trace store of packages/ledger (MemoryTraceStore and    *)
(* verify_chain), for one trace.                                            *)
(*                                                                         *)
(* Callers never touch the stored trace: they work on a detached snapshot   *)
(* (deepcopy) that carries the storage revision it was read at, and every   *)
(* write is refused when that revision is no longer the stored one.  Each   *)
(* store method runs under the store's RLock, so one method is one action;  *)
(* the interleaving is between methods of different callers.  A call that   *)
(* raises, and an append that replays an already recorded idempotency key,  *)
(* change neither the store nor the snapshot: they are stuttering steps,    *)
(* and their conditions appear as the negated guards below.                 *)
(*                                                                         *)
(* SHA-256 is modelled as a collision-free function: the digest of an event *)
(* is the digest of its predecessor extended with the event's own hashed    *)
(* content, so a digest is the sequence of contents it commits to.          *)
(***************************************************************************)
EXTENDS Naturals, Sequences, FiniteSets

CONSTANTS
  Writers,      \* callers holding detached snapshots (request or worker threads)
  Bodies,       \* event descriptions in play: [type, summary, key]
  Summaries,    \* event summaries, the field the tamper demo may replace
  Keys,         \* event idempotency keys
  NoKey,        \* idempotency_key=None
  Decisions,    \* decision ids (uuid4, hence never reused)
  MaxRevision   \* bound on storage_revision, i.e. on the number of writes

\* STEP stands for every event type that ends no run.
EventTypes == {"STEP", "RUN_COMPLETED", "RUN_FAILED"}

\* COMPLETED stands for the statuses the tamper demo accepts by themselves
\* (completed, cancelled, blocked); a FAILED run is told by its last event.
Statuses == {"RUNNING", "COMPLETED", "FAILED"}

Body == [type : EventTypes, summary : Summaries, key : Keys \cup {NoKey}]

ASSUME LedgerAssumption ==
  /\ Bodies \subseteq Body
  /\ NoKey \notin Keys
  /\ MaxRevision \in Nat

VARIABLES
  phase,     \* "absent", "live" or "reset": is the trace in _runs?
  trace,     \* the stored TrajectoryState
  head,      \* the retained LedgerHead
  replays,   \* _event_replays: [key, body] of every keyed event recorded
  holding,   \* callers that hold a snapshot
  snap,      \* the detached snapshot of each caller
  written,   \* history: the contents of the events whose append returned
  acked      \* history: the decisions whose append returned

vars == <<phase, trace, head, replays, holding, snap, written, acked>>

-----------------------------------------------------------------------------
(* Canonical hashing.                                                      *)

\* The fields event_hash_payload covers, previous_hash apart.
Content(e) == [sequence |-> e.sequence, type |-> e.type,
               summary |-> e.summary, key |-> e.key]

ContentType == [sequence : Nat, type : EventTypes,
                summary : Summaries, key : Keys \cup {NoKey}]

Digest == Seq(ContentType)

GENESIS_HASH == <<>>

calculate_event_hash(e) == Append(e.previous_hash, Content(e))

\* A TraceEvent for description b at sequence n after digest prev.
NewEvent(b, n, prev) ==
  LET c == [sequence |-> n, type |-> b.type, summary |-> b.summary, key |-> b.key]
  IN [sequence |-> n, type |-> b.type, summary |-> b.summary, key |-> b.key,
      previous_hash |-> prev, event_hash |-> Append(prev, c)]

TraceEvent == [sequence : Nat, type : EventTypes, summary : Summaries,
               key : Keys \cup {NoKey}, previous_hash : Digest, event_hash : Digest]

TrajectoryState == [events : Seq(TraceEvent), decisions : SUBSET Decisions,
                    next_sequence : Nat, revision : Nat, status : Statuses]

LedgerHead == [sequence : Nat, event_count : Nat, event_hash : Digest]

EmptyTrace == [events |-> <<>>, decisions |-> {}, next_sequence |-> 1,
               revision |-> 0, status |-> "RUNNING"]

GenesisHead == [sequence |-> 0, event_count |-> 0, event_hash |-> GENESIS_HASH]

-----------------------------------------------------------------------------
(* verify_chain: the first failing check, in event order and then at the    *)
(* head.  expected_previous_hash is the digest recomputed for the           *)
(* predecessor.                                                             *)

ExpectedPrevious(events, i) ==
  IF i = 1 THEN GENESIS_HASH ELSE calculate_event_hash(events[i - 1])

EventFault(events, i) ==
  CASE events[i].sequence # i -> "SEQUENCE_MISMATCH"
    [] /\ events[i].sequence = i
       /\ events[i].previous_hash # ExpectedPrevious(events, i) -> "PREVIOUS_HASH_MISMATCH"
    [] /\ events[i].sequence = i
       /\ events[i].previous_hash = ExpectedPrevious(events, i)
       /\ events[i].event_hash # calculate_event_hash(events[i]) -> "EVENT_HASH_MISMATCH"
    [] OTHER -> "NONE"

BadEvents(events) == {i \in 1 .. Len(events) : EventFault(events, i) # "NONE"}

ComputedHead(events) == ExpectedPrevious(events, Len(events) + 1)

HeadFault(events, h) ==
  CASE Len(events) # h.event_count -> "EVENT_COUNT_MISMATCH"
    [] Len(events) = h.event_count /\ h.sequence # Len(events) -> "HEAD_SEQUENCE_MISMATCH"
    [] /\ Len(events) = h.event_count
       /\ h.sequence = Len(events)
       /\ h.event_hash # ComputedHead(events) -> "HEAD_HASH_MISMATCH"
    [] OTHER -> "NONE"

\* VerificationResult.valid.
Valid(events, h) == BadEvents(events) = {} /\ HeadFault(events, h) = "NONE"

\* "i is the first_bad_sequence verify_chain reports".
FirstBad(events, i) ==
  /\ i \in BadEvents(events)
  /\ \A j \in BadEvents(events) : i <= j

-----------------------------------------------------------------------------
(* The store's methods.                                                    *)

Init ==
  /\ phase = "absent"
  /\ trace = EmptyTrace
  /\ head = GenesisHead
  /\ replays = {}
  /\ holding = {}
  /\ snap = [w \in Writers |-> EmptyTrace]
  /\ written = <<>>
  /\ acked = {}

\* create_run: trace ids are fresh uuid4 values, so a reset trace never returns.
CreateRun(w) ==
  /\ phase = "absent"
  /\ phase' = "live"
  /\ trace' = EmptyTrace
  /\ head' = GenesisHead
  /\ holding' = holding \cup {w}
  /\ snap' = [snap EXCEPT ![w] = EmptyTrace]
  /\ UNCHANGED <<replays, written, acked>>

\* get_state / load_trace: a deep copy with its revision.
LoadTrace(w) ==
  /\ phase = "live"
  /\ holding' = holding \cup {w}
  /\ snap' = [snap EXCEPT ![w] = trace]
  /\ UNCHANGED <<phase, trace, head, replays, written, acked>>

\* Mutant of MayWrite: the revision check is dropped.
MayWrite_AnyRevision(w) ==
  /\ phase = "live"
  /\ w \in holding
  /\ trace.revision < MaxRevision

\* _assert_revision, on a trace that is still in _runs; MaxRevision is the
\* model's bound on the counter.
MayWrite(w) ==
  /\ phase = "live"
  /\ w \in holding
  /\ snap[w].revision = trace.revision
  /\ trace.revision < MaxRevision

\* Mutant of Persist: the revision is not advanced.
Persist_SameRevision(w, s) ==
  /\ trace' = s
  /\ snap' = [snap EXCEPT ![w] = s]

\* _persist_state: the caller's whole snapshot becomes the stored trace.
Persist(w, s) ==
  /\ trace' = [s EXCEPT !.revision = @ + 1]
  /\ snap' = [snap EXCEPT ![w] = [s EXCEPT !.revision = @ + 1]]

\* Mutant of StatusAfter: the event type is stored as the run status.
StatusAfter_EventType(s, b) == IF b.type = "STEP" THEN s.status ELSE b.type

\* The status the orchestrator sets before the event that announces it.
StatusAfter(s, b) ==
  CASE b.type = "RUN_COMPLETED" -> "COMPLETED"
    [] b.type = "RUN_FAILED" -> "FAILED"
    [] OTHER -> s.status

HeadAfter(events, e) ==
  [sequence |-> e.sequence, event_count |-> Len(events), event_hash |-> e.event_hash]

\* Mutant of AppendEvent: the replay record is neither consulted nor written.
AppendEvent_NoReplay(w, b) ==
  /\ MayWrite(w)
  /\ snap[w].next_sequence = head.sequence + 1
  /\ LET e == NewEvent(b, head.sequence + 1, head.event_hash)
         events == Append(snap[w].events, e)
     IN /\ head' = HeadAfter(events, e)
        /\ Persist(w, [snap[w] EXCEPT !.events = events,
                                      !.next_sequence = e.sequence + 1,
                                      !.status = StatusAfter(snap[w], b)])
        /\ written' = Append(written, Content(e))
  /\ UNCHANGED <<phase, replays, holding, acked>>

\* append_event.  The event links to the retained head, but the list it is
\* appended to, and the document persisted with it, are the caller's.
AppendEvent(w, b) ==
  /\ MayWrite(w)
  /\ b.key # NoKey => \A r \in replays : r.key # b.key
  /\ snap[w].next_sequence = head.sequence + 1
  /\ LET e == NewEvent(b, head.sequence + 1, head.event_hash)
         events == Append(snap[w].events, e)
         s == [snap[w] EXCEPT !.events = events,
                              !.next_sequence = e.sequence + 1,
                              !.status = StatusAfter(snap[w], b)]
     IN /\ head' = HeadAfter(events, e)
        /\ Persist(w, s)
        /\ written' = Append(written, Content(e))
  /\ replays' = IF b.key = NoKey THEN replays ELSE replays \cup {[key |-> b.key, body |-> b]}
  /\ UNCHANGED <<phase, holding, acked>>

\* append_decision.
AppendDecision(w, d) ==
  /\ MayWrite(w)
  /\ d \notin acked
  /\ d \notin snap[w].decisions
  /\ Persist(w, [snap[w] EXCEPT !.decisions = @ \cup {d}])
  /\ acked' = acked \cup {d}
  /\ UNCHANGED <<phase, head, replays, holding, written>>

\* commit_transition with one event the caller built itself on its snapshot
\* (no caller passes a keyed event).  The stored lists are kept; the caller's
\* other fields win.
CommitTransition(w, b) ==
  /\ MayWrite(w)
  /\ b.key = NoKey
  /\ LET mine == snap[w].events
         prev == IF mine = <<>> THEN GENESIS_HASH ELSE mine[Len(mine)].event_hash
         e == NewEvent(b, snap[w].next_sequence, prev)
         events == Append(trace.events, e)
         s == [snap[w] EXCEPT !.events = events,
                              !.decisions = trace.decisions,
                              !.next_sequence = e.sequence + 1,
                              !.status = StatusAfter(snap[w], b)]
     IN /\ e.sequence = head.sequence + 1
        /\ e.previous_hash = head.event_hash
        /\ calculate_event_hash(e) = e.event_hash
        /\ head' = HeadAfter(events, e)
        /\ Persist(w, s)
        /\ written' = Append(written, Content(e))
  /\ UNCHANGED <<phase, replays, holding, acked>>

\* Only a terminal trace may be tampered with.
Tamperable ==
  \/ trace.status = "COMPLETED"
  \/ /\ trace.events # <<>>
     /\ trace.events[Len(trace.events)].type \in {"RUN_COMPLETED", "RUN_FAILED"}

\* Mutant of Tamper: the edit leaves the revision alone.
Tamper_SameRevision(i, text) ==
  /\ phase = "live"
  /\ Tamperable
  /\ i \in 1 .. Len(trace.events)
  /\ trace' = [trace EXCEPT !.events[i].summary = text]
  /\ UNCHANGED <<phase, head, replays, holding, snap, written, acked>>

\* Mutant of Tamper: the edited event is hashed again.
Tamper_Rehash(i, text) ==
  /\ phase = "live"
  /\ trace.revision < MaxRevision
  /\ Tamperable
  /\ i \in 1 .. Len(trace.events)
  /\ LET e == [trace.events[i] EXCEPT !.summary = text]
     IN trace' = [trace EXCEPT !.events[i] = [e EXCEPT !.event_hash = calculate_event_hash(e)],
                               !.revision = @ + 1]
  /\ UNCHANGED <<phase, head, replays, holding, snap, written, acked>>

\* tamper_event_summary_for_demo: the stored event is edited in place, its
\* hashes and the head are not, and the revision moves.
Tamper(i, text) ==
  /\ phase = "live"
  /\ trace.revision < MaxRevision
  /\ Tamperable
  /\ i \in 1 .. Len(trace.events)
  /\ trace' = [trace EXCEPT !.events[i].summary = text, !.revision = @ + 1]
  /\ UNCHANGED <<phase, head, replays, holding, snap, written, acked>>

\* reset: every dictionary is cleared; detached snapshots survive in callers.
Reset ==
  /\ phase = "live"
  /\ phase' = "reset"
  /\ trace' = EmptyTrace
  /\ head' = GenesisHead
  /\ replays' = {}
  /\ written' = <<>>
  /\ acked' = {}
  /\ UNCHANGED <<holding, snap>>

Next ==
  \/ \E w \in Writers : CreateRun(w) \/ LoadTrace(w)
  \/ \E w \in Writers, b \in Bodies : AppendEvent(w, b) \/ CommitTransition(w, b)
  \/ \E w \in Writers, d \in Decisions : AppendDecision(w, d)
  \/ \E i \in 1 .. Len(trace.events), text \in Summaries : Tamper(i, text)
  \/ Reset

Spec == Init /\ [][Next]_vars
-----------------------------------------------------------------------------
(* Properties.                                                             *)

\* Every variable keeps its type: the stored trace and the snapshots are
\* trajectory states, the head is a ledger head.
TypeOK ==
  /\ phase \in {"absent", "live", "reset"}
  /\ trace \in TrajectoryState
  /\ head \in LedgerHead
  /\ replays \subseteq [key : Keys, body : Body]
  /\ holding \subseteq Writers
  /\ snap \in [Writers -> TrajectoryState]
  /\ written \in Digest
  /\ acked \subseteq Decisions

\* Optimistic concurrency rests on this: a detached snapshot whose revision is
\* the stored one IS the stored trace, whatever other callers appended,
\* decided or tampered with in between (_assert_revision compares nothing
\* else before _persist_state overwrites the whole document).
SnapshotCurrent ==
  \A w \in holding :
    (phase = "live" /\ snap[w].revision = trace.revision) => snap[w] = trace

\* No lost update: every event and decision whose append returned is in the
\* stored trace, in order and once, although every write replaces the whole
\* document with the caller's copy.  (A tampered summary is the one field
\* that may differ from what was appended.)
NothingLost ==
  /\ trace.decisions = acked
  /\ Len(trace.events) = Len(written)
  /\ \A i \in 1 .. Len(written) :
       /\ trace.events[i].sequence = written[i].sequence
       /\ trace.events[i].type = written[i].type
       /\ trace.events[i].key = written[i].key

\* Sequences whose summary is not the one appended.
Changed == {i \in 1 .. Len(trace.events) : trace.events[i].summary # written[i].summary}

\* verify_chain is exact: the stored trace verifies against the retained head
\* if and only if no stored summary differs from the one appended, and
\* otherwise the reported first_bad_sequence is the first altered event, with
\* EVENT_HASH_MISMATCH - also when callers go on appending after the tamper
\* demo, or the demo restores the original text.
VerifierExact ==
  /\ Valid(trace.events, head) <=> Changed = {}
  /\ \A i \in 1 .. Len(trace.events) :
       FirstBad(trace.events, i) <=> (i \in Changed /\ \A j \in Changed : i <= j)
  /\ \A i \in Changed : FirstBad(trace.events, i) =>
       EventFault(trace.events, i) = "EVENT_HASH_MISMATCH"

\* An idempotency key is recorded by at most one event of the chain, however
\* many callers retry the append with it.
KeyRecordedOnce ==
  \A i, j \in 1 .. Len(trace.events) :
    (trace.events[i].key = trace.events[j].key /\ i # j) => trace.events[i].key = NoKey

\* Recorded history is only extended: no write of any caller removes, reorders
\* or re-hashes an event that was in the stored chain (reset removes the whole
\* trace).
HistoryOnlyGrows ==
  [][phase' = "reset" \/
     /\ Len(trace.events) <= Len(trace'.events)
     /\ \A i \in 1 .. Len(trace.events) :
          /\ trace'.events[i].event_hash = trace.events[i].event_hash
          /\ trace'.events[i].previous_hash = trace.events[i].previous_hash]_vars
=============================================================================
