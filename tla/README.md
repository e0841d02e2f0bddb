# Verification of the governed shipment runtime

The repository runs a shipment journey through four agents (inventory, dispatch,
carrier, customer communications).  Every tool call passes a *governor*, which
asks a policy engine and records what happened in a hash-chained trace; a freight
booking above a spend threshold is prepared, paused for a human approval, and
confirmed or cancelled when the approval is decided or expires.  This directory
holds TLA+ models of that system, the TLC runs that check them and the TLAPS
proofs about them.  Module and definition names follow the source; PROJECT.json
maps every definition to the lines it models.

## 1. Inventory

| Component | State | Operations | Hard part |
|---|---|---|---|
| Trace store, `packages/ledger` | runs, retained heads, event replays, per trace | create, load, append event/decision, commit transition, tamper demo, reset, verify | callers hold detached snapshots and every write replaces the whole document |
| DynamoDB repository, `packages/storage` | one table: META, HEAD, EVENT#, DECISION#, approval, replay and effect items | the same protocol by conditional transactions | several processes, multi-item reads, batch deletes |
| Approval resolution, `apps/runtime/service.py`, `packages/approvals` | approval record, replay records, a per-process lock | resolve, expire, continue, record replay | claim, continuation and replay are separate writes; crash between any two |
| Orchestrator, agents, `apps/runtime` | the snapshot of the run in progress | run, resume_approved, cancel_pending | an append refused half-way through; guided replanning; a refusal at any call |
| Governor, `packages/governor` | tool-call and guide counters, effect receipts | execute_tool | effect, receipt, TOOL_SUCCEEDED and applied spend are four steps |
| Policy engines, `packages/policy`, `packages/cedar_adapter`, `policies/`, `services/cedar_pdp` | none | evaluate | two implementations that must agree; failing closed |
| Mock tools, `packages/tools` | process-local dictionaries | prepare, confirm, cancel, outbox | process-local memory deciding about durable bookings |
| Strands runtime and recorded model, `apps/runtime/strands_*.py`, `recorded_model.py` | invocation context with its history | invoke, tool callbacks, close; the recorded model's next call | timeout against a late tool callback; a second implementation of the agents' workflow |
| Dashboard projection, `packages/projections` | none | risk score, exactly-once status, weight attempts, spend points | folds over a history with repeats, guidance and shadow decisions |
| Dashboard page, `apps/dashboard/static/js` | one state object, a polling timer, the drawn buttons | run, refresh, decide, reset, reload, poll | handlers interleave at every await; requests answered late or abandoned |
| HTTP API, `apps/api` | none of its own | one handler per endpoint around RunService | a request the client gave up on is still served |
| Evaluation, scripts, settings, provider clients | none of their own | parsing, reporting, construction | - |

Interactions: the API calls RunService; RunService reads approvals and loads
snapshots from the store, then calls the orchestrator; the orchestrator calls
agents, which call the governor; the governor reads approvals and receipts from
the store and executes tools; everybody appends to the one trace document through
the snapshot they were handed.  Instances share nothing but the table.  The page
only sees what the API answers, and polls while the run it shows is pending.

What makes each part correct: the chain records exactly what was appended and the
verifier notices exactly the alterations; one approval has one durable winner;
the carrier hears one outcome, the one decided; spend moves once, after the
effect; a terminal status tells the truth; a decided approval is carried out; the
runtimes do the same to the world; what the operator reads is what happened.
The hazards behind these properties, each at its line, are listed in PROJECT.json.

## 2. Modules

| Module | Models | Checked by |
|---|---|---|
| `Ledger` | `MemoryTraceStore` and `verify_chain`, one trace, any number of callers | `MCLedger`; proofs in `LedgerProofs` |
| `ApprovalResolution` | resolution of one approval by several processes over the DynamoDB repository, with the orchestrator's, agents', governor's, engine's and tools' share of it | `MCApproval` and its configurations; proofs in `ApprovalProofs` |
| `Commitment` | the abstract promise of two-phase commitment | refined by `ApprovalResolution` (`ImplementsCommitment`, run and proof) |
| `LedgerProofs` | the inductive invariant of `Ledger` and the theorems | TLAPS |
| `Policy` | the Python engine's six rule families and the Cedar path (context, bundle, authorizer, response mapping) as operators on one request | `MCPolicy`; proofs in `PolicyProofs`, `ParityProofs` |
| `PolicyProofs`, `ParityProofs` | both engines decide alike: on every request, and in the instance that TLC checks | TLAPS |
| `ApprovalProofs` | the inductive invariant of `ApprovalResolution`, its theorems and the refinement | TLAPS |
| `RepositoryProofs` | the inductive invariants of `Repository`, without and with what a reset leaves behind | TLAPS |
| `RunProofs` | sums of amounts, the inductive invariant of `GovernedRun` and its theorems | TLAPS |
| `ProjectionProofs` | on top of `RunProofs`: the exactly-once card, the one booking of a scripted run, the provenance card | TLAPS |
| `DashboardProofs` | the inductive invariant of `Dashboard` | TLAPS |
| `GovernedRun` (extends `Policy`) | one run up to its end or its pause: orchestrator, deterministic agents, recorded or hosted model, governor, tools | `MCRun`, `MCParity`; proofs in `RunProofs` |
| `Projection` (extends `GovernedRun`) | the dashboard's read model: pure operators on the trajectory and its decisions | in the runs of `GovernedRun`; proofs in `ProjectionProofs` |
| `RuntimeParity` (extends `Projection`) | one shipment run by the agents and then by the recorded model, with the decisions each records | `MCParity`; proofs in `ProjectionProofs` |
| `Repository` | `DynamoDBTraceStore`: table, reads, transactions, reset, request by request, several processes | `MCRepository`; proofs in `RepositoryProofs` |
| `Dashboard` | the operator's page and the API as it sees it | `MCDashboard`; proofs in `DashboardProofs` |

`GovernedRun` ends where `ApprovalResolution` begins: `PausedApprovable` states
what the latter's initial state assumes of a paused run.  `ApprovalResolution`
takes a conditional append as one step on a fresh or stale snapshot;
`Repository`'s `SnapshotFaithful` is the reason it may: a state at the stored
revision is the stored trace, although it was read in three requests.

### Ledger

`trace`, `head` and `replays` are the store's dictionaries for one trace;
`snap[w]` is the deep copy caller `w` works on, with its revision; `written` and
`acked` are history variables (what was acknowledged).  Each store method runs
under the store's lock, so one method is one action and the interleaving is
between methods of different callers.  A call that raises, and an append answered
from a replay record, changes nothing and is a stuttering step.  An event keeps
the fields the hash covers that matter here (sequence, type, summary, idempotency
key); SHA-256 is a collision-free function, represented by the sequence of
contents it commits to.

### ApprovalResolution

`approval`, `replays`, `doc`, `log` and `receipts` are durable; `told` counts the calls
made to the carrier and the customer, whether or not a receipt followed; `proc[i]` is what
process `i` has in memory (its control point, command, copy of the approval,
snapshot and tool in progress) and `mock[i]` the tools' dictionaries there.  A
step is one access to the store with the in-memory work before it, so every place
where a process can be interrupted by another, by a crash or by a refused append
is a state.  `fresh` says that the snapshot is the last committed one: that is
what the META revision and HEAD sequence conditions compare.  A crash clears the
process's memory, caches included, and the process serves requests again.
`ServeOtherRun` is the rest of the process's traffic, as far as the tools' caches
notice it.  `StorageError` is a request to the store that fails although the snapshot
may be current: `append_event` turns any error of the transaction into the refusal that
staleness gets, but then the RUN_FAILED of `resume_approved` may be accepted.  Crashes,
other runs and storage errors share one bound, `MaxDisturbances`.

Only enforce mode is modelled (a shadow run never pauses); the run starts at its
pause, with one prepared booking whose amount takes the spend over the threshold.
Escalation by the fresh evaluation of a resumed confirmation is not given a
continuation, because `NoSecondEscalation` shows that it cannot happen.

### Policy

A `Request` keeps what the rules compare: who calls what under which mandate, the
weight and its fact, the vehicle or quote, the prepared action, the spend, the
approval and the outbox's fields; texts and hashes are reduced to whether they
match.  A verdict is the set of ids of the policies that apply, so the two engines can be
compared rule by rule; `PolicyOutcome`, `Reasons` and `PrimaryReason` are what
the governor makes of it.  `TraceRequest` says which requests a trace can make (no negative
amounts, an approval only for spend over the threshold, ...).

### GovernedRun

`main` and `role` are the orchestrator's place in its loop, `st` the
`TrajectoryState`, `effects` what the logistics tools did.  A call goes through
`call.pc`: bound, attempted (limit, counters, TOOL_ATTEMPTED), decided, executed,
answered; between any two of these the other thread may step.  `run.runtime`
says who plays the roles.  `"legacy"`: `step` is the agent's place
in its script, and `AfterValue`, `AfterGuide` and `AfterBlock` say what it does
with each answer, its errors included.  `"strands"`: a model calls any tool of
its role with any arguments (`ModelCalls`), in any order, and may stop, fail or
go on after the orchestrator's thread gave up (`Timeout`); `ctx` is the
`GovernedInvocationContext`.  `"recorded"`: the same invocation with the recorded
model, whose next call (`RecordedCall`) is a function of `st` and of the results
in `ctx.history`.  The request that the engine sees is built from `st` (`RequestOf`) and evaluated by
the Python rules of `Policy`.  The carrier adapter names a booking by order and quote
in a cache of its process, so a rejected run of the same order makes it refuse this run's
confirmation of the same quote: `run.released` holds those names (`Refuses`).  Not
modelled here: the chain (see `Ledger`), crashes
(`ApprovalResolution`), the resume and cancel phases of a model.

### Projection and RuntimeParity

`ExactOnceStatus` and `WeightAttempts` are functions of
`packages/projections/dashboard.py` on what the model keeps of a decision; the
attempts are indexed by their decision's place in the log.
`RuntimeParity` adds the list of recorded decisions and, when a run of the agents
is done, starts the recorded model's run of the same scenario from scratch
(`Rerun`), keeping the first as `baseline`.  `RuntimesAgree` is the comparison of
`tests/integration/test_strands_recorded_runtime.py`, for every scenario of the
instance instead of the fixtures' four.  Where the implementations part by design
the property says so: a preferred vehicle that is not available (an error to the
agent, a proposal to the model), a refusal some agents turn into a plain error
(FAILED against BLOCKED), and a failed call the model repeats.

### Repository

`table` maps the keys present to what matters of their items.  A transaction, a
single-item write and each read request are one step; `proc[p]` holds the
`TrajectoryState` a handler works on and what it has read.  An answer may be lost
after its write (`Writes`), and the caller then rolls its state back and may use
it again, as the code does.  Of a batch of deletions any part may be left undone, since
`UnprocessedItems` is never looked at, and the reset goes on to the next one; the rest
is carried out item by item in any order, also after its sender died.  `acked`,
`listed`, `late`, `cut` and `skipped` are history: appends that returned, traces on a
reset's list, traces written after that, traces that lost an item, items that their
batch was to delete and did not.  Reads are strongly consistent, as
the code asks.  `VerifyChain` is abstract here: `Ledger` has the hashes.

### Dashboard

Each slot of `tasks` is a handler waiting for an answer; the steps between two
awaits are one action.  `Serve` is the API handling a request: its handlers are
coroutines that never yield, in one process, so one request is one step there.
`Abort` is the timeout of `request`: the handler continues with an error and the
request, if it changes something, may still arrive (`orphans`).  `view` is the run
and approval drawn, `disabledBy` the handler whose click disabled the buttons that
are drawn now.  `approvals` is each run's approval beside its status: a run may still
be pending after its approval is resolved (its continuation raised, and a retry of the
winning command may go on with it), and a hosted run that fails after its escalation,
or whose late call escalates after the timeout, is failed while its approval is pending.

## 3. Runs

| Run | Shows | Bounds |
|---|---|---|
| `ledger` | `SnapshotCurrent`, `NothingLost`, `VerifierExact`, `KeyRecordedOnce`, `HistoryOnlyGrows` | 2 callers, 5 writes (two appends by each caller around a tamper step), 1 key with two descriptions, both ways of ending |
| `approval_safety` | six invariants, `TerminalFinal`, and the refinement of `Commitment`: one durable decision, the carrier told that outcome only, spend moved once and after the effect, the customer told last; `ToldOnce` the same of the calls themselves | 2 processes, 2 keys (symmetric), approve/reject/expiry, 2 disturbances (crashes, storage errors, runs of the same or another order), failing policy engine, 3 tool calls (a third attempt meets the limit) |
| `approve_live` | an approved or expired run ends, and does not fail, with approve, reject and expiry racing on two processes | no crash, storage, engine and caches healthy |
| `approve_crash`, `reject_race` | counterexamples to the recovery rules of `docs/CHECKPOINT_8_IMPLEMENTATION_PLAN.md` 7.5 | one crash, or two processes without a crash |
| `policy_parity` | `OutcomeParity`, `PrimaryReasonParity` | every combination of the rules' conditions per tool; amounts below, at and above the threshold |
| `policy_reasons` | counterexample to the ordered reason-code parity of `docs/CHECKPOINT_7_IMPLEMENTATION_PLAN.md` | the same space |
| `run_agents` | `ScriptedRunSafe` (all that `run_model` shows of a state of a run, and one booking); of the same run by the recorded model also `RuntimesAgree`, `TimeoutOnlyShortens`, `ProvenanceShown` | both modes, 4 vehicles (one unavailable), 3 quotes, right and wrong weight, prior spend below and over the edge, mandates with and without disclosure; both runtimes with an engine that may fail at any call |
| `run_model` | of a hosted model, and of the agents and the recorded model in the same instance: `SpendConserved`, `CommitWithinThreshold`, `ColdChainKept`, `CompletedTruthful`, `PausedApprovable`, `ExactOnceTruthful`, `QuietAfterFailure`, `RunEnds` | enforce mode, 2 vehicles, 2 quotes, with and without a booking name released by another run; the hosted model with any arguments, 4 turns per role, 8 calls per run (seven complete a run, the ninth meets the limit) |
| `late_effect` | counterexample to the cancelled-invocation guard of `docs/CHECKPOINT_10_IMPLEMENTATION_PLAN.md` 8 | as `run_model` |
| `repository` | `SnapshotFaithful`, `AckedKept`, `ApprovalCopiesAgree`, `ResetResumable`, `VerdictExplained` | 2 processes, 1 trace, 2 events, 3 writes, 2 approval versions, 1 lost answer or undeleted item, 1 reset in batches of 3 of up to 8 keys |
| `dashboard` | `PageConsistent`, `DecisionBecomesVisible`, `NeverStuck` | 2 runs, 3 handlers at once, 3 clicks, 1 abandoned request |

Four turns let a model prepare and confirm two bookings, the least that
can pass the threshold in parts, exhaust the guided attempts, or complete its
role with a turn to spare; prior spends of 24 and 33 put both bookings
together (9 and 7), or the cheaper one alone, exactly at the threshold of 40.
Both carriers there are certified, so a hosted model exercises only the cargo half of
`ColdChainKept`; the carrier half is exercised by `run_agents` (through
`ScriptedRunSafe`) and proved (`ColdChainSafe`).
Shadow mode is left to `run_agents`: there the policy constrains nothing that a
model does.

A second key and a second process suffice for the races: the record has one
version to win, a losing command only returns, and a third participant can only
repeat what one of the two does.  Amounts are those of the adversarial fixture in
units of ten thousand rupees; only their order relative to the threshold matters.
In `repository` the traces meet only in the order of a reset's deletions, which
takes them one after the other, so one trace shows what a reset can cut; three
writes let a holder of an old state fall behind by more than one revision, and
three batches put a crash before, inside and after the trace's own items.  In
`dashboard` three handlers are a poll, a decision and one that overtakes both.
Deadlock is not checked: a store after reset and a resolved approval with every
command answered have nothing left to do.

**Fairness** (`FairSpec`).  Weak fairness of every request in progress: the
service runs a request to its end unless its process dies.  Weak fairness of the
client that decided the approval resending its command until a replay record
answers it, as the repository's documents ask of clients.  No fairness for new
commands, the sweep, the clock, crashes or other runs.  In `GovernedRun` the
governor, the agents and the orchestrator are code that runs, and
`future.result(timeout=...)` bounds the wait for a model; the model itself owes
no step, so `RunEnds` holds because of the timeout.  In `Dashboard` the API
answers, the browser runs its callbacks and the interval fires while the page is
visible; the operator, the other browser and abandoned requests owe nothing.
`Repository` has no liveness property and no fairness.

**Findings.**  Four runs end in a counterexample; PROJECT.json quotes the
document against the line.  In short: a retry resumes a claimed approval only
while the run is still PENDING_APPROVAL, so a crash after RUN_RESUMED strands it;
`cancel_booking` overwrites the CANCELLED commitment, so a repeated cancellation
meets an empty reservation and raises (when a second process serves a retry, or
after a crash); the engines record different lists of reasons (never another
outcome or primary reason); a call in progress at the timeout has its effect after
RUN_FAILED.

Observations the models contain without a run of their own:

* An expired approval refuses every command and the sweep does not list it, so a
  crash after the expiry claim strands the run (`ExpiredRunCancels` holds in
  `approve_live` and fails as soon as a crash is allowed).
* A restarted process that has prepared another order refuses the approved booking
  (`Refuses` in `ApprovalResolution`; `ApprovedRunNeverFails` is checked with
  healthy caches only).
* A request to the store that fails while the snapshot is current fails an approved run
  for good, if the RUN_FAILED after it is accepted: `append_event` does not tell a
  passing error from a conflict.  `approval_safety` has the step, and all it shows holds
  with it; `ApprovedRunNeverFails` is checked and proved without it.
* A receipt that could not be stored after a confirmation leaves the run FAILED, or
  RUNNING for ever, with the carrier told and the amount reserved; nothing confirms
  again, as `ToldOnce` shows.  A release is repeated by the retry of a rejection.
  `SpendFollowsEffects` and the refinement see a call only through its receipt.
* A reset goes on whatever the answer to a batch says (`dynamodb.py:459-461`), so META
  may stay while its listing goes: a run that can be opened and that no later reset
  finds.  `ResetResumable` leaves out such items and no others.
* A hosted run that fails after its escalation keeps its approval pending.  The page
  draws the form beside the failed run and does not poll; a decision is refused, since
  the run no longer waits, until the approval expires, and the amount stays reserved.
* A run of an order is refused the confirmation of a quote whose booking a rejected run
  of the same order had released in the same process (`Refuses` in `GovernedRun`); it
  ends FAILED.
* A BLOCK answered to the inventory or communications agent ends the run FAILED
  instead of BLOCKED (`AfterBlock` in `GovernedRun`).
* A verification that meets an append between its two reads calls a clean trace
  invalid (`VerdictExplained` lists the only explanations); nothing is harmed.
* META sorts after the events, so while a reset is deleting a trace an append to it
  can still be accepted; the properties of `Repository` about contents hold for
  traces no deletion has touched, and what is left of the others can be found by
  the next reset unless it was written after the list was made.
* A hosted model that repeats its notification is answered from the receipt, yet
  `effect_history` counts both and the exactly-once card reads "violation": the
  card errs on the side of alarm, which is what `ExactOnceTruthful` states.
* While a decision is being submitted, drawing the view anew (a timeline button)
  brings enabled buttons back, although `docs/CHECKPOINT_5_IMPLEMENTATION_PLAN.md`
  10.8 wants them disabled; the second command is refused by the version check.

## 4. Proofs

`LedgerProofs` proves, for any sets of callers, descriptions, keys and decisions
and any bound on the revision, from `LedgerAssumption` only:

* `TypeCorrect`, `RevisionCheckSound`, `NoLostUpdate`, `IdempotentAppend`,
  `VerifierCorrect`: the five invariants of the run `ledger`;
* `AppendOnly`: its action property.

None of them is inductive by itself.  `IInv` adds: the stored events, the retained
head and `next_sequence` are functions of the contents appended (`Chain`: event
`i` stores the first `i-1` and the first `i` contents as its two hashes); no
snapshot is ahead of the store, and one at the stored revision is the stored trace
(`Current`); every key in the chain has a replay record (`KeysOnce`).  The last is
what an append consults, the second is what makes overwriting the document safe,
and the first turns `verify_chain` into a statement about prefixes: the hash
recomputed at `i` equals the recorded one exactly when content `i` is unaltered
(`RecomputedHash`), an event fails exactly if it or its predecessor is altered
(`FaultCases`), hence the first failure is the first altered event.  append_event
and commit_transition share one preservation lemma (`AppendKeepsIInv`).

`PolicyProofs` proves `OutcomeParityForAll`: for every request whose numbers are
integers and that satisfies `TraceRequest`, both engines give the same outcome -
what the run `policy_parity` shows on a bounded space.  The argument goes tool by
tool: for each the Python families reduce to the conditions of the bundle's
forbids, and the most severe policy that applies is the same although the sets
differ.  `PrimaryReasonParityForAll` is the same for the primary reason, the one an
operator reads first.  The engines' lists of signals differ, so neither the set nor its
order helps; but the reason comes from the first signal of the strongest outcome
(`FirstSignal`), and for each tool the signals Python leaves out never stand before
the one it reports.  `ParityProofs` carries both over to the specification TLC
explores: whatever weights and amounts `MCPolicy` is given, each request it chooses is
a `Request`, so `OutcomeParitySafe` and `PrimaryReasonSafe` state the two invariants of
the run `policy_parity` for every instance.  That the requests a governed run builds meet
the theorem's assumption is a lemma of `RunProofs` (`RequestFromTrace`).

The other proof modules assume nothing but the named assumption of the module they
are about.  Every inductive invariant was first checked by TLC as an invariant of
the instance of its run.

**`ApprovalProofs`**, from `ApprovalAssumption` (the booking takes the spend over
the threshold; any processes, keys, limits, crashes, storage errors and other runs): `TypeCorrect`,
`SpendSafe`, `TerminalSafe`, `ToldSafe`, `ReplaySafe`, `EscalatesOnce`, `FinishedForever` and
`Refinement`, that is every safety property of the run `approval_safety`.  The
properties speak of durable records, but what a process will write depends on what
it remembers, so the invariant has a part for each.  `Shape`: the approval is
decided once, nothing is durable before, and the document of an approved
(`GrantedShape`) or refused (`RefusedShape`) run has one of few forms.  `Informed`:
what a process at each control point knows of them.  An approved run is resumed by
one process only (`Solo`), since RUN_RESUMED is conditional and lets one through,
and that process's snapshot is current at every step (`Resuming`).  Cancellation has
no such gate: several processes may carry it out, overtake each other and hold
snapshots that are of no use, but each tells the carrier what was decided
(`Cancelling`).  `ToldSafe` counts calls, which no receipt records when a process dies
in between.  Its invariant (`Counted`) says that the one process let through has not
made the call it is about to make, and that whoever would come after it is stopped by
RUN_RESUMED; it needs that a resumed run never waits again and a paid booking stays paid
(`DocumentOnward`).  The refinement maps the durable state to `Commitment`; crashes,
retries, reads and refused appends are stuttering steps.

`ApprovedSafe` proves `ApprovedRunNeverFails` under `Untroubled`, which names the four
things the code lets an approved run fail of: another run prepared in the same process
makes the tool's cache refuse the booking, an engine that fails blocks
the message, which the agent turns into an error, a request to the store fails although
the snapshot is current, and the call limit may leave no room for the confirmation and the message.  Processes may
race and crash without limit: a crash strands a run, it does not fail it.  The
invariant, `Unfailed`, says of the one process that resumes an approved run that it
has the calls it needs and is on no path to a refusal.

**`RepositoryProofs`**, from `RepositoryAssumption` (any processes, traces, events,
revisions, lost answers and undeleted items): `SnapshotSafe`, `AckedSafe`, `CopiesSafe`, `VerdictSafe`.
A trace no reset has touched is `Whole` (META and HEAD agree, the events are exactly
1..HEAD) and the copies of its approval are there together.  A held state is behind
META's revision or is the stored trace as far as it has been read (`Holds`): that is
why three separate reads are as good as one, and why a state rolled back after a lost
answer may be used again.  Its second part adds `RInv` for `ResetSafe`: what a reset
still means to delete is in its list of traces, keys or current batch, in an order
that takes a trace's items and approval pointer before the namespace entries by which
they are found (`Plan`), so whatever can be opened is listed, in a batch already sent, or
was left out of one (`Listed`).  The run has one reset at a time to die; the theorem has any number.

**`RunProofs`**, from `RunAssumption` (finitely many quotes; any vehicles, amounts,
weights, mandates, limits; hosted model, recorded model and agents): `TypeCorrect`,
`SpendSafe`, `ThresholdSafe`, `ColdChainSafe`, `CompletedSafe`, `PausedSafe`,
`QuietSafe`.  The parts of `IInv`:

* `Placed`: a call is in progress only in an agent's turn or after the orchestrator
  gave up, and then the invocation is closed - the whole content of `QuietSafe`;
* `Counted`: a call past the limit check is already counted, so the limit bounds the
  other counters although they are raised later;
* `Staged`, `Scripted`: roles that are over left behind what the next one needs, and a
  deterministic agent is at a step of its script with what the step needs;
* `Bound`, `Permitted`: a call between binding, decision and execution still has what
  was checked - the state a verdict was about is the state the tool acts on, because
  one call is in progress at a time, also after a timeout;
* `Recorded`: state and effects agree, up to the confirmation of the call in progress;
* `Escalated`: after an escalation nothing is called, because it ends the agent's turn
  or marks the invocation terminal;
* `Spent`: the counters are sums.  `CommitWithinThreshold` needs it: the policy
  compares committed and reserved spend, the property speaks of carriers told.

The sums are the library's fold over a set, in the order of CHOOSE.  That it is a
number, and that adding or removing a quote changes it by its amount in whatever order
(`Totals`), is shown by taking a least counterexample, as the library's induction
theorems cannot be applied here.

`EnginesInterchangeable` puts `RequestFromTrace` and the parity theorems together: for
every call that any run decides, the Cedar path and its Python fallback give the same
outcome and the same primary reason, so a fallback changes neither an effect nor the
explanation that is recorded.

**`ProjectionProofs`**: `ExactOnceSafe` adds to `IInv` that the entries of
`effect_history` are at least the carriers booked and none stands for nothing
(`Entered`).  The other results are about `RuntimeParity`:

* `ParityInvariance`: what `RunProofs` shows of a run also holds in the second run of
  a comparison.  `IInv` follows from `Fresh`, the state a run is created in, which
  `Rerun` reaches as well as `Init`; that is why the run's record is kept in
  `RunRecord` instead of the instance's `Runs`.
* `ScriptedSafe`: `ScriptedRunSafe` for the agents and the recorded model.  A hosted
  model may book two carriers; a scripted run may not, because one quote is in play at
  a time (`OneQuote`): only the selected quote is ever prepared, told or notified about,
  and none is selected once one was prepared.  For the agents this is the order of
  their script, for the recorded model the condition under which it selects.
* `ProvenanceSafe`: no recorded plan at another weight has an ALLOW verdict (`Traced`).
  The card reads the verdict, not what was applied, which is why it also tells the
  truth of a shadow run.

**`DashboardProofs`**, from `Dashboard`'s assumption (any runs, handlers, clicks and
abandoned requests): `PageConsistentAlways`.  The page draws what a handler read some
steps ago, so the invariant is about answers still on their way (`MayBeDrawn`).  A late
answer is safe since a run that ended stays as it ended until a reset forgets it, and a
forgotten identifier is never given to another run (`StartedOnly`); a resolved approval
stays resolved, and a run whose approval was read as pending was pending or failed; an
answer that says pending may be out of date, but then the page polls.

Only model-checked:

* liveness (`ApprovedRunResumes`, `ExpiredRunCancels`, `RunEnds`,
  `DecisionBecomesVisible`, `NeverStuck`): fairness is beyond the provers;
* `RuntimesAgree` and `TimeoutOnlyShortens`: each step of the second run would have to
  be matched with the step of the first that it repeats, at different control points
  of two implementations and by the history of results the recorded model searches;
  the comparison of whole lists of decisions is an induction over data.  What each of
  the two runs guarantees by itself is proved (`ScriptedSafe`).

## 5. Not modelled, and the plan

Not modelled: the field-by-field encoders, the item size limit, validation of
names, configuration, provider clients, HTTP parsing and authentication, rendering,
the disposable integrity demo of the page, risk score and spend points, evaluation and scripts (no
control of their own), the superseded observer, `commit_transition` of the DynamoDB
repository (no caller), the sweep over several approvals, and the resume and cancel
phases of a model.

The status RUNNING never reaches the page: a run is one step of a single API
process.  With several processes a page that loads a trace in that status would not
poll; the deployment the repository describes has one.

Next, in this order:

1. Proofs: of `RuntimesAgree` the effects alone, by a lemma per role that both
   implementations end it with the same selection.
2. `GovernedRun`: the window in which the approval is durable and the pause is
   not; the resume and cancel phases of a model.
3. `Repository` refining the one-step store `ApprovalResolution` assumes.
