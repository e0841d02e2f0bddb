---------------------------- MODULE LedgerProofs ----------------------------
(***************************************************************************)
(* Proofs about Ledger, for any callers, event descriptions and bound.      *)
(***************************************************************************)
EXTENDS Ledger, SequenceTheorems, TLAPS

\* The first i elements of s.
Prefix(s, i) == [j \in 1 .. i |-> s[j]]

-----------------------------------------------------------------------------
(* Facts about prefixes.                                                   *)

\* A prefix is a sequence of its length.
LEMMA PrefixType ==
  ASSUME NEW S, NEW s \in Seq(S), NEW i \in 0 .. Len(s)
  PROVE  /\ Prefix(s, i) \in Seq(S)
         /\ Len(Prefix(s, i)) = i
         /\ \A j \in 1 .. i : Prefix(s, i)[j] = s[j]
<1>1. /\ i \in Nat
      /\ \A j \in 1 .. i : j \in 1 .. Len(s)
  BY DEF Prefix
<1>2. Prefix(s, i) \in [1 .. i -> S]
  BY <1>1, ElementOfSeq DEF Prefix
<1>3. Prefix(s, i) \in Seq(S)
  BY <1>1, <1>2, IsASeq DEF Prefix
<1>4. Len(Prefix(s, i)) = i
  BY <1>1, <1>2, <1>3, LenProperties DEF Prefix
<1> QED
  BY <1>3, <1>4 DEF Prefix

\* Extending a prefix by one element gives the next prefix exactly when the
\* element is the one that follows.
LEMMA PrefixAppend ==
  ASSUME NEW S, NEW s \in Seq(S), NEW i \in 1 .. Len(s), NEW c \in S
  PROVE  Append(Prefix(s, i - 1), c) = Prefix(s, i) <=> c = s[i]
<1>1. /\ i \in Nat /\ i - 1 \in 0 .. Len(s) /\ i \in 0 .. Len(s)
      /\ (i - 1) + 1 = i /\ i \in 1 .. i
  OBVIOUS
<1> DEFINE p == Prefix(s, i - 1)
           q == Prefix(s, i)
<1>2. /\ p \in Seq(S) /\ Len(p) = i - 1
      /\ \A j \in 1 .. i - 1 : p[j] = s[j]
  BY <1>1, PrefixType
<1>3. /\ q \in Seq(S) /\ Len(q) = i
      /\ \A j \in 1 .. i : q[j] = s[j]
  BY <1>1, PrefixType
<1> HIDE DEF p, q
<1>4. /\ Append(p, c) \in Seq(S)
      /\ Len(Append(p, c)) = i
      /\ \A j \in 1 .. i - 1 : Append(p, c)[j] = p[j]
      /\ Append(p, c)[i] = c
  BY <1>1, <1>2, AppendProperties
<1>5. ASSUME c = s[i] PROVE Append(p, c) = q
  <2>1. \A j \in 1 .. i : Append(p, c)[j] = q[j]
    BY <1>1, <1>2, <1>3, <1>4, <1>5
  <2> QED
    BY <2>1, <1>3, <1>4, SeqEqual
<1>6. ASSUME Append(p, c) = q PROVE c = s[i]
  BY <1>1, <1>3, <1>4, <1>6
<1> QED
  BY <1>5, <1>6 DEF p, q

\* The prefix of full length is the sequence.
LEMMA PrefixFull ==
  ASSUME NEW S, NEW s \in Seq(S)
  PROVE  Prefix(s, Len(s)) = s
<1>1. Len(s) \in 0 .. Len(s)
  BY LenProperties
<1> QED
  BY <1>1, PrefixType, SeqEqual

\* Appending to a sequence leaves its prefixes alone.
LEMMA PrefixKept ==
  ASSUME NEW S, NEW s \in Seq(S), NEW c \in S, NEW i \in 0 .. Len(s)
  PROVE  Prefix(Append(s, c), i) = Prefix(s, i)
<1>1. /\ Append(s, c) \in Seq(S)
      /\ Len(Append(s, c)) = Len(s) + 1
      /\ \A j \in 1 .. Len(s) : Append(s, c)[j] = s[j]
  BY AppendProperties
<1>2. Len(s) \in Nat
  BY LenProperties
<1>3. \A j \in 1 .. i : j \in 1 .. Len(s)
  BY <1>2
<1> QED
  BY <1>1, <1>3 DEF Prefix
-----------------------------------------------------------------------------
(* The inductive invariant.                                                *)

\* Event e sits at position i of the chain: its hashes are those of the
\* contents appended, and apart from the summary so are its fields.
Linked(e, i) ==
  /\ e.sequence = i
  /\ e.type = written[i].type
  /\ e.key = written[i].key
  /\ e.previous_hash = Prefix(written, i - 1)
  /\ e.event_hash = Prefix(written, i)

\* The stored events and the retained head record exactly what was appended.
Chain ==
  /\ Len(trace.events) = Len(written)
  /\ trace.next_sequence = Len(written) + 1
  /\ head.sequence = Len(written)
  /\ head.event_count = Len(written)
  /\ head.event_hash = written
  /\ \A i \in 1 .. Len(written) : written[i].sequence = i
  /\ \A i \in 1 .. Len(written) : Linked(trace.events[i], i)

\* No snapshot is ahead of the store, and one at the stored revision is the
\* stored trace.
Current ==
  /\ phase = "absent" => holding = {} /\ written = <<>> /\ acked = {}
  /\ phase = "live" => \A w \in holding :
       /\ snap[w].revision <= trace.revision
       /\ snap[w].revision = trace.revision => snap[w] = trace

\* A recorded key has a replay record, and no two events share one.
KeysOnce ==
  /\ \A i \in 1 .. Len(trace.events) :
       trace.events[i].key # NoKey => \E r \in replays : r.key = trace.events[i].key
  /\ KeyRecordedOnce

IInv == TypeOK /\ Chain /\ Current /\ KeysOnce /\ trace.decisions = acked

-----------------------------------------------------------------------------
(* Types.                                                                  *)

\* The event append_event builds has its type, and its hash is the predecessor's
\* extended with its own content.
LEMMA NewEventType ==
  ASSUME NEW b \in Bodies, NEW n \in Nat, NEW prev \in Digest
  PROVE  /\ NewEvent(b, n, prev) \in TraceEvent
         /\ Content(NewEvent(b, n, prev)) \in ContentType
         /\ NewEvent(b, n, prev).event_hash = Append(prev, Content(NewEvent(b, n, prev)))
         /\ NewEvent(b, n, prev).sequence = n
         /\ NewEvent(b, n, prev).previous_hash = prev
         /\ NewEvent(b, n, prev).key = b.key
<1>1. /\ b.type \in EventTypes /\ b.summary \in Summaries /\ b.key \in Keys \cup {NoKey}
  BY LedgerAssumption DEF Body
<1> DEFINE c == [sequence |-> n, type |-> b.type, summary |-> b.summary, key |-> b.key]
<1>2. c \in ContentType
  BY <1>1 DEF ContentType
<1>3. Append(prev, c) \in Digest
  BY <1>2, AppendProperties DEF Digest
<1>4. NewEvent(b, n, prev) = [sequence |-> n, type |-> b.type, summary |-> b.summary,
        key |-> b.key, previous_hash |-> prev, event_hash |-> Append(prev, c)]
  BY DEF NewEvent
<1>5. Content(NewEvent(b, n, prev)) = c
  BY <1>4 DEF Content
<1> HIDE DEF c
<1>6. NewEvent(b, n, prev) \in TraceEvent
  BY <1>1, <1>3, <1>4 DEF TraceEvent
<1> QED
  BY <1>2, <1>4, <1>5, <1>6

\* What create_run and reset store has its type.
LEMMA EmptyTyped ==
  /\ EmptyTrace \in TrajectoryState
  /\ GenesisHead \in LedgerHead
  /\ GENESIS_HASH \in Digest
<1>1. <<>> \in Seq(TraceEvent) /\ <<>> \in Seq(ContentType)
  BY EmptySeq
<1> QED
  BY <1>1 DEF EmptyTrace, TrajectoryState, GenesisHead, LedgerHead, GENESIS_HASH, Digest, Statuses

\* The head append_event retains has its type.
LEMMA HeadType ==
  ASSUME NEW m \in Nat, NEW h \in Digest
  PROVE  [sequence |-> m, event_count |-> m, event_hash |-> h] \in LedgerHead
BY DEF LedgerHead

\* What any write persists: the document s at the next revision.
LEMMA PersistType ==
  ASSUME TypeOK, NEW w \in Writers, NEW s \in TrajectoryState, Persist(w, s)
  PROVE  /\ trace' \in TrajectoryState
         /\ snap' \in [Writers -> TrajectoryState]
<1>1. [s EXCEPT !.revision = @ + 1] \in TrajectoryState
  BY DEF TrajectoryState
<1> QED
  BY <1>1 DEF Persist, TypeOK

\* The document an appended event leaves behind is a trajectory state.
LEMMA ExtendedType ==
  ASSUME NEW s \in TrajectoryState, NEW b \in Bodies, NEW e \in TraceEvent,
         NEW events \in Seq(TraceEvent), NEW ds \in SUBSET Decisions
  PROVE  [s EXCEPT !.events = events, !.decisions = ds, !.next_sequence = e.sequence + 1,
                   !.status = StatusAfter(s, b)] \in TrajectoryState
<1>1. StatusAfter(s, b) \in Statuses
  BY DEF StatusAfter, Statuses, TrajectoryState
<1>2. e.sequence + 1 \in Nat
  BY DEF TraceEvent
<1> QED
  BY <1>1, <1>2 DEF TrajectoryState
-----------------------------------------------------------------------------
(* Preservation, one lemma for the steps that append an event.             *)

\* An event appended by a caller whose snapshot is current: append_event and
\* commit_transition leave the same chain behind.
LEMMA AppendKeepsIInv ==
  ASSUME IInv, phase = "live",
         NEW w \in Writers, w \in holding, NEW b \in Bodies,
         b.key # NoKey => \A r \in replays : r.key # b.key,
         NEW e \in TraceEvent, e = NewEvent(b, Len(written) + 1, written),
         NEW s \in TrajectoryState,
         s.events = Append(trace.events, e), s.decisions = trace.decisions,
         s.next_sequence = Len(written) + 2, s.revision = trace.revision,
         head' = HeadAfter(Append(trace.events, e), e),
         Persist(w, s),
         written' = Append(written, Content(e)),
         replays' = IF b.key = NoKey THEN replays ELSE replays \cup {[key |-> b.key, body |-> b]},
         phase' = phase, holding' = holding, acked' = acked
  PROVE  IInv'
<1> DEFINE n == Len(written)
           c == Content(e)
<1>1. /\ written \in Seq(ContentType) /\ n \in Nat
      /\ trace.events \in Seq(TraceEvent) /\ Len(trace.events) = n
      /\ trace.revision \in Nat
  BY LenProperties DEF IInv, TypeOK, Chain, TrajectoryState, Digest
<1>2. /\ c \in ContentType
      /\ e.event_hash = Append(written, c)
      /\ e.sequence = n + 1
      /\ e.previous_hash = written
      /\ e.key = b.key
  <2>1. n + 1 \in Nat /\ written \in Digest
    BY <1>1 DEF Digest
  <2> QED
    BY <2>1, NewEventType
<1>3. c.sequence = e.sequence /\ c.type = e.type /\ c.key = e.key
  BY DEF Content
<1> HIDE DEF c
<1>4. /\ written' \in Seq(ContentType) /\ Len(written') = n + 1
      /\ written'[n + 1] = c
      /\ \A i \in 1 .. n : written'[i] = written[i]
  BY <1>1, <1>2, AppendProperties DEF c
<1>5. /\ trace'.events \in Seq(TraceEvent) /\ Len(trace'.events) = n + 1
      /\ trace'.events[n + 1] = e
      /\ \A i \in 1 .. n : trace'.events[i] = trace.events[i]
      /\ trace'.decisions = trace.decisions
      /\ trace'.next_sequence = n + 2
      /\ trace'.revision = trace.revision + 1
      /\ snap' = [snap EXCEPT ![w] = trace']
  <2>1. /\ trace'.events = Append(trace.events, e)
        /\ trace'.decisions = trace.decisions
        /\ trace'.next_sequence = n + 2
        /\ trace'.revision = trace.revision + 1
        /\ snap' = [snap EXCEPT ![w] = trace']
    BY DEF Persist, TrajectoryState
  <2> QED
    BY <2>1, <1>1, AppendProperties
<1>6. head' = [sequence |-> n + 1, event_count |-> n + 1, event_hash |-> written']
  <2>1. Len(Append(trace.events, e)) = n + 1
    BY <1>1, AppendProperties
  <2> QED
    BY <2>1, <1>2 DEF HeadAfter, c
<1>7. TypeOK'
  <2>1. trace' \in TrajectoryState /\ snap' \in [Writers -> TrajectoryState]
    BY PersistType DEF IInv
  <2>2. head' \in LedgerHead /\ written' \in Digest
    <3>1. n + 1 \in Nat /\ written' \in Digest
      BY <1>1, <1>4 DEF Digest
    <3> QED
      BY <3>1, <1>6, HeadType
  <2>3. replays' \subseteq [key : Keys, body : Body]
    BY LedgerAssumption DEF IInv, TypeOK, Body
  <2> QED
    BY <2>1, <2>2, <2>3 DEF IInv, TypeOK
<1>8. Chain'
  <2>1. \A i \in 1 .. n + 1 : written'[i].sequence = i
    BY <1>1, <1>2, <1>3, <1>4 DEF IInv, Chain
  <2>2. ASSUME NEW i \in 1 .. n + 1
        PROVE  Linked(trace.events[i], i)'
    <3>1. CASE i = n + 1
      <4>1. Prefix(written', i - 1) = written
        BY <1>1, <1>2, <3>1, PrefixKept, PrefixFull DEF c
      <4>2. Prefix(written', i) = written'
        BY <1>4, <3>1, PrefixFull
      <4> QED
        BY <3>1, <4>1, <4>2, <1>1, <1>2, <1>3, <1>4, <1>5 DEF Linked, c
    <3>2. CASE i # n + 1
      <4>1. i \in 1 .. n /\ i \in 0 .. n /\ i - 1 \in 0 .. n
        BY <1>1, <3>2
      <4>2. /\ Prefix(written', i - 1) = Prefix(written, i - 1)
            /\ Prefix(written', i) = Prefix(written, i)
        BY <1>1, <1>2, <4>1, PrefixKept DEF c
      <4>3. Linked(trace.events[i], i)
        BY <4>1 DEF IInv, Chain
      <4> QED
        BY <4>1, <4>2, <4>3, <1>4, <1>5 DEF Linked
    <3> QED
      BY <3>1, <3>2
  <2> QED
    <3>1. \A i \in 1 .. Len(written') : written'[i].sequence = i
      BY <2>1, <1>4
    <3>2. (\A i \in 1 .. Len(written) : Linked(trace.events[i], i))'
      BY <2>2, <1>4
    <3>3. /\ Len(trace'.events) = Len(written')
          /\ trace'.next_sequence = Len(written') + 1
          /\ head'.sequence = Len(written')
          /\ head'.event_count = Len(written')
          /\ head'.event_hash = written'
      BY <1>1, <1>4, <1>5, <1>6
    <3> QED
      BY <3>1, <3>2, <3>3 DEF Chain
<1>9. Current'
  BY <1>1, <1>5 DEF IInv, Current, TypeOK, TrajectoryState
<1>10. KeysOnce'
  <2>1. \A i \in 1 .. n : trace.events[i].key # NoKey =>
          \E r \in replays : r.key = trace.events[i].key
    BY <1>1 DEF IInv, KeysOnce
  <2>2. \A i \in 1 .. n : trace.events[i].key = b.key => b.key = NoKey
    BY <2>1
  <2>3. \A i \in 1 .. n + 1 : i # n + 1 => i \in 1 .. n
    BY <1>1
  <2>4. KeyRecordedOnce'
    <3> SUFFICES ASSUME NEW i \in 1 .. n + 1, NEW j \in 1 .. n + 1,
                        trace'.events[i].key = trace'.events[j].key, i # j
                 PROVE  trace'.events[i].key = NoKey
      BY <1>5 DEF KeyRecordedOnce
    <3>1. CASE i # n + 1 /\ j # n + 1
      <4>1. i \in 1 .. Len(trace.events) /\ j \in 1 .. Len(trace.events)
        BY <3>1, <2>3, <1>1
      <4>2. trace.events[i].key = trace.events[j].key => trace.events[i].key = NoKey
        BY <4>1 DEF KeyRecordedOnce, IInv, KeysOnce
      <4> QED
        BY <4>2, <3>1, <2>3, <1>5
    <3>2. CASE i = n + 1
      <4>1. j \in 1 .. n
        BY <3>2, <2>3
      <4>2. trace'.events[i] = e /\ trace'.events[j] = trace.events[j]
        BY <3>2, <4>1, <1>5
      <4> QED
        BY <4>1, <4>2, <2>2, <1>2
    <3>3. CASE j = n + 1
      <4>1. i \in 1 .. n
        BY <3>3, <2>3
      <4>2. trace'.events[j] = e /\ trace'.events[i] = trace.events[i]
        BY <3>3, <4>1, <1>5
      <4> QED
        BY <4>1, <4>2, <2>2, <1>2
    <3> QED
      BY <3>1, <3>2, <3>3
  <2>5. ASSUME NEW i \in 1 .. n + 1, trace'.events[i].key # NoKey
        PROVE  \E r \in replays' : r.key = trace'.events[i].key
    <3>1. CASE i = n + 1
      <4>1. trace'.events[i].key = b.key
        BY <3>1, <1>2, <1>5
      <4>2. [key |-> b.key, body |-> b] \in replays'
        BY <4>1, <2>5
      <4> QED
        BY <4>1, <4>2
    <3>2. CASE i # n + 1
      BY <3>2, <2>1, <2>3, <2>5, <1>5
    <3> QED
      BY <3>1, <3>2
  <2> QED
    BY <2>4, <2>5, <1>5 DEF KeysOnce
<1> QED
  BY <1>5, <1>7, <1>8, <1>9, <1>10 DEF IInv

\* The guard of every write: a caller that passes _assert_revision holds the
\* stored trace itself.
LEMMA WriterCurrent ==
  ASSUME IInv, NEW w \in Writers, MayWrite(w)
  PROVE  snap[w] = trace /\ w \in holding /\ phase = "live"
BY DEF IInv, Current, MayWrite

\* append_event keeps the invariant.
LEMMA AppendEventStep ==
  ASSUME IInv, NEW w \in Writers, NEW b \in Bodies, AppendEvent(w, b)
  PROVE  IInv'
<1> DEFINE e == NewEvent(b, Len(written) + 1, written)
           s == [snap[w] EXCEPT !.events = Append(snap[w].events, e),
                                !.next_sequence = e.sequence + 1,
                                !.status = StatusAfter(snap[w], b)]
<1>1. /\ snap[w] = trace /\ w \in holding /\ phase = "live"
  BY WriterCurrent DEF AppendEvent
<1>2. /\ head.sequence = Len(written) /\ head.event_hash = written
      /\ trace \in TrajectoryState /\ written \in Digest
      /\ Len(written) \in Nat /\ Len(written) + 1 \in Nat
      /\ trace.events \in Seq(TraceEvent) /\ trace.decisions \in SUBSET Decisions
  BY LenProperties DEF IInv, Chain, TypeOK, Digest, TrajectoryState
<1>3. e \in TraceEvent /\ e.sequence = Len(written) + 1
  BY <1>2, NewEventType
<1>4. /\ head' = HeadAfter(Append(trace.events, e), e)
      /\ Persist(w, s)
      /\ written' = Append(written, Content(e))
  BY <1>1, <1>2 DEF AppendEvent
<1>5. /\ b.key # NoKey => \A r \in replays : r.key # b.key
      /\ replays' = IF b.key = NoKey THEN replays ELSE replays \cup {[key |-> b.key, body |-> b]}
      /\ phase' = phase /\ holding' = holding /\ acked' = acked
  BY DEF AppendEvent
<1> HIDE DEF e
<1>6. /\ s \in TrajectoryState
      /\ s.events = Append(trace.events, e)
      /\ s.decisions = trace.decisions
      /\ s.next_sequence = Len(written) + 2
      /\ s.revision = trace.revision
  <2>1. Append(trace.events, e) \in Seq(TraceEvent)
    BY <1>2, <1>3, AppendProperties
  <2>2. s = [trace EXCEPT !.events = Append(trace.events, e), !.decisions = trace.decisions,
               !.next_sequence = e.sequence + 1, !.status = StatusAfter(trace, b)]
    BY <1>1, <1>2 DEF TrajectoryState
  <2>3. [trace EXCEPT !.events = Append(trace.events, e), !.decisions = trace.decisions,
               !.next_sequence = e.sequence + 1, !.status = StatusAfter(trace, b)]
          \in TrajectoryState
    BY <2>1, <1>2, <1>3, ExtendedType
  <2>4. s \in TrajectoryState
    BY <2>2, <2>3
  <2> QED
    BY <2>4, <1>1, <1>2, <1>3 DEF TrajectoryState
<1> HIDE DEF s
<1> QED
  BY <1>1, <1>3, <1>4, <1>5, <1>6, AppendKeepsIInv DEF e

\* commit_transition keeps the invariant: the event its caller built on a
\* current snapshot is the one append_event would have built.
LEMMA CommitTransitionStep ==
  ASSUME IInv, NEW w \in Writers, NEW b \in Bodies, CommitTransition(w, b)
  PROVE  IInv'
<1> DEFINE mine == snap[w].events
           prev == IF mine = <<>> THEN GENESIS_HASH ELSE mine[Len(mine)].event_hash
           e == NewEvent(b, snap[w].next_sequence, prev)
           s == [snap[w] EXCEPT !.events = Append(trace.events, e),
                                !.decisions = trace.decisions,
                                !.next_sequence = e.sequence + 1,
                                !.status = StatusAfter(snap[w], b)]
<1>1. /\ snap[w] = trace /\ w \in holding /\ phase = "live"
  BY WriterCurrent DEF CommitTransition
<1>2. /\ head.sequence = Len(written) /\ head.event_hash = written
      /\ trace.next_sequence = Len(written) + 1
      /\ trace \in TrajectoryState /\ written \in Digest
      /\ Len(written) \in Nat /\ Len(written) + 1 \in Nat
      /\ trace.events \in Seq(TraceEvent) /\ trace.decisions \in SUBSET Decisions
  BY LenProperties DEF IInv, Chain, TypeOK, Digest, TrajectoryState
<1>3. /\ e.previous_hash = head.event_hash
      /\ head' = HeadAfter(Append(trace.events, e), e)
      /\ Persist(w, s)
      /\ written' = Append(written, Content(e))
  BY DEF CommitTransition
<1>4. prev = written
  BY <1>2, <1>3 DEF NewEvent
<1>5. e = NewEvent(b, Len(written) + 1, written)
  BY <1>1, <1>2, <1>4
<1>6. /\ b.key = NoKey /\ replays' = replays
      /\ phase' = phase /\ holding' = holding /\ acked' = acked
  BY DEF CommitTransition
<1> HIDE DEF e
<1>7. e \in TraceEvent /\ e.sequence = Len(written) + 1
  BY <1>2, <1>5, NewEventType
<1>8. /\ s \in TrajectoryState
      /\ s.events = Append(trace.events, e)
      /\ s.decisions = trace.decisions
      /\ s.next_sequence = Len(written) + 2
      /\ s.revision = trace.revision
  <2>1. Append(trace.events, e) \in Seq(TraceEvent)
    BY <1>2, <1>7, AppendProperties
  <2>2. s \in TrajectoryState
    BY <2>1, <1>1, <1>2, <1>7, ExtendedType
  <2> QED
    BY <2>2, <1>1, <1>2, <1>7 DEF TrajectoryState
<1> HIDE DEF s
<1> QED
  BY <1>1, <1>3, <1>5, <1>6, <1>7, <1>8, AppendKeepsIInv

\* append_decision keeps the invariant.
LEMMA AppendDecisionStep ==
  ASSUME IInv, NEW w \in Writers, NEW d \in Decisions, AppendDecision(w, d)
  PROVE  IInv'
<1> DEFINE s == [snap[w] EXCEPT !.decisions = @ \cup {d}]
<1>1. snap[w] = trace /\ w \in holding /\ phase = "live"
  BY WriterCurrent DEF AppendDecision
<1>2. /\ Persist(w, s) /\ acked' = acked \cup {d}
      /\ UNCHANGED <<phase, head, replays, holding, written>>
  BY DEF AppendDecision
<1>3. trace \in TrajectoryState /\ s \in TrajectoryState
  BY <1>1 DEF IInv, TypeOK, TrajectoryState
<1>4. /\ trace'.events = trace.events /\ trace'.next_sequence = trace.next_sequence
      /\ trace'.decisions = trace.decisions \cup {d}
      /\ trace'.revision = trace.revision + 1
      /\ snap' = [snap EXCEPT ![w] = trace']
  BY <1>1, <1>2, <1>3 DEF Persist, TrajectoryState
<1>5. TypeOK'
  <2>1. trace' \in TrajectoryState /\ snap' \in [Writers -> TrajectoryState]
    BY <1>2, <1>3, PersistType DEF IInv
  <2> QED
    BY <2>1, <1>2 DEF IInv, TypeOK
<1>6. Chain'
  BY <1>2, <1>4 DEF IInv, Chain, Linked
<1>7. Current'
  <2>1. phase' = "live"
    BY <1>1, <1>2
  <2>2. ASSUME NEW v \in holding
        PROVE  /\ snap'[v].revision <= trace'.revision
               /\ snap'[v].revision = trace'.revision => snap'[v] = trace'
    <3>1. v \in Writers /\ snap[v].revision \in Nat /\ trace.revision \in Nat
      BY DEF IInv, TypeOK, TrajectoryState
    <3>2. snap[v].revision <= trace.revision
      BY <1>1 DEF IInv, Current
    <3>3. snap'[v] = IF v = w THEN trace' ELSE snap[v]
      BY <3>1, <1>4 DEF IInv, TypeOK
    <3> QED
      BY <3>1, <3>2, <3>3, <1>4
  <2> QED
    BY <2>1, <2>2, <1>2 DEF Current
<1>8. KeysOnce'
  BY <1>2, <1>4 DEF IInv, KeysOnce, KeyRecordedOnce
<1> QED
  BY <1>2, <1>4, <1>5, <1>6, <1>7, <1>8 DEF IInv

\* The tamper demo leaves a trajectory state behind.
LEMMA EditedType ==
  ASSUME NEW s \in TrajectoryState, NEW events \in Seq(TraceEvent)
  PROVE  [s EXCEPT !.events = events, !.revision = s.revision + 1] \in TrajectoryState
<1>1. s.revision + 1 \in Nat
  BY DEF TrajectoryState
<1>2. ASSUME NEW S, NEW q \in [events : S, decisions : SUBSET Decisions, next_sequence : Nat,
                               revision : Nat, status : Statuses],
             NEW ev \in S, NEW r \in Nat
      PROVE  [q EXCEPT !.events = ev, !.revision = r] \in
               [events : S, decisions : SUBSET Decisions, next_sequence : Nat,
                revision : Nat, status : Statuses]
  OBVIOUS
<1> QED
  BY <1>1, <1>2 DEF TrajectoryState

\* The tamper demo keeps the invariant: it edits a summary, which no part of it
\* mentions, and the new revision makes every snapshot stale.
LEMMA TamperStep ==
  ASSUME IInv, NEW i \in 1 .. Len(trace.events), NEW text \in Summaries, Tamper(i, text)
  PROVE  IInv'
<1> DEFINE old == trace.events[i]
           edited == [old EXCEPT !.summary = text]
<1>1. /\ trace \in TrajectoryState /\ trace.events \in Seq(TraceEvent)
      /\ trace.revision \in Nat /\ old \in TraceEvent
  BY ElementOfSeq DEF IInv, TypeOK, TrajectoryState
<1>2. /\ edited \in TraceEvent
      /\ edited.sequence = old.sequence /\ edited.type = old.type /\ edited.key = old.key
      /\ edited.previous_hash = old.previous_hash /\ edited.event_hash = old.event_hash
  BY <1>1 DEF TraceEvent
<1>3. /\ phase = "live"
      /\ trace' = [trace EXCEPT !.events = [trace.events EXCEPT ![i] = edited],
                                !.revision = trace.revision + 1]
      /\ UNCHANGED <<phase, head, replays, holding, snap, written, acked>>
  BY <1>1 DEF Tamper, TrajectoryState
<1> HIDE DEF edited
<1>4. /\ [trace.events EXCEPT ![i] = edited] \in Seq(TraceEvent)
      /\ Len([trace.events EXCEPT ![i] = edited]) = Len(trace.events)
      /\ \A j \in 1 .. Len(trace.events) :
           [trace.events EXCEPT ![i] = edited][j] = IF j = i THEN edited ELSE trace.events[j]
  BY <1>1, <1>2, ExceptSeq
<1>5. /\ trace'.events = [trace.events EXCEPT ![i] = edited]
      /\ trace'.decisions = trace.decisions
      /\ trace'.next_sequence = trace.next_sequence
      /\ trace'.revision = trace.revision + 1
  BY <1>1, <1>3 DEF TrajectoryState
<1>6. ASSUME NEW j \in 1 .. Len(trace.events)
      PROVE  /\ trace'.events[j].sequence = trace.events[j].sequence
             /\ trace'.events[j].type = trace.events[j].type
             /\ trace'.events[j].key = trace.events[j].key
             /\ trace'.events[j].previous_hash = trace.events[j].previous_hash
             /\ trace'.events[j].event_hash = trace.events[j].event_hash
  BY <1>2, <1>4, <1>5
<1>7. Len(trace'.events) = Len(trace.events)
  BY <1>4, <1>5
<1>8. TypeOK'
  <2>1. trace' \in TrajectoryState
    BY <1>1, <1>3, <1>4, EditedType
  <2> QED
    BY <2>1, <1>3 DEF IInv, TypeOK
<1>9. Chain'
  <2>1. \A j \in 1 .. Len(written) : Linked(trace.events[j], j)'
    BY <1>3, <1>6 DEF IInv, Chain, Linked
  <2> QED
    BY <2>1, <1>3, <1>5, <1>7 DEF IInv, Chain, Linked
<1>10. Current'
  <2>1. ASSUME NEW v \in holding
        PROVE  snap[v].revision <= trace.revision /\ snap[v].revision \in Nat
    BY <1>3 DEF IInv, Current, TypeOK, TrajectoryState
  <2>2. ASSUME NEW v \in holding
        PROVE  snap[v].revision < trace'.revision /\ snap[v].revision # trace'.revision
    BY <2>1, <1>1, <1>5
  <2> QED
    BY <2>1, <2>2, <1>1, <1>3, <1>5 DEF Current
<1>11. KeysOnce'
  BY <1>3, <1>6, <1>7 DEF IInv, KeysOnce, KeyRecordedOnce
<1> QED
  BY <1>3, <1>5, <1>8, <1>9, <1>10, <1>11 DEF IInv

\* An empty trace against the genesis head satisfies the chain invariants.
LEMMA EmptyChain ==
  ASSUME trace = EmptyTrace, head = GenesisHead, written = <<>>
  PROVE  Chain /\ KeysOnce /\ trace.decisions = {} /\ trace.revision = 0
<1>1. trace.events = <<>> /\ Len(<<>>) = 0 /\ 1 .. 0 = {}
  BY EmptySeq DEF EmptyTrace
<1> QED
  BY <1>1 DEF EmptyTrace, GenesisHead, GENESIS_HASH, Chain, KeysOnce, KeyRecordedOnce

\* The same after a step that starts or resets the trace.
LEMMA EmptyChainNext ==
  ASSUME trace' = EmptyTrace, head' = GenesisHead, written' = <<>>
  PROVE  (Chain /\ KeysOnce /\ trace.decisions = {} /\ trace.revision = 0)'
<1>1. trace'.events = <<>> /\ Len(<<>>) = 0 /\ 1 .. 0 = {}
  BY EmptySeq DEF EmptyTrace
<1> QED
  BY <1>1 DEF EmptyTrace, GenesisHead, GENESIS_HASH, Chain, KeysOnce, KeyRecordedOnce

\* The initial state satisfies the invariant.
LEMMA InitIInv == Init => IInv
<1> SUFFICES ASSUME Init PROVE IInv
  OBVIOUS
<1>1. Chain /\ KeysOnce /\ trace.decisions = {}
  BY EmptyChain DEF Init
<1>2. TypeOK
  BY EmptyTyped DEF Init, TypeOK, GENESIS_HASH
<1> QED
  BY <1>1, <1>2 DEF IInv, Init, Current

\* create_run, load_trace and reset keep the invariant.
LEMMA LifecycleStep ==
  ASSUME IInv, (\E w \in Writers : CreateRun(w) \/ LoadTrace(w)) \/ Reset
  PROVE  IInv'
<1>1. ASSUME NEW w \in Writers, CreateRun(w) PROVE IInv'
  <2>1. written = <<>> /\ acked = {} /\ holding = {}
    BY <1>1 DEF CreateRun, IInv, Current
  <2>2. (Chain /\ KeysOnce /\ trace.decisions = {} /\ trace.revision = 0)'
    BY <1>1, <2>1, EmptyChainNext DEF CreateRun
  <2>3. TypeOK'
    BY <1>1, EmptyTyped DEF CreateRun, IInv, TypeOK
  <2>4. holding' = {w} /\ snap'[w] = trace' /\ phase' = "live"
    BY <1>1, <2>1 DEF CreateRun, IInv, TypeOK
  <2>5. Current'
    BY <2>2, <2>4 DEF Current
  <2> QED
    BY <1>1, <2>1, <2>2, <2>3, <2>5 DEF IInv, CreateRun
<1>2. ASSUME NEW w \in Writers, LoadTrace(w) PROVE IInv'
  <2>1. /\ holding' = holding \cup {w} /\ snap' = [snap EXCEPT ![w] = trace]
        /\ phase = "live"
        /\ UNCHANGED <<phase, trace, head, replays, written, acked>>
    BY <1>2 DEF LoadTrace
  <2>2. TypeOK'
    BY <2>1 DEF IInv, TypeOK
  <2>3. Chain' /\ KeysOnce'
    BY <2>1 DEF IInv, Chain, Linked, KeysOnce, KeyRecordedOnce
  <2>4. Current'
    BY <2>1 DEF IInv, Current, TypeOK, TrajectoryState
  <2> QED
    BY <2>1, <2>2, <2>3, <2>4 DEF IInv
<1>3. ASSUME Reset PROVE IInv'
  <2>1. (Chain /\ KeysOnce /\ trace.decisions = {})'
    BY <1>3, EmptyChainNext DEF Reset
  <2>2. TypeOK'
    BY <1>3, EmptyTyped DEF Reset, IInv, TypeOK, GENESIS_HASH
  <2>3. Current'
    BY <1>3 DEF Reset, Current
  <2> QED
    BY <1>3, <2>1, <2>2, <2>3 DEF IInv, Reset
<1> QED
  BY <1>1, <1>2, <1>3

\* Every step keeps the invariant.
LEMMA NextIInv == IInv /\ [Next]_vars => IInv'
<1> SUFFICES ASSUME IInv, [Next]_vars PROVE IInv'
  OBVIOUS
<1>1. ASSUME UNCHANGED vars PROVE IInv'
  BY <1>1 DEF vars, IInv, TypeOK, Chain, Linked, Current, KeysOnce, KeyRecordedOnce
<1>2. ASSUME NEW w \in Writers, NEW b \in Bodies, AppendEvent(w, b) \/ CommitTransition(w, b)
      PROVE  IInv'
  BY <1>2, AppendEventStep, CommitTransitionStep
<1>3. ASSUME NEW w \in Writers, NEW d \in Decisions, AppendDecision(w, d) PROVE IInv'
  BY <1>3, AppendDecisionStep
<1>4. ASSUME NEW i \in 1 .. Len(trace.events), NEW text \in Summaries, Tamper(i, text)
      PROVE  IInv'
  BY <1>4, TamperStep
<1>5. ASSUME (\E w \in Writers : CreateRun(w) \/ LoadTrace(w)) \/ Reset PROVE IInv'
  BY <1>5, LifecycleStep
<1> QED
  BY <1>1, <1>2, <1>3, <1>4, <1>5 DEF Next
-----------------------------------------------------------------------------
(* verify_chain on a chain.                                                *)

\* What verify_chain recomputes for position i is what was recorded exactly
\* when the content at i is the one appended.
LEMMA RecomputedHash ==
  ASSUME IInv, NEW i \in 1 .. Len(trace.events)
  PROVE  /\ trace.events[i].event_hash = Prefix(written, i)
         /\ calculate_event_hash(trace.events[i]) = Prefix(written, i) <=> i \notin Changed
<1>1. /\ written \in Seq(ContentType) /\ Len(trace.events) = Len(written)
      /\ trace.events \in Seq(TraceEvent) /\ Linked(trace.events[i], i)
      /\ i \in 1 .. Len(written) /\ written[i].sequence = i
  BY DEF IInv, TypeOK, Chain, Digest, TrajectoryState
<1>2. trace.events[i] \in TraceEvent /\ written[i] \in ContentType
  BY <1>1, ElementOfSeq
<1>3. Content(trace.events[i]) \in ContentType
  BY <1>2 DEF Content, ContentType, TraceEvent
<1>4. Content(trace.events[i]) = written[i] <=> trace.events[i].summary = written[i].summary
  BY <1>1, <1>2 DEF Content, ContentType, Linked
<1>5. Append(Prefix(written, i - 1), Content(trace.events[i])) = Prefix(written, i)
        <=> Content(trace.events[i]) = written[i]
  BY <1>1, <1>3, PrefixAppend
<1> QED
  BY <1>1, <1>4, <1>5 DEF calculate_event_hash, Changed, Linked

\* The checks of verify_chain at one event: it fails exactly at an altered
\* event and at the successor of one.
LEMMA FaultCases ==
  ASSUME IInv, NEW i \in 1 .. Len(trace.events)
  PROVE  /\ i \in BadEvents(trace.events) <=> (i \in Changed \/ i - 1 \in Changed)
         /\ (i \in Changed /\ i - 1 \notin Changed) =>
              EventFault(trace.events, i) = "EVENT_HASH_MISMATCH"
<1>1. /\ trace.events[i].sequence = i
      /\ trace.events[i].previous_hash = Prefix(written, i - 1)
      /\ Len(trace.events) = Len(written) /\ Len(trace.events) \in Nat
  BY LenProperties DEF IInv, TypeOK, Chain, Linked, Digest
<1>2. /\ trace.events[i].event_hash = Prefix(written, i)
      /\ calculate_event_hash(trace.events[i]) = Prefix(written, i) <=> i \notin Changed
  BY RecomputedHash
<1>3. ExpectedPrevious(trace.events, i) = Prefix(written, i - 1) <=> i - 1 \notin Changed
  <2>1. CASE i = 1
    <3>1. Prefix(written, 0) = <<>>
      BY DEF Prefix
    <3>2. 0 \notin Changed
      BY <1>1 DEF Changed
    <3> QED
      BY <2>1, <3>1, <3>2 DEF ExpectedPrevious, GENESIS_HASH
  <2>2. CASE i # 1
    <3>1. i - 1 \in 1 .. Len(trace.events)
      BY <2>2, <1>1
    <3>2. calculate_event_hash(trace.events[i - 1]) = Prefix(written, i - 1)
            <=> i - 1 \notin Changed
      BY <3>1, RecomputedHash
    <3> QED
      BY <2>2, <3>2 DEF ExpectedPrevious
  <2> QED
    BY <2>1, <2>2
<1>4. EventFault(trace.events, i) =
        IF i - 1 \in Changed THEN "PREVIOUS_HASH_MISMATCH"
        ELSE IF i \in Changed THEN "EVENT_HASH_MISMATCH" ELSE "NONE"
  BY <1>1, <1>2, <1>3 DEF EventFault
<1> QED
  BY <1>4 DEF BadEvents

\* The check at the retained head: it fails only if the last event is altered.
LEMMA HeadCase ==
  ASSUME IInv, Changed = {}
  PROVE  HeadFault(trace.events, head) = "NONE"
<1>1. /\ Len(trace.events) = Len(written) /\ Len(written) \in Nat
      /\ head.sequence = Len(written) /\ head.event_count = Len(written)
      /\ head.event_hash = written /\ written \in Seq(ContentType)
  BY LenProperties DEF IInv, TypeOK, Chain, Digest
<1>2. ComputedHead(trace.events) = written
  <2>1. CASE Len(written) = 0
    <3>1. written = <<>>
      BY <2>1, <1>1, EmptySeq
    <3> QED
      BY <2>1, <3>1, <1>1 DEF ComputedHead, ExpectedPrevious, GENESIS_HASH
  <2>2. CASE Len(written) # 0
    <3>1. Len(written) \in 1 .. Len(trace.events) /\ (Len(written) + 1) - 1 = Len(written)
      BY <2>2, <1>1
    <3>2. calculate_event_hash(trace.events[Len(written)]) = Prefix(written, Len(written))
      BY <3>1, RecomputedHash
    <3> QED
      BY <2>2, <3>1, <3>2, <1>1, PrefixFull DEF ComputedHead, ExpectedPrevious
  <2> QED
    BY <2>1, <2>2
<1> QED
  BY <1>1, <1>2 DEF HeadFault

\* The verifier's verdict, from the invariant.
LEMMA VerifierFromIInv == IInv => VerifierExact
<1> SUFFICES ASSUME IInv PROVE VerifierExact
  OBVIOUS
<1> DEFINE n == Len(trace.events)
<1>1. /\ n \in Nat /\ Changed \subseteq 1 .. n /\ BadEvents(trace.events) \subseteq 1 .. n
  BY LenProperties DEF IInv, TypeOK, TrajectoryState, Changed, BadEvents
<1>2. \A i \in 1 .. n : i \in BadEvents(trace.events) <=> (i \in Changed \/ i - 1 \in Changed)
  BY FaultCases
<1>3. \A i \in 1 .. n : (i \in Changed /\ i - 1 \notin Changed) =>
        EventFault(trace.events, i) = "EVENT_HASH_MISMATCH"
  BY FaultCases
<1>4. Valid(trace.events, head) <=> Changed = {}
  <2>1. ASSUME Changed = {} PROVE Valid(trace.events, head)
    BY <2>1, <1>1, <1>2, HeadCase DEF Valid
  <2>2. ASSUME Valid(trace.events, head) PROVE Changed = {}
    BY <2>2, <1>1, <1>2 DEF Valid
  <2> QED
    BY <2>1, <2>2
<1>5. ASSUME NEW i \in 1 .. n
      PROVE  FirstBad(trace.events, i) <=> (i \in Changed /\ \A j \in Changed : i <= j)
  <2>1. ASSUME FirstBad(trace.events, i) PROVE i \in Changed /\ \A j \in Changed : i <= j
    <3>1. i \in Changed
      <4>1. ASSUME i - 1 \in Changed PROVE FALSE
        <5>1. i - 1 \in 1 .. n
          BY <4>1, <1>1
        <5>2. i - 1 \in BadEvents(trace.events)
          BY <5>1, <4>1, <1>2
        <5>3. i <= i - 1
          BY <5>2, <2>1 DEF FirstBad
        <5> QED
          BY <5>3
      <4> QED
        BY <4>1, <2>1, <1>2 DEF FirstBad
    <3> QED
      BY <3>1, <2>1, <1>1, <1>2 DEF FirstBad
  <2>2. ASSUME i \in Changed, \A j \in Changed : i <= j PROVE FirstBad(trace.events, i)
    <3>1. ASSUME NEW j \in BadEvents(trace.events) PROVE i <= j
      <4>1. j \in 1 .. n /\ (j \in Changed \/ j - 1 \in Changed)
        BY <1>1, <1>2
      <4>2. i <= j \/ i <= j - 1
        BY <4>1, <2>2
      <4> QED
        BY <4>1, <4>2
    <3> QED
      BY <3>1, <2>2, <1>2 DEF FirstBad
  <2> QED
    BY <2>1, <2>2
<1>6. ASSUME NEW i \in Changed, FirstBad(trace.events, i)
      PROVE  EventFault(trace.events, i) = "EVENT_HASH_MISMATCH"
  <2>1. i \in 1 .. n
    BY <1>1
  <2>2. i - 1 \notin Changed
    BY <2>1, <1>5, <1>6
  <2> QED
    BY <2>1, <2>2, <1>3
<1> QED
  BY <1>4, <1>5, <1>6 DEF VerifierExact
-----------------------------------------------------------------------------
(* Theorems.                                                               *)

\* The inductive invariant holds in every reachable state of the store.
THEOREM Invariance == Spec => []IInv
BY InitIInv, NextIInv, PTL DEF Spec

\* Type correctness of the store, the retained head and every snapshot.
THEOREM TypeCorrect == Spec => []TypeOK
<1>1. IInv => TypeOK
  BY DEF IInv
<1> QED
  BY <1>1, Invariance, PTL

\* Optimistic concurrency is sound for any number of callers: a snapshot that
\* passes _assert_revision is the stored trace.
THEOREM RevisionCheckSound == Spec => []SnapshotCurrent
<1>1. IInv => SnapshotCurrent
  BY DEF IInv, Current, SnapshotCurrent
<1> QED
  BY <1>1, Invariance, PTL

\* No lost update: _persist_state overwrites the whole document, yet every
\* acknowledged event and decision stays in it.
THEOREM NoLostUpdate == Spec => []NothingLost
<1>1. IInv => NothingLost
  BY DEF IInv, Chain, Linked, NothingLost
<1> QED
  BY <1>1, Invariance, PTL

\* An idempotency key is recorded by at most one event.
THEOREM IdempotentAppend == Spec => []KeyRecordedOnce
<1>1. IInv => KeyRecordedOnce
  BY DEF IInv, KeysOnce
<1> QED
  BY <1>1, Invariance, PTL

\* verify_chain accepts exactly the unaltered traces and names the first
\* altered event, for chains of any length.
THEOREM VerifierCorrect == Spec => []VerifierExact
BY VerifierFromIInv, Invariance, PTL

\* A step either resets the trace, leaves the contents appended so far alone,
\* or adds one content at the end.
LEMMA WrittenGrows ==
  ASSUME IInv, [Next]_vars
  PROVE  \/ phase' = "reset"
         \/ written' = written
         \/ \E c \in ContentType : written' = Append(written, c)
<1>1. /\ head.sequence + 1 \in Nat /\ head.event_hash \in Digest
  BY DEF IInv, TypeOK, LedgerHead
<1>2. ASSUME NEW w \in Writers, NEW b \in Bodies, AppendEvent(w, b)
      PROVE  \E c \in ContentType : written' = Append(written, c)
  <2> DEFINE e == NewEvent(b, head.sequence + 1, head.event_hash)
  <2>1. written' = Append(written, Content(e))
    BY <1>2 DEF AppendEvent
  <2>2. Content(e) \in ContentType
    BY <1>1, NewEventType
  <2> QED
    BY <2>1, <2>2
<1>3. ASSUME NEW w \in Writers, NEW b \in Bodies, CommitTransition(w, b)
      PROVE  \E c \in ContentType : written' = Append(written, c)
  <2> DEFINE mine == snap[w].events
             prev == IF mine = <<>> THEN GENESIS_HASH ELSE mine[Len(mine)].event_hash
             e == NewEvent(b, snap[w].next_sequence, prev)
  <2>1. written' = Append(written, Content(e)) /\ e.previous_hash = head.event_hash
    BY <1>3 DEF CommitTransition
  <2>2. prev \in Digest
    BY <2>1, <1>1 DEF NewEvent
  <2>3. snap[w].next_sequence \in Nat
    BY DEF IInv, TypeOK, TrajectoryState
  <2>4. Content(e) \in ContentType
    BY <2>2, <2>3, NewEventType
  <2> QED
    BY <2>1, <2>4
<1> QED
  BY <1>2, <1>3 DEF Next, vars, CreateRun, LoadTrace, AppendDecision, Tamper, Reset

\* Recorded history is only extended, by any caller and in any order of calls:
\* the hashes of a recorded event never change and no event disappears.
THEOREM AppendOnly == Spec => HistoryOnlyGrows
<1> DEFINE Grows ==
      \/ phase' = "reset"
      \/ /\ Len(trace.events) <= Len(trace'.events)
         /\ \A i \in 1 .. Len(trace.events) :
              /\ trace'.events[i].event_hash = trace.events[i].event_hash
              /\ trace'.events[i].previous_hash = trace.events[i].previous_hash
<1>1. ASSUME IInv, IInv', [Next]_vars PROVE Grows
  <2> SUFFICES ASSUME phase' # "reset" PROVE Grows
    OBVIOUS
  <2> DEFINE n == Len(written)
  <2>1. /\ written \in Seq(ContentType) /\ n \in Nat /\ Len(trace.events) = n
        /\ \A i \in 1 .. n : /\ trace.events[i].event_hash = Prefix(written, i)
                             /\ trace.events[i].previous_hash = Prefix(written, i - 1)
    BY <1>1, LenProperties DEF IInv, TypeOK, Chain, Linked, Digest
  <2>2. /\ Len(trace'.events) = Len(written')
        /\ \A i \in 1 .. Len(written') :
             /\ trace'.events[i].event_hash = Prefix(written', i)
             /\ trace'.events[i].previous_hash = Prefix(written', i - 1)
    BY <1>1 DEF IInv, Chain, Linked
  <2>3. CASE written' = written
    BY <2>1, <2>2, <2>3
  <2>4. ASSUME NEW c \in ContentType, written' = Append(written, c) PROVE Grows
    <3>1. Len(written') = n + 1
      BY <2>1, <2>4, AppendProperties
    <3>2. ASSUME NEW i \in 1 .. n
          PROVE  /\ i \in 1 .. Len(written')
                 /\ Prefix(written', i) = Prefix(written, i)
                 /\ Prefix(written', i - 1) = Prefix(written, i - 1)
      <4>1. i \in 0 .. n /\ i - 1 \in 0 .. n /\ i \in 1 .. n + 1
        BY <2>1
      <4> QED
        BY <4>1, <3>1, <2>1, <2>4, PrefixKept
    <3> QED
      BY <3>1, <3>2, <2>1, <2>2
  <2> QED
    BY <1>1, <2>3, <2>4, WrittenGrows
<1>2. IInv /\ IInv' /\ [Next]_vars => [Grows]_vars
  BY <1>1
<1> QED
  BY <1>2, Invariance, PTL DEF Spec, HistoryOnlyGrows
=============================================================================
