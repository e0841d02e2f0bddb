-------------------------- MODULE RepositoryProofs --------------------------
(***************************************************************************)
(* Proofs about Repository, for any number of processes, traces, events,    *)
(* revisions, lost answers, resets and any batch size.                      *)
(***************************************************************************)
EXTENDS Repository, FiniteSetTheorems, TLAPS

-----------------------------------------------------------------------------
(* Types.                                                                  *)

KeyType ==
  [trace : Traces, n : Nat,
   kind : {"APPROVAL", "DECISION", "EVENT", "HEAD", "META", "POINTER", "NS_APPROVAL", "NS_TRACE"}]

MetaRecord == [rev : Nat, next : Nat, asked : BOOLEAN, done : BOOLEAN]

EventRecord == [by : Procs, clean : BOOLEAN]

EventMap == UNION {[S -> EventRecord] : S \in SUBSET Nat}

StateRecord ==
  [trace : Traces \cup {0}, rev : Nat, next : Nat, asked : BOOLEAN, done : BOOLEAN,
   events : EventMap, decisions : SUBSET Nat]

ProcRecord ==
  [pc : {"idle", "ready", "loadEvents", "loadDecisions", "append", "replace", "verify",
         "verdict", "tamper", "reset"},
   state : StateRecord, read : Nat, since : Nat, valid : BOOLEAN, traces : SUBSET Traces,
   todo : SUBSET KeyType, batch : SUBSET KeyType]

\* The items of table tb have the types of their kinds.
Typed(tb) ==
  /\ DOMAIN tb \subseteq KeyType
  /\ \A t \in Traces :
       /\ Meta(t) \in DOMAIN tb => tb[Meta(t)] \in MetaRecord
       /\ Head(t) \in DOMAIN tb => tb[Head(t)] \in 0..MaxEvents
       /\ \A k \in ApprovalCopies(t) \cap DOMAIN tb : tb[k] \in Nat
       /\ \A n : Event(t, n) \in DOMAIN tb => tb[Event(t, n)] \in EventRecord

-----------------------------------------------------------------------------
(* The inductive invariant, with its parts as operators on a table tb.      *)

\* The copies of the approval of t that are present have one version.
Agreed(tb, t) == \A j, k \in ApprovalCopies(t) \cap DOMAIN tb : tb[j] = tb[k]

\* Trace t as long as no reset has touched it.
Whole(tb, t) ==
  /\ Meta(t) \in DOMAIN tb <=> NsTrace(t) \in DOMAIN tb
  /\ Meta(t) \in DOMAIN tb <=> Head(t) \in DOMAIN tb
  /\ Meta(t) \notin DOMAIN tb =>
       \A n : Event(t, n) \notin DOMAIN tb /\ Decision(t, n) \notin DOMAIN tb
  /\ Meta(t) \in DOMAIN tb =>
       /\ tb[Meta(t)].next = tb[Head(t)] + 1
       /\ \A n : Event(t, n) \in DOMAIN tb <=> n \in 1..tb[Head(t)]

\* ... and the copies of its approval.
Together(tb, t) ==
  ApprovalCopies(t) \cap DOMAIN tb = {} \/ ApprovalCopies(t) \subseteq DOMAIN tb

Current(s, tb) == s.rev = tb[Meta(s.trace)].rev

SameEvents(s, tb) ==
  /\ \A n : n \in DOMAIN s.events <=> Event(s.trace, n) \in DOMAIN tb
  /\ \A n \in DOMAIN s.events : s.events[n].by = tb[Event(s.trace, n)].by

SameDecisions(s, tb) == \A n : n \in s.decisions <=> Decision(s.trace, n) \in DOMAIN tb

\* A held state is behind the stored one, or is the stored one as far as it was read.
Holds(r, tb) ==
  LET s == r.state
  IN  /\ Meta(s.trace) \in DOMAIN tb /\ s.rev <= tb[Meta(s.trace)].rev
      /\ Current(s, tb) => MetaOf(s) = tb[Meta(s.trace)]
      /\ r.pc \in {"loadDecisions", "ready", "append"} /\ Current(s, tb) => SameEvents(s, tb)
      /\ r.pc \in {"ready", "append"} /\ Current(s, tb) => SameDecisions(s, tb)

\* The events a verification read are the whole chain, unless META has moved since.
Verifies(r, tb) ==
  LET t == r.state.trace
      events == r.state.events
  IN  /\ Meta(t) \notin DOMAIN tb => r.since = 0 /\ DOMAIN events = {}
      /\ Meta(t) \in DOMAIN tb =>
           /\ r.since <= tb[Meta(t)].rev
           /\ r.since = tb[Meta(t)].rev => DOMAIN events = 1..tb[Head(t)]

\* What a process with local variables r knows of a trace no reset has touched.
Knows(r, tb) ==
  LET s == r.state
  IN  /\ r.pc \in {"loadEvents", "loadDecisions", "ready", "append", "tamper"} => Holds(r, tb)
      /\ r.pc = "tamper" => /\ Event(s.trace, r.read) \in DOMAIN tb
                            /\ s.events[r.read].by = tb[Event(s.trace, r.read)].by
      /\ r.pc = "verify" => Verifies(r, tb)
      /\ r.pc = "verdict" /\ ~r.valid /\ (\A n \in DOMAIN s.events : s.events[n].clean) =>
           Meta(s.trace) \in DOMAIN tb /\ tb[Meta(s.trace)].rev > r.since

\* What a process's local variables say on their own.
Local(r) ==
  LET s == r.state
  IN  /\ r.pc \notin {"idle", "reset"} => s.trace \in Traces
      /\ r.pc = "append" => s.next = r.read + 1
      /\ r.pc = "tamper" => r.read \in DOMAIN s.events
      /\ r.pc = "verdict" /\ r.valid =>
           /\ \A n \in DOMAIN s.events : s.events[n].clean
           /\ \E head \in 0..MaxEvents : DOMAIN s.events = 1..head

AckedIn(tb, c, acks) ==
  \A a \in acks : a[2] \notin c => Event(a[2], a[3]) \in DOMAIN tb /\ tb[Event(a[2], a[3])].by = a[1]

IInv ==
  /\ Typed(table) /\ proc \in [Procs -> ProcRecord] /\ acked \subseteq Procs \X Traces \X Nat
  /\ \A t \in Traces : Agreed(table, t) /\ (t \notin cut => Whole(table, t) /\ Together(table, t))
  /\ \A p \in Procs : Local(proc[p]) /\ (proc[p].state.trace \notin cut => Knows(proc[p], table))
  /\ AckedIn(table, cut, acked)

-----------------------------------------------------------------------------
(* Keys, items and maps.                                                   *)

\* A key is determined by its fields, and each is read back from it.
LEMMA KeyFields ==
  ASSUME NEW t, NEW kind, NEW n
  PROVE  /\ Key(t, kind, n).trace = t /\ Key(t, kind, n).kind = kind /\ Key(t, kind, n).n = n
         /\ \A u, l, m : Key(t, kind, n) = Key(u, l, m) => t = u /\ kind = l /\ n = m
BY DEF Key

\* Every key of the table is the key of its fields.
LEMMA KeyOfFields ==
  ASSUME NEW k \in KeyType
  PROVE  k = Key(k.trace, k.kind, k.n)
BY DEF KeyType, Key

\* A write replaces the items it holds and leaves the others.
LEMMA Overwrite ==
  ASSUME NEW f, NEW g
  PROVE  /\ DOMAIN (f ++ g) = DOMAIN f \cup DOMAIN g
         /\ \A k \in DOMAIN f : (f ++ g)[k] = f[k]
         /\ \A k \in DOMAIN g \ DOMAIN f : (f ++ g)[k] = g[k]
BY DEF ++

\* One item.
LEMMA OneItem ==
  ASSUME NEW k, NEW v
  PROVE  DOMAIN Item(k, v) = {k} /\ Item(k, v)[k] = v
BY DEF Item

\* Events are maps from sequences to event records.
LEMMA EventMaps ==
  /\ <<>> \in EventMap
  /\ \A f \in EventMap : /\ DOMAIN f \subseteq Nat
                         /\ \A n \in DOMAIN f : f[n] \in EventRecord
  /\ \A f \in EventMap, n \in Nat, e \in EventRecord : Item(n, e) ++ f \in EventMap
<1>1. ASSUME NEW f, DOMAIN f \in SUBSET Nat, f \in [DOMAIN f -> EventRecord]
      PROVE  f \in EventMap
  BY <1>1 DEF EventMap
<1>2. <<>> \in EventMap
  <2>1. DOMAIN <<>> = {} /\ <<>> \in [DOMAIN <<>> -> EventRecord]
    OBVIOUS
  <2> QED
    BY <1>1, <2>1
<1>3. ASSUME NEW f \in EventMap
      PROVE  DOMAIN f \subseteq Nat /\ f \in [DOMAIN f -> EventRecord]
  BY DEF EventMap
<1>4. ASSUME NEW f \in EventMap, NEW n \in Nat, NEW e \in EventRecord
      PROVE  Item(n, e) ++ f \in EventMap
  <2> DEFINE g == Item(n, e) ++ f
  <2>1. DOMAIN g \in SUBSET Nat
    BY <1>3 DEF Item, ++
  <2>2. g \in [DOMAIN g -> EventRecord]
    BY <1>3 DEF Item, ++
  <2> HIDE DEF g
  <2>3. g \in EventMap
    BY <1>1, <2>1, <2>2
  <2> QED
    BY <2>3 DEF g
<1> QED
  BY <1>2, <1>3, <1>4

\* get_events and get_decisions read what is in the table.
LEMMA QueriesRead ==
  ASSUME Typed(table), NEW t \in Traces
  PROVE  /\ \A n : n \in DOMAIN EventsOf(t) <=> Event(t, n) \in DOMAIN table
         /\ \A n \in DOMAIN EventsOf(t) : EventsOf(t)[n] = table[Event(t, n)]
         /\ \A n : n \in DecisionsOf(t) <=> Decision(t, n) \in DOMAIN table
         /\ EventsOf(t) \in EventMap /\ DecisionsOf(t) \subseteq Nat
<1>1. \A k \in DOMAIN table : k \in KeyType /\ k = Key(k.trace, k.kind, k.n) /\ k.n \in Nat
  BY KeyOfFields DEF Typed, KeyType
<1>2. ASSUME NEW n, NEW kind
      PROVE  n \in {k.n : k \in Query(t, {kind})} <=> Key(t, kind, n) \in DOMAIN table
  BY <1>1, KeyFields DEF Query
<1>3. \A n : n \in DOMAIN EventsOf(t) <=> Event(t, n) \in DOMAIN table
  BY <1>2 DEF EventsOf, Event
<1>4. \A n \in DOMAIN EventsOf(t) : EventsOf(t)[n] = table[Event(t, n)]
  BY DEF EventsOf
<1>5. \A n : n \in DecisionsOf(t) <=> Decision(t, n) \in DOMAIN table
  BY <1>2 DEF DecisionsOf, Decision
<1>6. DOMAIN EventsOf(t) \subseteq Nat /\ DecisionsOf(t) \subseteq Nat
  BY <1>1 DEF EventsOf, DecisionsOf, Query
<1>7. EventsOf(t) \in [DOMAIN EventsOf(t) -> EventRecord]
  <2>1. \A n \in DOMAIN EventsOf(t) : table[Event(t, n)] \in EventRecord
    BY <1>3 DEF Typed
  <2> QED
    BY <2>1 DEF EventsOf
<1>8. EventsOf(t) \in EventMap
  BY <1>6, <1>7 DEF EventMap
<1> QED
  BY <1>3, <1>4, <1>5, <1>6, <1>8

\* The fields of the local variables have their types.
LEMMA ProcFields ==
  ASSUME NEW r \in ProcRecord
  PROVE  /\ r.state \in StateRecord /\ r.read \in Nat /\ r.since \in Nat
         /\ r.state.rev \in Nat /\ r.state.next \in Nat /\ r.state.events \in EventMap
         /\ r.state.trace \in Traces \cup {0} /\ r.state.decisions \subseteq Nat
         /\ MetaOf(r.state) \in MetaRecord
BY DEF ProcRecord, StateRecord, MetaOf, MetaRecord

\* A process without a request knows nothing.
LEMMA IdleKnows ==
  /\ Idle \in ProcRecord /\ Local(Idle) /\ \A tb : Knows(Idle, tb)
<1>1. NewState(0) \in StateRecord
  BY EventMaps DEF NewState, StateRecord
<1>2. Idle \in ProcRecord
  BY <1>1 DEF Idle, ProcRecord
<1>3. Idle.pc = "idle"
  BY DEF Idle
<1> QED
  BY <1>2, <1>3 DEF Local, Knows

-----------------------------------------------------------------------------
(* What a write to a trace does to what others know of it.                  *)

\* Table tc has of trace t what tb has, but for marks of tampering and approvals.
Same(tb, tc, t) ==
  /\ \A k \in {Meta(t), Head(t), NsTrace(t)} :
       /\ k \in DOMAIN tb <=> k \in DOMAIN tc
       /\ k \in DOMAIN tb => tc[k] = tb[k]
  /\ \A n : Decision(t, n) \in DOMAIN tb <=> Decision(t, n) \in DOMAIN tc
  /\ \A n : /\ Event(t, n) \in DOMAIN tb <=> Event(t, n) \in DOMAIN tc
            /\ Event(t, n) \in DOMAIN tb => tc[Event(t, n)].by = tb[Event(t, n)].by

\* Table tc has a later revision of trace t, or its first, and keeps its events.
Grown(tb, tc, t) ==
  /\ Meta(t) \in DOMAIN tc
  /\ IF Meta(t) \in DOMAIN tb THEN tc[Meta(t)].rev > tb[Meta(t)].rev
     ELSE tc[Meta(t)].rev = 0 /\ tc[Head(t)] = 0
  /\ \A n : Event(t, n) \in DOMAIN tb =>
       Event(t, n) \in DOMAIN tc /\ tc[Event(t, n)].by = tb[Event(t, n)].by

\* Tables tb and tc differ only in items of trace t.
Confined(tb, tc, t) ==
  \A k : k.trace # t => /\ k \in DOMAIN tb <=> k \in DOMAIN tc
                        /\ k \in DOMAIN tb => tc[k] = tb[k]

\* A trace that is the same is as whole, and known as well.
LEMMA SameKept ==
  ASSUME NEW tb, NEW tc, NEW t, Same(tb, tc, t), Whole(tb, t)
  PROVE  /\ Whole(tc, t)
         /\ \A r : r.state.trace = t /\ Knows(r, tb) => Knows(r, tc)
<1>1. Whole(tc, t)
  BY DEF Same, Whole
<1>2. ASSUME NEW r, r.state.trace = t, Knows(r, tb) PROVE Knows(r, tc)
  <2>1. Holds(r, tb) => Holds(r, tc)
    BY <1>2 DEF Holds, Same, Current, SameEvents, SameDecisions
  <2>2. Verifies(r, tb) => Verifies(r, tc)
    BY <1>2 DEF Verifies, Same, Whole
  <2> QED
    BY <1>2, <2>1, <2>2 DEF Knows, Same
<1> QED
  BY <1>1, <1>2

\* What is known of a trace stays true when the trace grows.
LEMMA GrownKept ==
  ASSUME NEW tb, NEW tc, NEW t \in Traces, Typed(tb), Typed(tc), Grown(tb, tc, t),
         NEW r \in ProcRecord, r.state.trace = t, Knows(r, tb)
  PROVE  Knows(r, tc)
<1>1. /\ Meta(t) \in DOMAIN tb => tb[Meta(t)].rev \in Nat
      /\ tc[Meta(t)].rev \in Nat /\ r.state.rev \in Nat /\ r.since \in Nat
  BY ProcFields DEF Typed, MetaRecord, Grown
<1>2. Holds(r, tb) => Holds(r, tc)
  BY <1>1 DEF Holds, Grown, Current
<1>3. ASSUME Verifies(r, tb) PROVE Verifies(r, tc)
  <2>1. Meta(t) \in DOMAIN tc
    BY DEF Grown
  <2>2. CASE Meta(t) \in DOMAIN tb
    BY <1>1, <1>3, <2>1, <2>2 DEF Verifies, Grown
  <2>3. CASE Meta(t) \notin DOMAIN tb
    <3>1. r.since = 0 /\ DOMAIN r.state.events = {} /\ tc[Meta(t)].rev = 0 /\ tc[Head(t)] = 0
      BY <1>3, <2>3 DEF Verifies, Grown
    <3>2. 1..0 = {}
      OBVIOUS
    <3> QED
      BY <2>1, <3>1, <3>2 DEF Verifies
  <2> QED
    BY <2>2, <2>3
<1>4. ASSUME Meta(t) \in DOMAIN tb, tb[Meta(t)].rev > r.since PROVE tc[Meta(t)].rev > r.since
  BY <1>1, <1>4 DEF Grown
<1> QED
  BY <1>2, <1>3, <1>4 DEF Knows, Grown

\* A write confined to one trace leaves the others as they are.
LEMMA ConfinedKept ==
  ASSUME NEW tb, NEW tc, NEW t, Confined(tb, tc, t), NEW u, u # t
  PROVE  /\ Same(tb, tc, u)
         /\ Agreed(tb, u) => Agreed(tc, u)
         /\ Together(tb, u) => Together(tc, u)
<1>1. ASSUME NEW kind, NEW n
      PROVE  /\ Key(u, kind, n) \in DOMAIN tb <=> Key(u, kind, n) \in DOMAIN tc
             /\ Key(u, kind, n) \in DOMAIN tb => tc[Key(u, kind, n)] = tb[Key(u, kind, n)]
  BY KeyFields DEF Confined
<1>2. Same(tb, tc, u)
  BY <1>1 DEF Same, Meta, Head, NsTrace, Decision, Event
<1>3. \A k \in ApprovalCopies(u) : /\ k \in DOMAIN tb <=> k \in DOMAIN tc
                                   /\ k \in DOMAIN tb => tc[k] = tb[k]
  BY <1>1 DEF ApprovalCopies, Approval, Pointer, NsApproval
<1>4. Agreed(tb, u) => Agreed(tc, u)
  BY <1>3 DEF Agreed
<1>5. Together(tb, u) => Together(tc, u)
  BY <1>3 DEF Together
<1> QED
  BY <1>2, <1>4, <1>5

-----------------------------------------------------------------------------
(* The initial state, and the three ways of a step.                        *)

\* Of an empty table nothing is claimed that is not there.
LEMMA InitIInv == Init => IInv
<1> SUFFICES ASSUME Init PROVE IInv
  OBVIOUS
<1>1. DOMAIN table = {} /\ acked = {} /\ proc = [p \in Procs |-> Idle]
  BY DEF Init
<1>2. Typed(table)
  BY <1>1 DEF Typed
<1>3. \A t \in Traces : Agreed(table, t) /\ Whole(table, t) /\ Together(table, t)
  BY <1>1 DEF Agreed, Whole, Together
<1>4. AckedIn(table, cut, acked)
  BY <1>1 DEF AckedIn
<1> QED
  BY <1>1, <1>2, <1>3, <1>4, IdleKnows DEF IInv

\* A step that leaves the items alone changes what one process knows.
LEMMA ReadStep ==
  ASSUME IInv, NEW p \in Procs, NEW new \in ProcRecord, Becomes(p, new),
         UNCHANGED <<table, cut, acked>>, Local(new),
         new.state.trace \notin cut => Knows(new, table)
  PROVE  IInv'
<1>1. proc' \in [Procs -> ProcRecord] /\ \A q \in Procs : proc'[q] = IF q = p THEN new ELSE proc[q]
  BY DEF IInv, Becomes
<1> QED
  BY <1>1 DEF IInv

\* A write of trace t: others know a trace that is the same or has grown.
LEMMA WriteStep ==
  ASSUME IInv, NEW p \in Procs, NEW t \in Traces, NEW new \in ProcRecord, Becomes(p, new),
         cut' = cut, Typed(table'), Confined(table, table', t), Agreed(table', t),
         t \notin cut => /\ Whole(table', t) /\ Together(table', t)
                         /\ Same(table, table', t) \/ Grown(table, table', t),
         Local(new), new.state.trace \notin cut => Knows(new, table'),
         \A a \in acked' :
           \/ a \in acked
           \/ /\ a \in Procs \X Traces \X Nat /\ a[2] = t /\ Event(t, a[3]) \in DOMAIN table'
              /\ table'[Event(t, a[3])].by = a[1]
  PROVE  IInv'
<1>1. proc' \in [Procs -> ProcRecord] /\ \A q \in Procs : proc'[q] = IF q = p THEN new ELSE proc[q]
  BY DEF IInv, Becomes
<1>2. \A u \in Traces : u # t => Same(table, table', u)
  BY ConfinedKept
<1>3. ASSUME NEW u \in Traces
      PROVE  Agreed(table', u) /\ (u \notin cut => Whole(table', u) /\ Together(table', u))
  <2>1. CASE u = t
    BY <2>1
  <2>2. CASE u # t
    BY <2>2, ConfinedKept, SameKept DEF IInv
  <2> QED
    BY <2>1, <2>2
<1>4. ASSUME NEW q \in Procs, q # p
      PROVE  Local(proc[q]) /\ (proc[q].state.trace \notin cut => Knows(proc[q], table'))
  <2> DEFINE r == proc[q]
  <2>1. r \in ProcRecord /\ Local(r) /\ (r.state.trace \notin cut => Knows(r, table))
    BY DEF IInv
  <2> SUFFICES ASSUME r.state.trace \notin cut PROVE Knows(r, table')
    BY <2>1
  <2>2. CASE r.state.trace \notin Traces
    BY <2>1, <2>2 DEF Local, Knows
  <2>3. CASE r.state.trace \in Traces
    <3>1. CASE Same(table, table', r.state.trace)
      <4>1. Whole(table, r.state.trace)
        BY <2>3 DEF IInv
      <4> QED
        BY <2>1, <3>1, <4>1, SameKept
    <3>2. CASE r.state.trace = t /\ Grown(table, table', t)
      BY <2>1, <3>2, GrownKept DEF IInv
    <3> QED
      BY <1>2, <2>3, <3>1, <3>2
  <2> QED
    BY <2>2, <2>3
<1>5. ASSUME NEW a \in acked', a[2] \notin cut
      PROVE  /\ a \in Procs \X Traces \X Nat
             /\ Event(a[2], a[3]) \in DOMAIN table' /\ table'[Event(a[2], a[3])].by = a[1]
  <2>1. CASE a \notin acked
    BY <2>1
  <2>2. CASE a \in acked
    <3>1. /\ a \in Procs \X Traces \X Nat /\ a[2] \in Traces
          /\ Event(a[2], a[3]) \in DOMAIN table /\ table[Event(a[2], a[3])].by = a[1]
      BY <1>5, <2>2 DEF IInv, AckedIn
    <3>2. CASE Same(table, table', a[2])
      BY <3>1, <3>2 DEF Same
    <3>3. CASE a[2] = t /\ Grown(table, table', t)
      BY <3>1, <3>3 DEF Grown
    <3> QED
      BY <1>2, <1>5, <3>1, <3>2, <3>3
  <2> QED
    BY <2>1, <2>2
<1>6. acked' \subseteq Procs \X Traces \X Nat
  BY DEF IInv
<1>7. AckedIn(table', cut', acked')
  BY <1>5 DEF AckedIn
<1> QED
  BY <1>1, <1>3, <1>4, <1>6, <1>7 DEF IInv

-----------------------------------------------------------------------------
(* Reads.                                                                  *)

\* The invariant as process p sees it.
LEMMA Known ==
  ASSUME IInv, NEW p \in Procs
  PROVE  /\ Typed(table) /\ proc[p] \in ProcRecord /\ Local(proc[p])
         /\ Trace(p) \notin cut => Knows(proc[p], table)
         /\ \A t \in Traces \ cut : Whole(table, t)
BY DEF IInv, Trace

\* load_trace's first read: META as it is stored.
LEMMA LoadMetaStep ==
  ASSUME IInv, NEW p \in Procs, NEW t \in Traces, LoadMeta(p, t)
  PROVE  IInv'
<1> DEFINE m == table[Meta(t)]
           s == DecodeState(t, m)
           new == [Idle EXCEPT !.pc = "loadEvents", !.state = s]
<1>1. Meta(t) \in DOMAIN table /\ m \in MetaRecord
  BY Known DEF LoadMeta, Has, Typed
<1>2. s \in StateRecord /\ s.trace = t /\ s.rev = m.rev /\ MetaOf(s) = m
  BY <1>1, EventMaps DEF DecodeState, NewState, StateRecord, MetaRecord, MetaOf
<1> HIDE DEF s, m
<1>3. new \in ProcRecord /\ new.pc = "loadEvents" /\ new.state = s
  BY <1>2, IdleKnows DEF Idle, ProcRecord
<1>4. Becomes(p, new) /\ UNCHANGED <<table, cut, acked>>
  BY DEF LoadMeta, Reads, history, s, m
<1> HIDE DEF new
<1>5. m.rev \in Nat
  BY <1>1 DEF MetaRecord
<1>6. Knows(new, table)
  BY <1>1, <1>2, <1>3, <1>5 DEF Knows, Holds, Current, m
<1>7. Local(new)
  BY <1>2, <1>3 DEF Local
<1> QED
  BY <1>3, <1>4, <1>6, <1>7, ReadStep

\* load_trace's second read: if META has not moved, these are the trace's events.
LEMMA LoadEventsStep ==
  ASSUME IInv, NEW p \in Procs, LoadEvents(p)
  PROVE  IInv'
<1> DEFINE r == proc[p]
           t == Trace(p)
           new == [r EXCEPT !.pc = "loadDecisions", !.state.events = EventsOf(t)]
<1>1. /\ r \in ProcRecord /\ r.pc = "loadEvents" /\ t \in Traces /\ Typed(table)
      /\ t \notin cut => Holds(r, table)
  BY Known DEF LoadEvents, At, Local, Knows, Trace
<1>2. /\ EventsOf(t) \in EventMap
      /\ \A n : n \in DOMAIN EventsOf(t) <=> Event(t, n) \in DOMAIN table
      /\ \A n \in DOMAIN EventsOf(t) : EventsOf(t)[n] = table[Event(t, n)]
  BY <1>1, QueriesRead
<1>3. /\ new \in ProcRecord /\ new.pc = "loadDecisions" /\ new.state.trace = t
      /\ new.state.rev = r.state.rev /\ MetaOf(new.state) = MetaOf(r.state)
      /\ new.state.events = EventsOf(t)
  BY <1>1, <1>2 DEF ProcRecord, StateRecord, Trace, MetaOf
<1>4. Becomes(p, new) /\ UNCHANGED <<table, cut, acked>>
  BY DEF LoadEvents, Reads, history
<1> HIDE DEF new
<1>5. t \notin cut => Knows(new, table)
  BY <1>1, <1>2, <1>3 DEF Knows, Holds, Current, SameEvents, Trace
<1>6. Local(new)
  BY <1>1, <1>3 DEF Local
<1> QED
  BY <1>3, <1>4, <1>5, <1>6, ReadStep

\* load_trace's third read, of the decisions.
LEMMA LoadDecisionsStep ==
  ASSUME IInv, NEW p \in Procs, LoadDecisions(p)
  PROVE  IInv'
<1> DEFINE r == proc[p]
           t == Trace(p)
           new == [r EXCEPT !.pc = "ready", !.state.decisions = DecisionsOf(t)]
<1>1. /\ r \in ProcRecord /\ r.pc = "loadDecisions" /\ t \in Traces /\ Typed(table)
      /\ t \notin cut => Holds(r, table)
  BY Known DEF LoadDecisions, At, Local, Knows, Trace
<1>2. /\ DecisionsOf(t) \subseteq Nat
      /\ \A n : n \in DecisionsOf(t) <=> Decision(t, n) \in DOMAIN table
  BY <1>1, QueriesRead
<1>3. /\ new \in ProcRecord /\ new.pc = "ready" /\ new.state.trace = t
      /\ new.state.rev = r.state.rev /\ MetaOf(new.state) = MetaOf(r.state)
      /\ new.state.events = r.state.events /\ new.state.decisions = DecisionsOf(t)
  BY <1>1, <1>2 DEF ProcRecord, StateRecord, Trace, MetaOf
<1>4. Becomes(p, new) /\ UNCHANGED <<table, cut, acked>>
  BY DEF LoadDecisions, Reads, history
<1> HIDE DEF new
<1>5. t \notin cut => Knows(new, table)
  BY <1>1, <1>2, <1>3 DEF Knows, Holds, Current, SameEvents, SameDecisions, Trace
<1>6. Local(new)
  BY <1>1, <1>3 DEF Local
<1> QED
  BY <1>3, <1>4, <1>5, <1>6, ReadStep

\* A handler that returns, or a process that crashes, forgets.
LEMMA LeaveStep ==
  ASSUME IInv, NEW p \in Procs, Leave(p)
  PROVE  IInv'
BY IdleKnows, ReadStep DEF Leave, Reads, history

\* append_event reads HEAD and checks the sequence.
LEMMA ReadHeadStep ==
  ASSUME IInv, NEW p \in Procs, ReadHead(p)
  PROVE  IInv'
<1> DEFINE r == proc[p]
           t == Trace(p)
           head == table[Head(t)]
           new == [r EXCEPT !.pc = "append", !.read = head]
<1>1. /\ r \in ProcRecord /\ r.pc = "ready" /\ t \in Traces /\ Typed(table)
      /\ t \notin cut => Holds(r, table)
  BY Known DEF ReadHead, At, Local, Knows, Trace
<1>2. head \in Nat /\ r.state.next = head + 1
  BY <1>1 DEF ReadHead, Has, Typed, Held
<1>3. /\ new \in ProcRecord /\ new.pc = "append" /\ new.state = r.state /\ new.read = head
  BY <1>1, <1>2 DEF ProcRecord
<1>4. Becomes(p, new) /\ UNCHANGED <<table, cut, acked>>
  BY DEF ReadHead, Reads, history
<1> HIDE DEF new
<1>5. t \notin cut => Knows(new, table)
  BY <1>1, <1>3 DEF Knows, Holds
<1>6. Local(new)
  BY <1>1, <1>2, <1>3 DEF Local, Trace
<1> QED
  BY <1>3, <1>4, <1>5, <1>6, ReadStep DEF Trace

\* replace_approval reads the pointer's copy.
LEMMA ReadApprovalStep ==
  ASSUME IInv, NEW p \in Procs, NEW t \in Traces, ReadApproval(p, t)
  PROVE  IInv'
<1> DEFINE v == table[Pointer(t)]
           new == [Idle EXCEPT !.pc = "replace", !.state.trace = t, !.read = v]
<1>1. v \in Nat
  BY Known DEF ReadApproval, Has, Typed, ApprovalCopies
<1>2. new \in ProcRecord /\ new.pc = "replace" /\ new.state.trace = t
  BY <1>1, IdleKnows DEF ProcRecord, StateRecord
<1>3. Becomes(p, new) /\ UNCHANGED <<table, cut, acked>>
  BY DEF ReadApproval, Reads, history
<1> HIDE DEF new
<1>4. Knows(new, table) /\ Local(new)
  BY <1>2 DEF Knows, Local
<1> QED
  BY <1>2, <1>3, <1>4, ReadStep

\* verify_trace reads the events of the revision that is stored.
LEMMA VerifyEventsStep ==
  ASSUME IInv, NEW p \in Procs, NEW t \in Traces, VerifyEvents(p, t)
  PROVE  IInv'
<1> DEFINE rev == IF Has(Meta(t)) THEN table[Meta(t)].rev ELSE 0
           new == [Idle EXCEPT !.pc = "verify", !.state.trace = t, !.state.events = EventsOf(t),
                               !.since = rev]
<1>1. Typed(table) /\ rev \in Nat
  BY Known DEF Typed, MetaRecord, Has
<1>2. EventsOf(t) \in EventMap /\ \A n : n \in DOMAIN EventsOf(t) <=> Event(t, n) \in DOMAIN table
  BY <1>1, QueriesRead
<1>3. /\ new \in ProcRecord /\ new.pc = "verify" /\ new.state.trace = t
      /\ new.state.events = EventsOf(t) /\ new.since = rev
  BY <1>1, <1>2, IdleKnows DEF ProcRecord, StateRecord
<1>4. Becomes(p, new) /\ UNCHANGED <<table, cut, acked>>
  BY DEF VerifyEvents, Reads, history
<1> HIDE DEF new
<1>5. ASSUME t \notin cut PROVE Verifies(new, table)
  <2>1. Whole(table, t)
    BY <1>5, Known
  <2>2. Meta(t) \notin DOMAIN table => rev = 0 /\ DOMAIN EventsOf(t) = {}
    BY <1>2, <2>1 DEF Whole, Has
  <2>3. Meta(t) \in DOMAIN table =>
          rev = table[Meta(t)].rev /\ DOMAIN EventsOf(t) = 1..table[Head(t)]
    BY <1>2, <2>1 DEF Whole, Has
  <2> QED
    BY <1>1, <1>3, <2>2, <2>3 DEF Verifies
<1>6. t \notin cut => Knows(new, table)
  BY <1>3, <1>5 DEF Knows
<1>7. Local(new)
  BY <1>3 DEF Local
<1> QED
  BY <1>3, <1>4, <1>6, <1>7, ReadStep

\* verify_trace compares them with the head: an error without another explanation
\* means that META has moved.
LEMMA VerifyHeadStep ==
  ASSUME IInv, NEW p \in Procs, VerifyHead(p)
  PROVE  IInv'
<1> DEFINE r == proc[p]
           t == Trace(p)
           head == table[Head(t)]
           events == r.state.events
           valid == VerifyChain(Held(p).events, head)
           new == [r EXCEPT !.pc = "verdict", !.valid = valid]
<1>1. /\ r \in ProcRecord /\ r.pc = "verify" /\ t \in Traces /\ Typed(table)
      /\ t \notin cut => Verifies(r, table) /\ Whole(table, t)
  BY Known DEF VerifyHead, At, Local, Knows, Trace
<1>2. UNCHANGED <<table, cut, acked>>
  BY DEF VerifyHead, Reads, history
<1>3. CASE ~Has(Head(t))
  BY <1>2, <1>3, IdleKnows, ReadStep DEF VerifyHead, Reads
<1>4. CASE Has(Head(t))
  <2>1. Becomes(p, new)
    BY <1>4 DEF VerifyHead, Reads
  <2>2. head \in 0..MaxEvents
    BY <1>1, <1>4 DEF Typed, Has
  <2>3. valid \in BOOLEAN /\ (valid <=> DOMAIN events = 1..head /\ \A n \in DOMAIN events : events[n].clean)
    BY DEF VerifyChain, Held
  <2> HIDE DEF valid
  <2>4. /\ new \in ProcRecord /\ new.pc = "verdict" /\ new.state = r.state /\ new.valid = valid
        /\ new.since = r.since
    BY <1>1, <2>3 DEF ProcRecord
  <2> HIDE DEF new
  <2>5. Local(new)
    BY <1>1, <2>2, <2>3, <2>4 DEF Local, Trace
  <2>6. ASSUME t \notin cut, ~valid, \A n \in DOMAIN events : events[n].clean
        PROVE  Meta(t) \in DOMAIN table /\ table[Meta(t)].rev > r.since
    <3>1. DOMAIN events # 1..head
      BY <2>3, <2>6
    <3>2. Meta(t) \in DOMAIN table
      BY <1>1, <1>4, <2>6 DEF Whole, Has
    <3>3. r.since <= table[Meta(t)].rev /\ r.since # table[Meta(t)].rev
      BY <1>1, <2>6, <3>1, <3>2 DEF Verifies, Trace
    <3>4. r.since \in Nat /\ table[Meta(t)].rev \in Nat
      BY <1>1, <3>2, ProcFields DEF Typed, MetaRecord
    <3> QED
      BY <3>2, <3>3, <3>4
  <2>7. t \notin cut => Knows(new, table)
    BY <2>4, <2>6 DEF Knows, Trace
  <2> QED
    BY <1>2, <2>1, <2>4, <2>5, <2>7, ReadStep DEF Trace
<1> QED
  BY <1>3, <1>4

\* The tamper demo reads the event it alters.
LEMMA TamperReadStep ==
  ASSUME IInv, NEW p \in Procs, NEW n \in 1..MaxEvents, TamperRead(p, n)
  PROVE  IInv'
<1> DEFINE r == proc[p]
           t == Trace(p)
           item == table[Event(t, n)]
           events == Item(n, item) ++ r.state.events
           new == [r EXCEPT !.pc = "tamper", !.read = n, !.state.events = events]
<1>1. /\ r \in ProcRecord /\ r.pc = "ready" /\ t \in Traces /\ Typed(table)
      /\ t \notin cut => Holds(r, table)
  BY Known DEF TamperRead, At, Local, Knows, Trace
<1>2. Event(t, n) \in DOMAIN table /\ item \in EventRecord
  BY <1>1 DEF TamperRead, Has, Typed
<1>3. events \in EventMap /\ n \in DOMAIN events /\ events[n] = item
  <2>1. n \in Nat /\ r.state.events \in EventMap
    BY <1>1, ProcFields, RepositoryAssumption
  <2>2. DOMAIN Item(n, item) = {n} /\ Item(n, item)[n] = item
    BY OneItem
  <2>3. n \in DOMAIN events /\ events[n] = item
    BY <2>2 DEF ++
  <2>4. events \in EventMap
    BY <1>2, <2>1, EventMaps
  <2> QED
    BY <2>3, <2>4
<1>n. n \in Nat
  BY RepositoryAssumption
<1> HIDE DEF events, item
<1>4. /\ new \in ProcRecord /\ new.pc = "tamper" /\ new.read = n /\ new.state.trace = t
      /\ new.state.rev = r.state.rev /\ MetaOf(new.state) = MetaOf(r.state)
      /\ new.state.events = events
  BY <1>1, <1>3, <1>n DEF ProcRecord, StateRecord, Trace, MetaOf
<1>5. Becomes(p, new) /\ UNCHANGED <<table, cut, acked>>
  BY DEF TamperRead, Reads, history, events, item
<1> HIDE DEF new
<1>6. t \notin cut => Knows(new, table)
  BY <1>1, <1>2, <1>3, <1>4 DEF Knows, Holds, Current, Trace, item
<1>7. Local(new)
  BY <1>1, <1>3, <1>4 DEF Local
<1> QED
  BY <1>4, <1>5, <1>6, <1>7, ReadStep

\* A reset lists, queries and cuts its keys into batches.
LEMMA ResetReadStep ==
  ASSUME IInv, NEW p \in Procs, ResetList(p) \/ ResetQuery(p) \/ ResetBatch(p)
  PROVE  IInv'
<1>1. ASSUME NEW new \in ProcRecord, new.pc = "reset", Becomes(p, new),
             UNCHANGED <<table, cut, acked>>
      PROVE  IInv'
  BY <1>1, ReadStep DEF Local, Knows
<1>2. /\ \A k \in DOMAIN table : k \in KeyType /\ k.trace \in Traces
      /\ proc[p] \in ProcRecord /\ proc[p].todo \subseteq KeyType /\ proc[p].traces \subseteq Traces
  BY Known DEF Typed, KeyType, ProcRecord
<1>3. CASE ResetList(p)
  <2> DEFINE pointers == {k \in DOMAIN table : k.kind \in {"NS_TRACE", "NS_APPROVAL"}}
             traces == {k.trace : k \in {q \in pointers : q.kind = "NS_TRACE"}}
             approvals == {k.trace : k \in {q \in pointers : q.kind = "NS_APPROVAL"}}
             todo == pointers \cup {Pointer(t) : t \in approvals}
             new == [Idle EXCEPT !.pc = "reset", !.traces = traces, !.todo = todo]
  <2>1. traces \subseteq Traces /\ approvals \subseteq Traces /\ pointers \subseteq KeyType
    BY <1>2
  <2>2. \A t \in Traces : Pointer(t) \in KeyType
    BY DEF Pointer, Key, KeyType
  <2>3. todo \subseteq KeyType
    BY <2>1, <2>2
  <2>4. Becomes(p, new) /\ UNCHANGED <<table, cut, acked>>
    BY <1>3 DEF ResetList
  <2> HIDE DEF traces, approvals, pointers, todo
  <2>5. new \in ProcRecord /\ new.pc = "reset"
    BY <2>1, <2>3, IdleKnows DEF ProcRecord
  <2> QED
    BY <1>1, <2>4, <2>5
<1>4. CASE ResetQuery(p)
  <2> DEFINE t == Min(proc[p].traces)
             todo == proc[p].todo \cup Query(t, PartitionKinds)
             new == [proc[p] EXCEPT !.traces = @ \ {t}, !.todo = todo]
  <2>1. todo \subseteq KeyType
    BY <1>2 DEF Query
  <2>2. Becomes(p, new) /\ UNCHANGED <<table, cut, acked>>
    BY <1>4 DEF ResetQuery, Reads, history
  <2> HIDE DEF t, todo
  <2>3. new \in ProcRecord /\ new.pc = "reset"
    BY <1>2, <1>4, <2>1 DEF ProcRecord, ResetQuery, At
  <2> QED
    BY <1>1, <2>2, <2>3
<1>5. CASE ResetBatch(p)
  <2> DEFINE batch == {k \in proc[p].todo :
                         Cardinality({j \in proc[p].todo : Before(j, k)}) < BatchSize}
             new(left) == [proc[p] EXCEPT !.todo = @ \ batch, !.batch = batch \ left]
  <2>1. batch \subseteq KeyType
    BY <1>2
  <2>2. UNCHANGED <<table, cut, acked>> /\ \E left \in SUBSET batch : Becomes(p, new(left))
    BY <1>5 DEF ResetBatch
  <2> PICK left \in SUBSET batch : Becomes(p, new(left))
    BY <2>2
  <2> HIDE DEF batch
  <2>3. new(left) \in ProcRecord /\ new(left).pc = "reset"
    BY <1>2, <1>5, <2>1 DEF ProcRecord, ResetBatch, At
  <2> QED
    BY <1>1, <2>2, <2>3
<1> QED
  BY <1>3, <1>4, <1>5

-----------------------------------------------------------------------------
(* Writes.                                                                 *)

\* A write of typed items over typed items is typed.
LEMMA TypedOver ==
  ASSUME NEW f, NEW g, Typed(f), Typed(g)
  PROVE  Typed(f ++ g)
<1> DEFINE h == f ++ g
<1>1. /\ \A k : k \in DOMAIN h <=> k \in DOMAIN f \/ k \in DOMAIN g
      /\ \A k \in DOMAIN h : h[k] = IF k \in DOMAIN f THEN f[k] ELSE g[k]
  BY DEF ++
<1> HIDE DEF h
<1>2. DOMAIN h \subseteq KeyType
  BY <1>1 DEF Typed
<1>3. ASSUME NEW t \in Traces
      PROVE  /\ Meta(t) \in DOMAIN h => h[Meta(t)] \in MetaRecord
             /\ Head(t) \in DOMAIN h => h[Head(t)] \in 0..MaxEvents
             /\ \A k \in ApprovalCopies(t) \cap DOMAIN h : h[k] \in Nat
             /\ \A n : Event(t, n) \in DOMAIN h => h[Event(t, n)] \in EventRecord
  BY <1>1 DEF Typed
<1>4. Typed(h)
  BY <1>2, <1>3 DEF Typed
<1> QED
  BY <1>4 DEF h

\* Items of one trace, written to the table, leave its other traces as they are.
LEMMA Put ==
  ASSUME NEW tb, NEW items, NEW t, \A k \in DOMAIN items : k.trace = t
  PROVE  Confined(tb, items ++ tb, t)
BY DEF Confined, ++

\* One item of each kind has the types of a table.
LEMMA TypedItem ==
  ASSUME NEW t \in Traces
  PROVE  /\ \A m \in MetaRecord : Typed(Item(Meta(t), m))
         /\ \A n \in 0..MaxEvents : Typed(Item(Head(t), n))
         /\ \A n \in Nat, e \in EventRecord : Typed(Item(Event(t, n), e))
         /\ \A n \in Nat : Typed(Item(Decision(t, n), 0))
         /\ Typed(Item(NsTrace(t), 0))
         /\ \A v \in Nat : Typed([k \in ApprovalCopies(t) |-> v])
<1>1. \A n \in Nat : /\ Meta(t) \in KeyType /\ Head(t) \in KeyType /\ Event(t, n) \in KeyType
                     /\ Decision(t, n) \in KeyType /\ NsTrace(t) \in KeyType
                     /\ ApprovalCopies(t) \subseteq KeyType
  BY DEF KeyType, Key, Meta, Head, Event, Decision, NsTrace, ApprovalCopies, Approval, Pointer,
         NsApproval
<1>2. ASSUME NEW u, NEW n
      PROVE  /\ Meta(u).kind = "META" /\ Head(u).kind = "HEAD" /\ Event(u, n).kind = "EVENT"
             /\ Decision(u, n).kind = "DECISION" /\ NsTrace(u).kind = "NS_TRACE"
             /\ \A k \in ApprovalCopies(u) : k.kind \in {"APPROVAL", "POINTER", "NS_APPROVAL"}
  BY KeyFields DEF Meta, Head, Event, Decision, NsTrace, ApprovalCopies, Approval, Pointer, NsApproval
<1>3. ASSUME NEW k, NEW v, NEW j PROVE j \in DOMAIN Item(k, v) <=> j = k
  BY OneItem
<1>4. \A k, v : Item(k, v)[k] = v
  BY OneItem
<1>5. ASSUME NEW m \in MetaRecord PROVE Typed(Item(Meta(t), m))
  BY <1>1, <1>2, <1>3, <1>4 DEF Typed
<1>6. ASSUME NEW n \in 0..MaxEvents PROVE Typed(Item(Head(t), n))
  BY <1>1, <1>2, <1>3, <1>4 DEF Typed
<1>7. ASSUME NEW n \in Nat, NEW e \in EventRecord PROVE Typed(Item(Event(t, n), e))
  BY <1>1, <1>2, <1>3, <1>4 DEF Typed
<1>8. ASSUME NEW n \in Nat PROVE Typed(Item(Decision(t, n), 0))
  BY <1>1, <1>2, <1>3, <1>4 DEF Typed
<1>9. Typed(Item(NsTrace(t), 0))
  BY <1>1, <1>2, <1>3, <1>4 DEF Typed
<1>10. ASSUME NEW v \in Nat PROVE Typed([k \in ApprovalCopies(t) |-> v])
  BY <1>1, <1>2 DEF Typed
<1> QED
  BY <1>5, <1>6, <1>7, <1>8, <1>9, <1>10

\* A write that is made on the stored revision: the writer knows the new revision, or,
\* if its answer was lost, one that is now behind.
LEMMA RevisionStep ==
  ASSUME IInv, NEW p \in Procs, NEW t \in Traces, Trace(p) = t,
         proc[p].pc \in {"ready", "append"}, MetaUnchanged(p),
         NEW s \in StateRecord, s.trace = t, s.rev = Held(p).rev + 1,
         NEW answer \in BOOLEAN,
         Becomes(p, [Idle EXCEPT !.pc = "ready", !.state = IF answer THEN s ELSE Held(p)]),
         cut' = cut, Typed(table'), Confined(table, table', t), Agreed(table', t),
         Meta(t) \in DOMAIN table', table'[Meta(t)] = MetaOf(s),
         t \notin cut => /\ Whole(table', t) /\ Together(table', t)
                         /\ SameEvents(s, table') /\ SameDecisions(s, table'),
         \A n : Event(t, n) \in DOMAIN table =>
           Event(t, n) \in DOMAIN table' /\ table'[Event(t, n)].by = table[Event(t, n)].by,
         \A a \in acked' :
           \/ a \in acked
           \/ /\ a \in Procs \X Traces \X Nat /\ a[2] = t /\ Event(t, a[3]) \in DOMAIN table'
              /\ table'[Event(t, a[3])].by = a[1]
  PROVE  IInv'
<1> DEFINE held == IF answer THEN s ELSE Held(p)
           new == [Idle EXCEPT !.pc = "ready", !.state = held]
<1>1. /\ Held(p) \in StateRecord /\ Held(p).trace = t /\ Held(p).rev \in Nat
      /\ t \notin cut => Holds(proc[p], table)
  BY Known, ProcFields DEF Held, Trace, Knows
<1>2. held \in StateRecord /\ held.trace = t
  BY <1>1
<1>3. Becomes(p, new)
  OBVIOUS
<1> HIDE DEF held
<1>4. new \in ProcRecord /\ new.pc = "ready" /\ new.state = held
  BY <1>2, IdleKnows DEF ProcRecord
<1> HIDE DEF new
<1>5. table'[Meta(t)].rev = Held(p).rev + 1 /\ table[Meta(t)].rev = Held(p).rev
  BY DEF MetaUnchanged, MetaOf
<1>6. Grown(table, table', t)
  BY <1>1, <1>5 DEF Grown, MetaUnchanged, Has
<1>7. Local(new)
  BY <1>2, <1>4 DEF Local
<1>8. ASSUME t \notin cut PROVE Knows(new, table')
  <2>1. CASE answer
    <3>1. held = s
      BY <2>1 DEF held
    <3>2. Holds(new, table')
      BY <1>1, <1>4, <1>5, <1>8, <3>1 DEF Holds
    <3> QED
      BY <1>4, <3>2 DEF Knows
  <2>2. CASE ~answer
    <3>1. held = Held(p)
      BY <2>2 DEF held
    <3>2. Holds(new, table)
      <4>1. proc[p].state = Held(p)
        BY DEF Held
      <4>2. SameEvents(Held(p), table) /\ SameDecisions(Held(p), table)
        BY <1>1, <1>5, <1>8, <4>1 DEF Holds, Current
      <4> QED
        BY <1>1, <1>4, <1>8, <3>1, <4>1, <4>2 DEF Holds
    <3>3. Knows(new, table)
      BY <1>4, <3>2 DEF Knows
    <3> QED
      BY <1>2, <1>4, <1>6, <3>3, Known, GrownKept
  <2> QED
    BY <2>1, <2>2
<1> QED
  BY <1>2, <1>3, <1>4, <1>6, <1>7, <1>8, WriteStep

\* A write that was refused leaves the caller with the state it had.
LEMMA RefusedStep ==
  ASSUME IInv, NEW p \in Procs, proc[p].pc \in {"ready", "append"},
         Becomes(p, [Idle EXCEPT !.pc = "ready", !.state = Held(p)]),
         UNCHANGED <<table, cut, acked>>
  PROVE  IInv'
<1> DEFINE new == [Idle EXCEPT !.pc = "ready", !.state = Held(p)]
<1>1. /\ Held(p) \in StateRecord /\ Held(p).trace \in Traces /\ Held(p) = proc[p].state
      /\ Held(p).trace \notin cut => Holds(proc[p], table)
  BY Known, ProcFields DEF Held, Trace, Knows, Local
<1>2. Becomes(p, new)
  OBVIOUS
<1>3. new \in ProcRecord /\ new.pc = "ready" /\ new.state = Held(p)
  BY <1>1, IdleKnows DEF ProcRecord
<1> HIDE DEF new
<1>4. Held(p).trace \notin cut => Knows(new, table)
  BY <1>1, <1>3 DEF Knows, Holds
<1>5. Local(new)
  BY <1>1, <1>3 DEF Local
<1> QED
  BY <1>2, <1>3, <1>4, <1>5, ReadStep

\* Distinct keys of one trace.
LEMMA DistinctKeys ==
  ASSUME NEW t
  PROVE  /\ Meta(t) # Head(t) /\ Meta(t) # NsTrace(t) /\ Head(t) # NsTrace(t)
         /\ \A n : /\ Event(t, n) \notin {Meta(t), Head(t), NsTrace(t)}
                   /\ Decision(t, n) \notin {Meta(t), Head(t), NsTrace(t)}
                   /\ \A m : /\ Event(t, n) # Decision(t, m)
                             /\ Event(t, n) = Event(t, m) => n = m
                             /\ Decision(t, n) = Decision(t, m) => n = m
         /\ Approval(t) # Pointer(t) /\ Approval(t) # NsApproval(t) /\ Pointer(t) # NsApproval(t)
         /\ \A k \in ApprovalCopies(t) :
              /\ k \notin {Meta(t), Head(t), NsTrace(t)}
              /\ \A n : k # Event(t, n) /\ k # Decision(t, n)
BY KeyFields DEF Meta, Head, Event, Decision, NsTrace, ApprovalCopies, Approval, Pointer, NsApproval

\* Every key of a trace names it.
LEMMA KeyTraces ==
  ASSUME NEW t
  PROVE  /\ Meta(t).trace = t /\ Head(t).trace = t /\ NsTrace(t).trace = t
         /\ \A n : Event(t, n).trace = t /\ Decision(t, n).trace = t
         /\ \A k \in ApprovalCopies(t) : k.trace = t
BY KeyFields DEF Meta, Head, Event, Decision, NsTrace, ApprovalCopies, Approval, Pointer, NsApproval

\* append_event's transaction: the chain, HEAD and META grow by one event.
LEMMA AppendEventStep ==
  ASSUME IInv, NEW p \in Procs, NEW done \in BOOLEAN, AppendEvent(p, done)
  PROVE  IInv'
<1> DEFINE t == Trace(p)
           n == proc[p].read + 1
           item == [by |-> p, clean |-> TRUE]
           events == Item(n, item) ++ Held(p).events
           new == [Held(p) EXCEPT !.rev = @ + 1, !.next = @ + 1, !.done = done,
                                  !.events = Item(n, item) ++ @]
           items == Item(Event(t, n), item) ++ Item(Head(t), n) ++ Item(Meta(t), MetaOf(new))
<1>1. /\ proc[p] \in ProcRecord /\ proc[p].pc = "append" /\ t \in Traces /\ Typed(table)
      /\ Held(p) = proc[p].state /\ Held(p).trace = t /\ Held(p).next = n
      /\ t \notin cut => Holds(proc[p], table) /\ Whole(table, t) /\ Together(table, t)
      /\ Agreed(table, t)
  BY Known DEF AppendEvent, At, Local, Knows, Trace, Held, IInv
<1>2. /\ n \in Nat /\ n \in 0..MaxEvents /\ n >= 1 /\ proc[p].read \in Nat
      /\ Held(p).rev \in Nat /\ Held(p).next \in Nat /\ Held(p).events \in EventMap
      /\ Held(p) \in StateRecord
  BY <1>1, ProcFields, RepositoryAssumption DEF AppendEvent, Held
<1>3. item \in EventRecord
  BY DEF EventRecord
<1>4. events \in EventMap
  BY <1>2, <1>3, EventMaps
<1>5. /\ \A m : m \in DOMAIN events <=> m = n \/ m \in DOMAIN Held(p).events
      /\ \A m \in DOMAIN events : events[m] = IF m = n THEN item ELSE Held(p).events[m]
  BY DEF Item, ++
<1> HIDE DEF events
<1>6. /\ new \in StateRecord /\ new.trace = t /\ new.rev = Held(p).rev + 1
      /\ new.next = n + 1 /\ new.events = events /\ new.decisions = Held(p).decisions
      /\ MetaOf(new) \in MetaRecord /\ MetaOf(new).rev = new.rev /\ MetaOf(new).next = new.next
  <2> DEFINE h == Held(p)
  <2>1. new = [h EXCEPT !.rev = h.rev + 1, !.next = n + 1, !.done = done, !.events = events]
    BY <1>1 DEF events
  <2>2. h \in StateRecord /\ h.trace = t /\ h.rev + 1 \in Nat /\ n + 1 \in Nat
    BY <1>1, <1>2
  <2> HIDE DEF h, new, n
  <2>3. /\ new \in StateRecord /\ new.trace = t /\ new.rev = h.rev + 1
        /\ new.next = n + 1 /\ new.events = events /\ new.decisions = h.decisions
    BY <1>4, <2>1, <2>2 DEF StateRecord
  <2>4. MetaOf(new) \in MetaRecord /\ MetaOf(new).rev = new.rev /\ MetaOf(new).next = new.next
    BY <2>3 DEF StateRecord, MetaOf, MetaRecord
  <2> QED
    BY <2>3, <2>4 DEF h, n
<1>7. PICK answer \in BOOLEAN :
        /\ Writes(t, AppendAllowed(p), items, answer)
        /\ Becomes(p, [Idle EXCEPT !.pc = "ready", !.state = IF answer THEN new ELSE Held(p)])
        /\ acked' = acked \cup (IF answer THEN {<<p, t, n>>} ELSE {})
  BY DEF AppendEvent, RolledBack
<1>8. /\ \A k : k \in DOMAIN items <=> k \in {Event(t, n), Head(t), Meta(t)}
      /\ items[Event(t, n)] = item /\ items[Head(t)] = n /\ items[Meta(t)] = MetaOf(new)
  BY DistinctKeys DEF Item, ++
<1>9. Typed(items) /\ \A k \in DOMAIN items : k.trace = t
  <2>1. Typed(Item(Event(t, n), item)) /\ Typed(Item(Head(t), n)) /\ Typed(Item(Meta(t), MetaOf(new)))
    BY <1>1, <1>2, <1>3, <1>6, TypedItem
  <2>2. \A k \in DOMAIN items : k.trace = t
    BY <1>8, KeyTraces
  <2>3. Typed(items)
    BY <2>1, TypedOver
  <2> QED
    BY <2>2, <2>3
<1> HIDE DEF items, new, item
<1>10. CASE ~AppendAllowed(p)
  <2>1. ~answer /\ UNCHANGED <<table, cut, acked>>
    BY <1>7, <1>10 DEF Writes
  <2> QED
    BY <1>1, <1>7, <2>1, RefusedStep
<1>11. CASE AppendAllowed(p)
  <2>1. table' = items ++ table /\ cut' = cut
    BY <1>7, <1>11 DEF Writes
  <2>2. /\ \A k : k \in DOMAIN table' <=> k \in DOMAIN items \/ k \in DOMAIN table
        /\ \A k \in DOMAIN table' : table'[k] = IF k \in DOMAIN items THEN items[k] ELSE table[k]
    BY <2>1 DEF ++
  <2>3. Typed(table') /\ Confined(table, table', t)
    BY <1>1, <1>9, <2>1, Put, TypedOver
  <2>4. /\ Meta(t) \in DOMAIN table' /\ table'[Meta(t)] = MetaOf(new)
        /\ Head(t) \in DOMAIN table' /\ table'[Head(t)] = n
        /\ Event(t, n) \in DOMAIN table' /\ table'[Event(t, n)] = item
    BY <1>8, <2>2
  <2>5. \A m : /\ Event(t, m) \in DOMAIN table' <=> m = n \/ Event(t, m) \in DOMAIN table
               /\ m # n /\ Event(t, m) \in DOMAIN table => table'[Event(t, m)] = table[Event(t, m)]
               /\ Decision(t, m) \in DOMAIN table' <=> Decision(t, m) \in DOMAIN table
    BY <1>8, <2>2, DistinctKeys
  <2>6. /\ NsTrace(t) \in DOMAIN table' <=> NsTrace(t) \in DOMAIN table
        /\ \A k \in ApprovalCopies(t) : /\ k \in DOMAIN table' <=> k \in DOMAIN table
                                        /\ k \in DOMAIN table => table'[k] = table[k]
    BY <1>8, <2>2, DistinctKeys
  <2>7. Event(t, n) \notin DOMAIN table /\ table[Head(t)] = proc[p].read
    BY <1>11 DEF AppendAllowed, Has
  <2>8. Agreed(table', t)
    BY <1>1, <2>6 DEF Agreed
  <2>9. ASSUME t \notin cut
        PROVE  Whole(table', t) /\ Together(table', t) /\ SameEvents(new, table') /\ SameDecisions(new, table')
    <3>1. Meta(t) \in DOMAIN table /\ Current(Held(p), table)
      BY <1>1, <1>11 DEF AppendAllowed, MetaUnchanged, Has, Current
    <3>2. SameEvents(Held(p), table) /\ SameDecisions(Held(p), table)
      BY <1>1, <2>9, <3>1 DEF Holds
    <3>3. Together(table', t)
      BY <1>1, <2>6, <2>9 DEF Together
    <3>4. \A m : m \in 1..n <=> m = n \/ m \in 1..table[Head(t)]
      BY <1>2, <2>7
    <3>5. Whole(table', t)
      BY <1>1, <1>6, <2>4, <2>5, <2>6, <2>9, <3>1, <3>4 DEF Whole
    <3>6. SameDecisions(new, table')
      BY <1>1, <1>6, <2>5, <3>2 DEF SameDecisions
    <3>7. SameEvents(new, table')
      BY <1>1, <1>5, <1>6, <2>4, <2>5, <2>7, <3>2 DEF SameEvents
    <3> QED
      BY <3>3, <3>5, <3>6, <3>7
  <2>10. \A m : Event(t, m) \in DOMAIN table =>
           Event(t, m) \in DOMAIN table' /\ table'[Event(t, m)].by = table[Event(t, m)].by
    BY <2>5, <2>7
  <2>11. \A a \in acked' :
           \/ a \in acked
           \/ /\ a \in Procs \X Traces \X Nat /\ a[2] = t /\ Event(t, a[3]) \in DOMAIN table'
              /\ table'[Event(t, a[3])].by = a[1]
    <3>1. item.by = p
      BY DEF item
    <3> QED
      BY <1>1, <1>2, <1>7, <2>4, <3>1
  <2>12. MetaUnchanged(p)
    BY <1>11 DEF AppendAllowed
  <2> QED
    BY <1>1, <1>6, <1>7, <2>1, <2>3, <2>4, <2>8, <2>9, <2>10, <2>11, <2>12, RevisionStep
<1> QED
  BY <1>10, <1>11

\* append_decision: one more decision on the stored revision.
LEMMA AppendDecisionStep ==
  ASSUME IInv, NEW p \in Procs, AppendDecision(p)
  PROVE  IInv'
<1> DEFINE t == Trace(p)
           h == Held(p)
           n == h.rev + 1
           decisions == h.decisions \cup {n}
           new == [h EXCEPT !.rev = n, !.decisions = decisions]
           items == Item(Decision(t, n), 0) ++ Item(Meta(t), MetaOf(new))
<1>1. /\ proc[p] \in ProcRecord /\ proc[p].pc = "ready" /\ t \in Traces /\ Typed(table)
      /\ h = proc[p].state /\ h.trace = t
      /\ t \notin cut => Holds(proc[p], table) /\ Whole(table, t) /\ Together(table, t)
      /\ Agreed(table, t)
  BY Known DEF AppendDecision, At, Local, Knows, Trace, Held, IInv
<1>2. /\ n \in Nat /\ h \in StateRecord /\ decisions \subseteq Nat
  BY <1>1, ProcFields
<1>3. PICK answer \in BOOLEAN :
        /\ Writes(t, MetaUnchanged(p), items, answer)
        /\ Becomes(p, [Idle EXCEPT !.pc = "ready", !.state = IF answer THEN new ELSE h])
  BY DEF AppendDecision, RolledBack
<1>4. acked' = acked
  BY DEF AppendDecision
<1>5. h.rev + 1 = n /\ \A m : m \in decisions <=> m = n \/ m \in h.decisions
  OBVIOUS
<1> HIDE DEF n, decisions, h
<1>6. /\ new \in StateRecord /\ new.trace = t /\ new.rev = n
      /\ new.events = h.events /\ new.decisions = decisions
      /\ MetaOf(new) \in MetaRecord /\ MetaOf(new).rev = n /\ MetaOf(new).next = h.next
  BY <1>1, <1>2 DEF StateRecord, MetaOf, MetaRecord
<1>7. /\ \A k : k \in DOMAIN items <=> k \in {Decision(t, n), Meta(t)}
      /\ items[Meta(t)] = MetaOf(new)
  BY DistinctKeys DEF Item, ++
<1>8. Typed(items) /\ \A k \in DOMAIN items : k.trace = t
  <2>1. Typed(Item(Decision(t, n), 0)) /\ Typed(Item(Meta(t), MetaOf(new)))
    BY <1>1, <1>2, <1>6, TypedItem
  <2>2. \A k \in DOMAIN items : k.trace = t
    BY <1>7, KeyTraces
  <2> QED
    BY <2>1, <2>2, TypedOver
<1> HIDE DEF items, new
<1>9. CASE ~MetaUnchanged(p)
  <2>1. ~answer /\ UNCHANGED <<table, cut, acked>>
    BY <1>3, <1>4, <1>9 DEF Writes
  <2> QED
    BY <1>1, <1>3, <2>1, RefusedStep DEF h
<1>10. CASE MetaUnchanged(p)
  <2>1. table' = items ++ table /\ cut' = cut
    BY <1>3, <1>10 DEF Writes
  <2>2. /\ \A k : k \in DOMAIN table' <=> k \in DOMAIN items \/ k \in DOMAIN table
        /\ \A k \in DOMAIN table' : table'[k] = IF k \in DOMAIN items THEN items[k] ELSE table[k]
    BY <2>1 DEF ++
  <2>3. Typed(table') /\ Confined(table, table', t)
    BY <1>1, <1>8, <2>1, Put, TypedOver
  <2>4. Meta(t) \in DOMAIN table' /\ table'[Meta(t)] = MetaOf(new)
    BY <1>7, <2>2
  <2>5. \A m : /\ Event(t, m) \in DOMAIN table' <=> Event(t, m) \in DOMAIN table
               /\ Event(t, m) \in DOMAIN table => table'[Event(t, m)] = table[Event(t, m)]
               /\ Decision(t, m) \in DOMAIN table' <=> m = n \/ Decision(t, m) \in DOMAIN table
    BY <1>7, <2>2, DistinctKeys
  <2>6. /\ NsTrace(t) \in DOMAIN table' <=> NsTrace(t) \in DOMAIN table
        /\ Head(t) \in DOMAIN table' <=> Head(t) \in DOMAIN table
        /\ Head(t) \in DOMAIN table => table'[Head(t)] = table[Head(t)]
        /\ \A k \in ApprovalCopies(t) : /\ k \in DOMAIN table' <=> k \in DOMAIN table
                                        /\ k \in DOMAIN table => table'[k] = table[k]
    BY <1>7, <2>2, DistinctKeys
  <2>7. Agreed(table', t)
    BY <1>1, <2>6 DEF Agreed
  <2>8. ASSUME t \notin cut
        PROVE  Whole(table', t) /\ Together(table', t) /\ SameEvents(new, table') /\ SameDecisions(new, table')
    <3>1. Meta(t) \in DOMAIN table /\ Current(h, table) /\ h.rev = table[Meta(t)].rev
      BY <1>1, <1>10 DEF MetaUnchanged, Has, Current, h
    <3>2. SameEvents(h, table) /\ SameDecisions(h, table) /\ MetaOf(h) = table[Meta(t)]
      BY <1>1, <2>8, <3>1 DEF Holds
    <3>3. Together(table', t)
      BY <1>1, <2>6, <2>8 DEF Together
    <3>4. table'[Meta(t)].next = table[Meta(t)].next
      BY <1>6, <2>4, <3>2 DEF MetaOf
    <3>5. Whole(table', t)
      BY <1>1, <2>4, <2>5, <2>6, <2>8, <3>1, <3>4 DEF Whole
    <3>6. SameDecisions(new, table')
      BY <1>1, <1>5, <1>6, <2>5, <3>2 DEF SameDecisions
    <3>7. SameEvents(new, table')
      BY <1>1, <1>6, <2>5, <3>2 DEF SameEvents
    <3> QED
      BY <3>3, <3>5, <3>6, <3>7
  <2> QED
    BY <1>1, <1>3, <1>4, <1>5, <1>6, <1>10, <2>1, <2>3, <2>4, <2>5, <2>7, <2>8, RevisionStep DEF h
<1> QED
  BY <1>9, <1>10

\* add_approval: the three copies appear together on the stored revision.
LEMMA AddApprovalStep ==
  ASSUME IInv, NEW p \in Procs, AddApproval(p)
  PROVE  IInv'
<1> DEFINE t == Trace(p)
           h == Held(p)
           n == h.rev + 1
           new == [h EXCEPT !.rev = n, !.asked = TRUE]
           items == NewApproval(t) ++ Item(Meta(t), MetaOf(new))
           ok == MetaUnchanged(p) /\ ApprovalCopies(t) \cap DOMAIN table = {}
<1>1. /\ proc[p] \in ProcRecord /\ proc[p].pc = "ready" /\ t \in Traces /\ Typed(table)
      /\ h = proc[p].state /\ h.trace = t
      /\ t \notin cut => Holds(proc[p], table) /\ Whole(table, t)
  BY Known DEF AddApproval, At, Local, Knows, Trace, Held
<1>2. n \in Nat /\ h \in StateRecord
  BY <1>1, ProcFields
<1>3. PICK answer \in BOOLEAN :
        /\ Writes(t, ok, items, answer)
        /\ Becomes(p, [Idle EXCEPT !.pc = "ready", !.state = IF answer THEN new ELSE h])
  BY DEF AddApproval, RolledBack
<1>4. acked' = acked
  BY DEF AddApproval
<1>5. h.rev + 1 = n
  OBVIOUS
<1> HIDE DEF n, h
<1>6. /\ new \in StateRecord /\ new.trace = t /\ new.rev = n
      /\ new.events = h.events /\ new.decisions = h.decisions
      /\ MetaOf(new) \in MetaRecord /\ MetaOf(new).rev = n /\ MetaOf(new).next = h.next
  BY <1>1, <1>2 DEF StateRecord, MetaOf, MetaRecord
<1>7. /\ \A k : k \in DOMAIN items <=> k \in ApprovalCopies(t) \cup {Meta(t)}
      /\ items[Meta(t)] = MetaOf(new) /\ \A k \in ApprovalCopies(t) : items[k] = 1
  BY DistinctKeys DEF Item, ++, NewApproval
<1>8. Typed(items) /\ \A k \in DOMAIN items : k.trace = t
  <2>1. Typed(NewApproval(t)) /\ Typed(Item(Meta(t), MetaOf(new)))
    BY <1>1, <1>6, TypedItem DEF NewApproval
  <2>2. \A k \in DOMAIN items : k.trace = t
    BY <1>7, KeyTraces
  <2> QED
    BY <2>1, <2>2, TypedOver
<1> HIDE DEF items, new
<1>9. CASE ~ok
  <2>1. ~answer /\ UNCHANGED <<table, cut, acked>>
    BY <1>3, <1>4, <1>9 DEF Writes
  <2> QED
    BY <1>1, <1>3, <2>1, RefusedStep DEF h
<1>10. CASE ok
  <2>1. table' = items ++ table /\ cut' = cut
    BY <1>3, <1>10 DEF Writes
  <2>2. /\ \A k : k \in DOMAIN table' <=> k \in DOMAIN items \/ k \in DOMAIN table
        /\ \A k \in DOMAIN table' : table'[k] = IF k \in DOMAIN items THEN items[k] ELSE table[k]
    BY <2>1 DEF ++
  <2>3. Typed(table') /\ Confined(table, table', t)
    BY <1>1, <1>8, <2>1, Put, TypedOver
  <2>4. Meta(t) \in DOMAIN table' /\ table'[Meta(t)] = MetaOf(new)
    BY <1>7, <2>2
  <2>5. \A m : /\ Event(t, m) \in DOMAIN table' <=> Event(t, m) \in DOMAIN table
               /\ Event(t, m) \in DOMAIN table => table'[Event(t, m)] = table[Event(t, m)]
               /\ Decision(t, m) \in DOMAIN table' <=> Decision(t, m) \in DOMAIN table
    BY <1>7, <2>2, DistinctKeys
  <2>6. /\ NsTrace(t) \in DOMAIN table' <=> NsTrace(t) \in DOMAIN table
        /\ Head(t) \in DOMAIN table' <=> Head(t) \in DOMAIN table
        /\ Head(t) \in DOMAIN table => table'[Head(t)] = table[Head(t)]
        /\ \A k \in ApprovalCopies(t) : k \in DOMAIN table' /\ table'[k] = 1
    BY <1>7, <2>2, DistinctKeys
  <2>7. Agreed(table', t) /\ Together(table', t)
    BY <2>6 DEF Agreed, Together
  <2>8. ASSUME t \notin cut
        PROVE  Whole(table', t) /\ SameEvents(new, table') /\ SameDecisions(new, table')
    <3>1. Meta(t) \in DOMAIN table /\ Current(h, table) /\ h.rev = table[Meta(t)].rev
      BY <1>1, <1>10 DEF MetaUnchanged, Has, Current, h
    <3>2. SameEvents(h, table) /\ SameDecisions(h, table) /\ MetaOf(h) = table[Meta(t)]
      BY <1>1, <2>8, <3>1 DEF Holds
    <3>3. table'[Meta(t)].next = table[Meta(t)].next
      BY <1>6, <2>4, <3>2 DEF MetaOf
    <3>4. Whole(table', t)
      BY <1>1, <2>4, <2>5, <2>6, <2>8, <3>1, <3>3 DEF Whole
    <3>5. SameDecisions(new, table') /\ SameEvents(new, table')
      BY <1>1, <1>6, <2>5, <3>2 DEF SameDecisions, SameEvents
    <3> QED
      BY <3>4, <3>5
  <2> QED
    BY <1>1, <1>3, <1>4, <1>5, <1>6, <1>10, <2>1, <2>3, <2>4, <2>5, <2>7, <2>8, RevisionStep DEF h
<1> QED
  BY <1>9, <1>10

\* create_run: a trace without items begins with META, HEAD and its pointer.
LEMMA CreateRunStep ==
  ASSUME IInv, NEW p \in Procs, NEW t \in Traces, CreateRun(p, t)
  PROVE  IInv'
<1> DEFINE s == NewState(t)
           ready == [Idle EXCEPT !.pc = "ready", !.state = s]
           items == Item(Meta(t), MetaOf(s)) ++ Item(Head(t), 0) ++ Item(NsTrace(t), 0)
<1>1. /\ Typed(table) /\ t \notin cut /\ Whole(table, t) /\ Together(table, t) /\ Agreed(table, t)
      /\ NsTrace(t) \notin DOMAIN table
  BY Known DEF CreateRun, Has, IInv
<1>2. /\ Meta(t) \notin DOMAIN table /\ Head(t) \notin DOMAIN table
      /\ \A n : Event(t, n) \notin DOMAIN table /\ Decision(t, n) \notin DOMAIN table
  BY <1>1 DEF Whole
<1>3. /\ s \in StateRecord /\ s.trace = t /\ s.rev = 0 /\ s.next = 1 /\ DOMAIN s.events = {}
      /\ s.decisions = {} /\ MetaOf(s) \in MetaRecord /\ MetaOf(s).rev = 0 /\ MetaOf(s).next = 1
  BY EventMaps DEF NewState, StateRecord, MetaOf, MetaRecord
<1>4. PICK answer \in BOOLEAN :
        Writes(t, TRUE, items, answer) /\ Becomes(p, IF answer THEN ready ELSE Idle)
  BY DEF CreateRun
<1> HIDE DEF s
<1>5. ready \in ProcRecord /\ ready.pc = "ready" /\ ready.state = s
  BY <1>3, IdleKnows DEF ProcRecord
<1>6. /\ \A k : k \in DOMAIN items <=> k \in {Meta(t), Head(t), NsTrace(t)}
      /\ items[Meta(t)] = MetaOf(s) /\ items[Head(t)] = 0
  BY DistinctKeys DEF Item, ++
<1>7. Typed(items) /\ \A k \in DOMAIN items : k.trace = t
  <2>1. 0 \in 0..MaxEvents
    BY RepositoryAssumption
  <2>2. Typed(Item(Meta(t), MetaOf(s))) /\ Typed(Item(Head(t), 0)) /\ Typed(Item(NsTrace(t), 0))
    BY <1>3, <2>1, TypedItem
  <2>3. \A k \in DOMAIN items : k.trace = t
    BY <1>6, KeyTraces
  <2> QED
    BY <2>2, <2>3, TypedOver
<1> HIDE DEF items, ready
<1>8. table' = items ++ table /\ cut' = cut /\ acked' = acked
  BY <1>4 DEF Writes, CreateRun
<1>9. /\ \A k : k \in DOMAIN table' <=> k \in DOMAIN items \/ k \in DOMAIN table
      /\ \A k \in DOMAIN table' : table'[k] = IF k \in DOMAIN items THEN items[k] ELSE table[k]
  BY <1>8 DEF ++
<1>10. Typed(table') /\ Confined(table, table', t)
  BY <1>1, <1>7, <1>8, Put, TypedOver
<1>11. /\ Meta(t) \in DOMAIN table' /\ table'[Meta(t)] = MetaOf(s)
       /\ Head(t) \in DOMAIN table' /\ table'[Head(t)] = 0 /\ NsTrace(t) \in DOMAIN table'
       /\ \A n : Event(t, n) \notin DOMAIN table' /\ Decision(t, n) \notin DOMAIN table'
       /\ \A k \in ApprovalCopies(t) : /\ k \in DOMAIN table' <=> k \in DOMAIN table
                                       /\ k \in DOMAIN table => table'[k] = table[k]
  BY <1>2, <1>6, <1>9, DistinctKeys
<1>12. Agreed(table', t) /\ Together(table', t)
  BY <1>1, <1>11 DEF Agreed, Together
<1>13. Whole(table', t)
  <2>1. 0 + 1 = 1 /\ \A n : n \notin 1..0
    OBVIOUS
  <2> QED
    BY <1>3, <1>11, <2>1 DEF Whole
<1>14. Grown(table, table', t)
  BY <1>2, <1>3, <1>11 DEF Grown
<1>15. Local(ready) /\ Knows(ready, table')
  <2>1. Holds(ready, table')
    BY <1>3, <1>5, <1>11 DEF Holds, SameEvents, SameDecisions
  <2> QED
    BY <1>3, <1>5, <2>1 DEF Local, Knows
<1>16. CASE answer
  BY <1>4, <1>5, <1>8, <1>10, <1>12, <1>13, <1>14, <1>15, <1>16, WriteStep
<1>17. CASE ~answer
  BY <1>4, <1>8, <1>10, <1>12, <1>13, <1>14, <1>17, IdleKnows, WriteStep
<1> QED
  BY <1>16, <1>17

\* replace_approval updates the three copies that have the version it read.
LEMMA ReplaceApprovalStep ==
  ASSUME IInv, NEW p \in Procs, ReplaceApproval(p)
  PROVE  IInv'
<1> DEFINE t == Trace(p)
           v == proc[p].read + 1
<1>1. /\ t \in Traces /\ Typed(table) /\ v \in Nat
      /\ t \notin cut => Whole(table, t)
  BY Known, ProcFields DEF ReplaceApproval, At, Local, Trace
<1>2. PICK answer \in BOOLEAN : Writes(t, ReplaceAllowed(p), Replaced(p), answer)
  BY DEF ReplaceApproval
<1>3. Becomes(p, Idle) /\ acked' = acked
  BY DEF ReplaceApproval
<1>4. CASE ~ReplaceAllowed(p)
  <2>1. UNCHANGED <<table, cut, acked>>
    BY <1>2, <1>3, <1>4 DEF Writes
  <2> QED
    BY <1>3, <2>1, IdleKnows, ReadStep
<1>5. CASE ReplaceAllowed(p)
  <2>1. table' = Replaced(p) ++ table /\ cut' = cut
    BY <1>2, <1>5 DEF Writes
  <2>2. /\ \A k : k \in DOMAIN table' <=> k \in ApprovalCopies(t) \/ k \in DOMAIN table
        /\ \A k \in DOMAIN table' : table'[k] = IF k \in ApprovalCopies(t) THEN v ELSE table[k]
    BY <2>1 DEF ++, Replaced
  <2>3. DOMAIN Replaced(p) = ApprovalCopies(t) /\ Typed(Replaced(p))
    BY <1>1, TypedItem DEF Replaced
  <2>4. Typed(table') /\ Confined(table, table', t)
    BY <1>1, <2>1, <2>3, KeyTraces, Put, TypedOver
  <2>5. Agreed(table', t) /\ Together(table', t)
    BY <2>2 DEF Agreed, Together
  <2>6. Same(table, table', t)
    BY <2>2, DistinctKeys DEF Same
  <2>7. t \notin cut => Whole(table', t)
    BY <1>1, <2>6, SameKept
  <2> QED
    BY <1>1, <1>3, <2>1, <2>4, <2>5, <2>6, <2>7, IdleKnows, WriteStep
<1> QED
  BY <1>4, <1>5

\* The tamper demo writes back the event it read with the same writer.
LEMMA TamperWriteStep ==
  ASSUME IInv, NEW p \in Procs, TamperWrite(p)
  PROVE  IInv'
<1> DEFINE t == Trace(p)
           r == proc[p]
           n == r.read
           item == [Held(p).events[n] EXCEPT !.clean = FALSE]
           items == Item(Event(t, n), item)
<1>1. /\ r \in ProcRecord /\ r.pc = "tamper" /\ t \in Traces /\ Typed(table) /\ Agreed(table, t)
      /\ n \in DOMAIN Held(p).events /\ n \in Nat /\ Held(p).events \in EventMap
      /\ t \notin cut => /\ Whole(table, t) /\ Together(table, t) /\ Event(t, n) \in DOMAIN table
                         /\ Held(p).events[n].by = table[Event(t, n)].by
  <2>1. r \in ProcRecord /\ r.pc = "tamper" /\ t \in Traces /\ Typed(table) /\ Agreed(table, t)
    BY Known DEF TamperWrite, At, Local, Trace, IInv
  <2>2. n \in DOMAIN Held(p).events /\ n \in Nat /\ Held(p).events \in EventMap
    BY <2>1, Known, ProcFields DEF Local, Held
  <2>3. t \notin cut => /\ Whole(table, t) /\ Together(table, t) /\ Event(t, n) \in DOMAIN table
                        /\ Held(p).events[n].by = table[Event(t, n)].by
    BY <2>1, Known DEF Knows, Held, Trace, IInv
  <2> QED
    BY <2>1, <2>2, <2>3
<1>2. item \in EventRecord /\ item.by = Held(p).events[n].by
  <2>1. Held(p).events[n] \in EventRecord
    BY <1>1, EventMaps
  <2> QED
    BY <2>1 DEF EventRecord
<1>3. table' = items ++ table /\ cut' = cut /\ Becomes(p, Idle) /\ acked' = acked
  BY DEF TamperWrite, Writes
<1> HIDE DEF item
<1>4. DOMAIN items = {Event(t, n)} /\ items[Event(t, n)] = item /\ Typed(items)
  BY <1>1, <1>2, OneItem, TypedItem
<1> HIDE DEF items
<1>5. /\ \A k : k \in DOMAIN table' <=> k = Event(t, n) \/ k \in DOMAIN table
      /\ \A k \in DOMAIN table' : table'[k] = IF k = Event(t, n) THEN item ELSE table[k]
  BY <1>3, <1>4 DEF ++
<1>6. Typed(table') /\ Confined(table, table', t)
  BY <1>1, <1>3, <1>4, KeyTraces, Put, TypedOver
<1>7. \A k \in ApprovalCopies(t) : /\ k \in DOMAIN table' <=> k \in DOMAIN table
                                   /\ k \in DOMAIN table => table'[k] = table[k]
  BY <1>5, DistinctKeys
<1>8. Agreed(table', t) /\ (t \notin cut => Together(table', t))
  BY <1>1, <1>7 DEF Agreed, Together
<1>9. t \notin cut => Same(table, table', t)
  BY <1>1, <1>2, <1>5, DistinctKeys DEF Same
<1>10. t \notin cut => Whole(table', t)
  BY <1>1, <1>9, SameKept
<1> QED
  BY <1>1, <1>3, <1>6, <1>8, <1>9, <1>10, IdleKnows, WriteStep

-----------------------------------------------------------------------------
(* Deletions, and the invariant.                                           *)

\* A deletion takes its trace out of what is claimed and leaves the others.
LEMMA DeleteItemStep ==
  ASSUME IInv, NEW p \in Procs, NEW k \in proc[p].batch, DeleteItem(p, k)
  PROVE  IInv'
<1> DEFINE t == k.trace
           r == proc[p]
           new == [r EXCEPT !.batch = @ \ {k}]
<1>1. /\ table' = [j \in DOMAIN table \ {k} |-> table[j]] /\ cut' = cut \cup {t}
      /\ acked' = {a \in acked : a[2] # t} /\ Becomes(p, new)
  BY DEF DeleteItem
<1>2. r \in ProcRecord /\ Local(r)
  BY Known
<1>3. new \in ProcRecord /\ new.pc = r.pc /\ new.state = r.state /\ new.read = r.read
      /\ new.since = r.since /\ new.valid = r.valid
  BY <1>2 DEF ProcRecord
<1> HIDE DEF new
<1>4. Local(new) /\ \A tb : Knows(r, tb) => Knows(new, tb)
  BY <1>2, <1>3 DEF Local, Knows, Holds, Verifies
<1>5. /\ \A j : j \in DOMAIN table' <=> j \in DOMAIN table /\ j # k
      /\ \A j \in DOMAIN table' : table'[j] = table[j]
  BY <1>1
<1>6. Typed(table')
  BY <1>5 DEF IInv, Typed
<1>7. Confined(table, table', t)
  BY <1>5 DEF Confined
<1>8. ASSUME NEW u \in Traces
      PROVE  Agreed(table', u) /\ (u \notin cut' => Whole(table', u) /\ Together(table', u))
  <2>1. Agreed(table', u)
    BY <1>5 DEF IInv, Agreed
  <2>2. ASSUME u \notin cut' PROVE Whole(table', u) /\ Together(table', u)
    <3>1. u # t /\ u \notin cut
      BY <1>1, <2>2
    <3>2. Whole(table, u) /\ Together(table, u)
      BY <3>1 DEF IInv
    <3> QED
      BY <1>7, <3>1, <3>2, ConfinedKept, SameKept
  <2> QED
    BY <2>1, <2>2
<1>9. \A q \in Procs : proc'[q] = IF q = p THEN new ELSE proc[q]
  BY <1>1 DEF Becomes, IInv
<1>10. proc' \in [Procs -> ProcRecord]
  BY <1>1, <1>3 DEF Becomes, IInv
<1>11. ASSUME NEW q \in Procs, proc[q].state.trace \notin cut' PROVE Knows(proc[q], table')
  <2> DEFINE u == proc[q].state.trace
  <2>1. u # t /\ u \notin cut /\ Knows(proc[q], table) /\ Local(proc[q])
    BY <1>1, <1>11 DEF IInv
  <2>2. CASE u \notin Traces
    BY <2>1, <2>2 DEF Local, Knows
  <2>3. CASE u \in Traces
    <3>1. Whole(table, u) /\ Same(table, table', u)
      BY <1>7, <2>1, <2>3, ConfinedKept DEF IInv
    <3> QED
      BY <2>1, <3>1, SameKept
  <2> QED
    BY <2>2, <2>3
<1>12. ASSUME NEW q \in Procs
       PROVE  Local(proc'[q]) /\ (proc'[q].state.trace \notin cut' => Knows(proc'[q], table'))
  <2>1. CASE q = p
    BY <1>3, <1>4, <1>9, <1>11, <2>1
  <2>2. CASE q # p
    BY <1>9, <1>11, <2>2 DEF IInv
  <2> QED
    BY <2>1, <2>2
<1>13. ASSUME NEW a \in acked', a[2] \notin cut'
       PROVE  Event(a[2], a[3]) \in DOMAIN table' /\ table'[Event(a[2], a[3])].by = a[1]
  <2>1. a \in acked /\ a[2] # t /\ a[2] \notin cut
    BY <1>1, <1>13
  <2>2. Event(a[2], a[3]) \in DOMAIN table /\ table[Event(a[2], a[3])].by = a[1]
    BY <2>1 DEF IInv, AckedIn
  <2>3. Same(table, table', a[2])
    BY <1>7, <2>1, ConfinedKept
  <2> QED
    BY <2>2, <2>3 DEF Same
<1>14. AckedIn(table', cut', acked') /\ acked' \subseteq Procs \X Traces \X Nat
  BY <1>1, <1>13 DEF AckedIn, IInv
<1> QED
  BY <1>6, <1>8, <1>10, <1>12, <1>14 DEF IInv

\* Every step keeps the invariant.
LEMMA NextIInv == IInv /\ [Next]_vars => IInv'
<1> SUFFICES ASSUME IInv, [Next]_vars PROVE IInv'
  OBVIOUS
<1>1. CASE UNCHANGED vars
  BY <1>1 DEF vars, history, IInv, AckedIn
<1>2. CASE Next
  <2>1. PICK p \in Procs :
          \/ \E t \in Traces : CreateRun(p, t)
          \/ Load(p) \/ Append(p) \/ AppendDecision(p) \/ AddApproval(p)
          \/ Approve(p) \/ Verify(p) \/ Tamper(p) \/ Reset(p) \/ Leave(p)
    BY <1>2 DEF Next
  <2>2. CASE \E t \in Traces : CreateRun(p, t)
    BY <2>2, CreateRunStep
  <2>3. CASE Load(p)
    BY <2>3, LoadMetaStep, LoadEventsStep, LoadDecisionsStep DEF Load
  <2>4. CASE Append(p)
    BY <2>4, ReadHeadStep, AppendEventStep DEF Append
  <2>5. CASE AppendDecision(p)
    BY <2>5, AppendDecisionStep
  <2>6. CASE AddApproval(p)
    BY <2>6, AddApprovalStep
  <2>7. CASE Approve(p)
    BY <2>7, ReadApprovalStep, ReplaceApprovalStep DEF Approve
  <2>8. CASE Verify(p)
    BY <2>8, VerifyEventsStep, VerifyHeadStep DEF Verify
  <2>9. CASE Tamper(p)
    BY <2>9, TamperReadStep, TamperWriteStep DEF Tamper
  <2>10. CASE Reset(p)
    BY <2>10, ResetReadStep, DeleteItemStep DEF Reset
  <2>11. CASE Leave(p)
    BY <2>11, LeaveStep
  <2> QED
    BY <2>1, <2>2, <2>3, <2>4, <2>5, <2>6, <2>7, <2>8, <2>9, <2>10, <2>11
<1> QED
  BY <1>1, <1>2

\* In every reachable state of the repository the inductive invariant holds: the table is
\* typed, a trace no reset has touched is whole, and a process that holds one holds an
\* older revision or the stored one.
THEOREM Invariance == Spec => []IInv
BY InitIInv, NextIInv, PTL DEF Spec

-----------------------------------------------------------------------------
(* The properties.                                                         *)

\* A held state with the stored revision is the stored trace, whatever the three reads
\* of load_trace raced with and whatever answer was lost.
THEOREM SnapshotSafe == Spec => []SnapshotFaithful
<1>1. ASSUME IInv PROVE SnapshotFaithful
  <2> SUFFICES ASSUME NEW p \in Procs, Held(p).trace \notin cut, At(p, "ready"), MetaUnchanged(p)
               PROVE  /\ MetaOf(Held(p)) = table[Meta(Held(p).trace)]
                      /\ \A n \in DOMAIN Held(p).events :
                           Held(p).events[n].by = EventsOf(Held(p).trace)[n].by
                      /\ DOMAIN Held(p).events = DOMAIN EventsOf(Held(p).trace)
                      /\ Held(p).decisions = DecisionsOf(Held(p).trace)
    BY DEF SnapshotFaithful
  <2> DEFINE s == Held(p)
             t == Held(p).trace
  <2>1. /\ Typed(table) /\ t \in Traces /\ Holds(proc[p], table) /\ proc[p].pc = "ready"
        /\ proc[p].state = s /\ s.events \in EventMap
    BY <1>1, Known, ProcFields DEF Held, Trace, At, Local, Knows
  <2>2. Current(s, table)
    BY DEF MetaUnchanged, Current, Trace, Held
  <2>3. MetaOf(s) = table[Meta(t)] /\ SameEvents(s, table) /\ SameDecisions(s, table)
    BY <2>1, <2>2 DEF Holds
  <2>4. /\ \A n : n \in DOMAIN EventsOf(t) <=> Event(t, n) \in DOMAIN table
        /\ \A n \in DOMAIN EventsOf(t) : EventsOf(t)[n] = table[Event(t, n)]
        /\ \A n : n \in DecisionsOf(t) <=> Decision(t, n) \in DOMAIN table
    BY <2>1, QueriesRead
  <2>5. s.decisions = DecisionsOf(t) /\ DOMAIN s.events = DOMAIN EventsOf(t)
    BY <2>3, <2>4 DEF SameEvents, SameDecisions
  <2>6. \A n \in DOMAIN s.events : s.events[n].by = EventsOf(t)[n].by
    BY <2>3, <2>4 DEF SameEvents
  <2> QED
    BY <2>3, <2>5, <2>6
<1> QED
  BY <1>1, Invariance, PTL

\* The chain of a trace no reset has touched is whole and ends at HEAD, META agrees with
\* it, and every append that returned is in it.
THEOREM AckedSafe == Spec => []AckedKept
<1>1. ASSUME IInv PROVE AckedKept
  <2>1. ASSUME NEW t \in Traces \ cut, Has(Meta(t))
        PROVE  /\ Has(Head(t)) /\ table[Meta(t)].next = table[Head(t)] + 1
               /\ DOMAIN EventsOf(t) = 1..table[Head(t)]
    <3>1. Typed(table) /\ Whole(table, t)
      BY <1>1 DEF IInv
    <3>2. \A n : n \in DOMAIN EventsOf(t) <=> Event(t, n) \in DOMAIN table
      BY <3>1, QueriesRead
    <3> QED
      BY <2>1, <3>1, <3>2 DEF Whole, Has
  <2>2. \A a \in acked : a[2] \notin cut =>
          Has(Event(a[2], a[3])) /\ table[Event(a[2], a[3])].by = a[1]
    BY <1>1 DEF IInv, AckedIn, Has
  <2> QED
    BY <2>1, <2>2 DEF AckedKept
<1> QED
  BY <1>1, Invariance, PTL

\* The three copies of an approval have one version, and before a reset they are all
\* there or all absent.
THEOREM CopiesSafe == Spec => []ApprovalCopiesAgree
<1>1. IInv => ApprovalCopiesAgree
  BY DEF IInv, ApprovalCopiesAgree, Agreed, Together
<1> QED
  BY <1>1, Invariance, PTL

\* A verdict of verify_trace has an explanation in the trace.
THEOREM VerdictSafe == Spec => []VerdictExplained
<1>1. ASSUME IInv PROVE VerdictExplained
  <2> SUFFICES ASSUME NEW p \in Procs, At(p, "verdict")
               PROVE  LET t == Trace(p)
                          clean == \A n \in DOMAIN Held(p).events : Held(p).events[n].clean
                      IN  /\ proc[p].valid =>
                               clean /\ \E head \in 0..MaxEvents : DOMAIN Held(p).events = 1..head
                          /\ ~proc[p].valid => ~clean \/ t \in cut \/ table[Meta(t)].rev > proc[p].since
    BY DEF VerdictExplained
  <2>1. Local(proc[p]) /\ (Trace(p) \notin cut => Knows(proc[p], table))
    BY <1>1, Known
  <2> QED
    BY <2>1 DEF At, Held, Trace, Local, Knows
<1> QED
  BY <1>1, Invariance, PTL

-----------------------------------------------------------------------------
(***************************************************************************)
(* A reset of the repository can be resumed, whatever other processes      *)
(* write, and however many resets run at once or die half way.             *)
(***************************************************************************)
-----------------------------------------------------------------------------
(* The inductive invariant, beside IInv.                                    *)

\* A run whose META is there has asked for its approval, which it does once.
Asked(tb, t) == Meta(t) \in DOMAIN tb => tb[Meta(t)].asked

\* The items of trace t's partition.
Partition(tb, t) == {k \in DOMAIN tb : k.trace = t /\ k.kind \in PartitionKinds}

\* Key k is in a batch on its way, or was left by its batch.
Going(pr, sk, k) == k \in sk \/ \E q \in Procs : k \in pr[q].batch

\* The trace of a held state may be gone; if not, its META is newer or agrees with the
\* state on whether an approval was asked for.
AskedOnce(r, tb) ==
  LET s == r.state
  IN  r.pc \in {"loadEvents", "loadDecisions", "ready", "append", "tamper"}
        /\ Meta(s.trace) \in DOMAIN tb =>
          /\ s.rev <= tb[Meta(s.trace)].rev
          /\ s.rev = tb[Meta(s.trace)].rev => s.asked = tb[Meta(s.trace)].asked

Keys(r) == r.todo \cup r.batch

\* A reset's traces, keys and batch: what has not been deleted is still to be found
\* there before the pointer it is found by, unless a batch left it.
Plan(r, tb, sk, ls, c, lt) ==
  /\ r.pc # "reset" => r.todo = {} /\ r.batch = {} /\ r.traces = {}
  /\ r.batch # {} => r.traces = {}
  /\ IsFiniteSet(r.todo) /\ r.traces \subseteq ls
  /\ \A k \in Keys(r) : k.trace \in ls /\ (k.trace \notin c => k \in DOMAIN tb)
  /\ \A t \in Traces :
       /\ ApprovalCopies(t) \cap Keys(r) # {} => Asked(tb, t)
       /\ NsTrace(t) \in Keys(r) =>
            /\ t \in r.traces \/ Meta(t) \in Keys(r) \cup sk \/ Meta(t) \notin DOMAIN tb
            /\ t \notin lt /\ t \notin r.traces => Partition(tb, t) \subseteq Keys(r) \cup sk
       /\ NsTrace(t) \in r.batch => \A k \in r.todo : k.trace = t => k.kind \notin PartitionKinds
       /\ NsApproval(t) \in Keys(r) => Pointer(t) \in Keys(r) \cup sk \/ Pointer(t) \notin DOMAIN tb
       /\ NsApproval(t) \in r.batch => Pointer(t) \notin r.todo

\* What can be opened is listed, or about to be deleted.
Listed(tb, pr, sk, lt, t) ==
  /\ Meta(t) \in DOMAIN tb => NsTrace(t) \in DOMAIN tb \/ Going(pr, sk, Meta(t))
  /\ Pointer(t) \in DOMAIN tb => NsApproval(t) \in DOMAIN tb \/ Going(pr, sk, Pointer(t))
  /\ t \notin lt /\ NsTrace(t) \notin DOMAIN tb => \A k \in Partition(tb, t) : Going(pr, sk, k)

\* Only events and decisions are numbered.
Shaped(tb) == \A k \in DOMAIN tb : k.kind \notin {"EVENT", "DECISION"} => k.n = 0

RInv ==
  /\ IsFiniteSet(DOMAIN table) /\ Shaped(table) /\ cut \subseteq listed
  /\ \A t \in Traces :
       /\ ApprovalCopies(t) \cap DOMAIN table # {} => Asked(table, t)
       /\ t \notin cut /\ Meta(t) \notin DOMAIN table => ApprovalCopies(t) \cap DOMAIN table = {}
       /\ Listed(table, proc, skipped, late, t)
  /\ \A p \in Procs : AskedOnce(proc[p], table) /\ Plan(proc[p], table, skipped, listed, cut, late)

-----------------------------------------------------------------------------
(* Finite sets, keys and the order of the deletions.                       *)

\* A set of traces has a least one.
LEMMA LeastTrace ==
  ASSUME NEW S, S \subseteq Nat, S # {}
  PROVE  Min(S) \in S
<1> DEFINE R == OpToRel(<, Nat)
<1>1. IsWellFoundedOn(R, Nat)
  BY NatLessThanWellFounded
<1>2. \A x, y \in Nat : <<y, x>> \in R <=> y < x
  BY DEF OpToRel
<1> HIDE DEF R
<1>3. PICK x \in S : \A y \in S : ~(<<y, x>> \in R)
  BY <1>1, WFMin
<1>4. ASSUME NEW y \in S PROVE x <= y
  <2>1. x \in Nat /\ y \in Nat
    OBVIOUS
  <2>2. ~(y < x)
    BY <1>2, <1>3, <2>1
  <2> QED
    BY <2>1, <2>2
<1> QED
  BY <1>3, <1>4 DEF Min

\* Writing finitely many items leaves a finite table.
LEMMA FinitePut ==
  ASSUME NEW f, NEW g, IsFiniteSet(DOMAIN f), IsFiniteSet(DOMAIN g)
  PROVE  IsFiniteSet(DOMAIN (f ++ g))
<1>1. DOMAIN (f ++ g) = DOMAIN f \cup DOMAIN g
  BY Overwrite
<1> QED
  BY <1>1, FS_Union

\* One item, and the copies of an approval, are finitely many.
LEMMA FiniteItems ==
  ASSUME NEW t, NEW v
  PROVE  /\ \A k : IsFiniteSet(DOMAIN Item(k, v))
         /\ IsFiniteSet(DOMAIN [k \in ApprovalCopies(t) |-> v])
<1>1. ASSUME NEW k PROVE IsFiniteSet(DOMAIN Item(k, v))
  <2>1. DOMAIN Item(k, v) = {k}
    BY OneItem
  <2> QED
    BY <2>1, FS_Singleton
<1>2. IsFiniteSet({Approval(t)} \cup {Pointer(t)})
  BY FS_Singleton, FS_Union
<1>3. IsFiniteSet(({Approval(t)} \cup {Pointer(t)}) \cup {NsApproval(t)})
  BY <1>2, FS_Singleton, FS_Union
<1>4. DOMAIN [k \in ApprovalCopies(t) |-> v] = ({Approval(t)} \cup {Pointer(t)}) \cup {NsApproval(t)}
  BY DEF ApprovalCopies
<1> QED
  BY <1>1, <1>3, <1>4

\* The kinds of a trace's keys.
LEMMA KeyKinds ==
  ASSUME NEW t
  PROVE  /\ Meta(t).kind \in PartitionKinds /\ NsTrace(t).kind = "NS_TRACE"
         /\ Pointer(t).kind = "POINTER" /\ NsApproval(t).kind = "NS_APPROVAL"
         /\ {"NS_TRACE", "NS_APPROVAL", "POINTER"} \cap PartitionKinds = {}
<1>1. PartitionKinds = {"APPROVAL", "DECISION", "EVENT", "HEAD", "META"}
  <2>1. 1..5 = {1, 2, 3, 4, 5}
    OBVIOUS
  <2>2. Kinds[1] = "APPROVAL" /\ Kinds[2] = "DECISION" /\ Kinds[3] = "EVENT" /\ Kinds[4] = "HEAD"
        /\ Kinds[5] = "META"
    BY DEF Kinds
  <2> QED
    BY <2>1, <2>2 DEF PartitionKinds
<1> QED
  BY <1>1, KeyFields DEF Meta, NsTrace, Pointer, NsApproval

\* The place of each kind among the kinds.
LEMMA Ranks ==
  LET rank(kind) == CHOOSE i \in DOMAIN Kinds : Kinds[i] = kind
  IN  /\ \A k \in KeyType : rank(k.kind) \in Nat
      /\ rank("POINTER") = 6 /\ rank("NS_APPROVAL") = 7
<1> DEFINE rank(kind) == CHOOSE i \in DOMAIN Kinds : Kinds[i] = kind
<1>1. DOMAIN Kinds = 1..8
  BY DEF Kinds
<1>2. /\ Kinds[1] = "APPROVAL" /\ Kinds[2] = "DECISION" /\ Kinds[3] = "EVENT" /\ Kinds[4] = "HEAD"
      /\ Kinds[5] = "META" /\ Kinds[6] = "POINTER" /\ Kinds[7] = "NS_APPROVAL"
      /\ Kinds[8] = "NS_TRACE"
  BY DEF Kinds
<1>3. \A k \in KeyType : \E i \in 1..8 : Kinds[i] = k.kind
  BY <1>2 DEF KeyType
<1>4. \A k \in KeyType : rank(k.kind) \in Nat
  <2>1. \A k \in KeyType : rank(k.kind) \in DOMAIN Kinds
    BY <1>1, <1>3
  <2> HIDE DEF rank
  <2> QED
    BY <1>1, <2>1
<1>5. \A i \in 1..8 : i \in {1, 2, 3, 4, 5, 6, 7, 8}
  OBVIOUS
<1>6. \A i \in DOMAIN Kinds : (Kinds[i] = "POINTER" <=> i = 6) /\ (Kinds[i] = "NS_APPROVAL" <=> i = 7)
  BY <1>1, <1>2, <1>5
<1>7. 6 \in DOMAIN Kinds /\ 7 \in DOMAIN Kinds
  BY <1>1
<1>8. rank("POINTER") = 6 /\ rank("NS_APPROVAL") = 7
  BY <1>6, <1>7
<1> QED
  BY <1>4, <1>8

\* delete_keys has the items of a trace before the pointer it is found by, with all that
\* comes before them; an approval's pointer too.
LEMMA PointersLast ==
  ASSUME NEW t \in Traces, NEW j \in KeyType
  PROVE  /\ \A k \in KeyType : k.kind \in PartitionKinds /\ Before(j, k) => Before(j, NsTrace(t))
         /\ Before(j, Pointer(t)) => Before(j, NsApproval(t))
<1> DEFINE rank(kind) == CHOOSE i \in DOMAIN Kinds : Kinds[i] = kind
<1>1. rank(j.kind) \in Nat /\ rank("POINTER") = 6 /\ rank("NS_APPROVAL") = 7
  BY Ranks
<1>2. /\ \A k \in KeyType : k.kind \in PartitionKinds => DeleteOrder(k)[1] = 1
      /\ j.kind \notin PartitionKinds => DeleteOrder(j)[1] = 2 /\ DeleteOrder(j)[2] = rank(j.kind)
      /\ DeleteOrder(NsTrace(t))[1] = 2
  BY KeyKinds DEF DeleteOrder
<1>3. DeleteOrder(Pointer(t))[1] = 2 /\ DeleteOrder(Pointer(t))[2] = 6
  BY <1>1, KeyKinds DEF DeleteOrder
<1>4. DeleteOrder(NsApproval(t))[1] = 2 /\ DeleteOrder(NsApproval(t))[2] = 7
  BY <1>1, KeyKinds DEF DeleteOrder
<1> HIDE DEF rank
<1>5. /\ \A a, b : DeleteOrder(a)[1] < DeleteOrder(b)[1] => Before(a, b)
      /\ \A a, b : DeleteOrder(a)[1] = DeleteOrder(b)[1] /\ DeleteOrder(a)[2] < DeleteOrder(b)[2] =>
           Before(a, b)
  <2>1. 1 \in 1..4 /\ 2 \in 1..4 /\ (\A i : i \notin 1..(1 - 1)) /\ \A i \in 1..(2 - 1) : i = 1
    OBVIOUS
  <2> QED
    BY <2>1 DEF Before
<1>6. \A a, b : Before(a, b) =>
        \/ DeleteOrder(a)[1] < DeleteOrder(b)[1]
        \/ DeleteOrder(a)[1] = DeleteOrder(b)[1] /\ DeleteOrder(a)[2] < DeleteOrder(b)[2]
        \/ DeleteOrder(a)[1] = DeleteOrder(b)[1] /\ DeleteOrder(a)[2] = DeleteOrder(b)[2]
  <2>1. \A i \in 1..4 : i = 1 \/ i = 2 \/ (1 \in 1..(i - 1) /\ 2 \in 1..(i - 1))
    OBVIOUS
  <2>2. 1 \in 1..(2 - 1)
    OBVIOUS
  <2> QED
    BY <2>1, <2>2 DEF Before
<1>7. ASSUME NEW k \in KeyType, k.kind \in PartitionKinds, Before(j, k) PROVE Before(j, NsTrace(t))
  <2>1. j.kind \in PartitionKinds
    BY <1>2, <1>6, <1>7
  <2>2. DeleteOrder(j)[1] < DeleteOrder(NsTrace(t))[1]
    BY <1>2, <2>1
  <2> QED
    BY <1>5, <2>2
<1>8. ASSUME Before(j, Pointer(t)) PROVE Before(j, NsApproval(t))
  <2>1. CASE j.kind \in PartitionKinds
    <3>1. DeleteOrder(j)[1] < DeleteOrder(NsApproval(t))[1]
      BY <1>2, <1>4, <2>1
    <3> QED
      BY <1>5, <3>1
  <2>2. CASE j.kind \notin PartitionKinds
    <3>1. DeleteOrder(j)[1] = 2 /\ DeleteOrder(j)[2] \in Nat
      BY <1>1, <1>2, <2>2
    <3>2. DeleteOrder(j)[2] < 7
      BY <1>3, <1>6, <1>8, <3>1
    <3> QED
      BY <1>4, <1>5, <3>1, <3>2
  <2> QED
    BY <2>1, <2>2
<1> QED
  BY <1>7, <1>8

-----------------------------------------------------------------------------
(* The initial state, and the kinds of a step.                             *)

\* Nothing is stored and nothing is being reset.
LEMMA InitRInv == Init => RInv
<1> SUFFICES ASSUME Init PROVE RInv
  OBVIOUS
<1>1. DOMAIN table = {} /\ proc = [p \in Procs |-> Idle] /\ listed = {} /\ late = {} /\ cut = {}
      /\ skipped = {}
  BY DEF Init
<1>2. Idle.pc = "idle" /\ Idle.todo = {} /\ Idle.batch = {} /\ Idle.traces = {}
  BY DEF Idle
<1>3. IsFiniteSet({})
  BY FS_EmptySet
<1>4. Plan(Idle, table, skipped, listed, cut, late) /\ AskedOnce(Idle, table)
  BY <1>1, <1>2, <1>3 DEF Plan, AskedOnce, Keys
<1>5. \A t \in Traces : Listed(table, proc, skipped, late, t)
  BY <1>1 DEF Listed, Partition
<1>6. Shaped(table)
  BY <1>1 DEF Shaped
<1> QED
  BY <1>1, <1>3, <1>4, <1>5, <1>6 DEF RInv

\* Local variables of a process that is not resetting.
Quiet(r) == r.pc # "reset" /\ r.todo = {} /\ r.batch = {} /\ r.traces = {}

\* A process that is not resetting plans nothing.
LEMMA QuietPlan ==
  ASSUME NEW r, Quiet(r), NEW tb, NEW sk, NEW ls, NEW c, NEW lt
  PROVE  Plan(r, tb, sk, ls, c, lt)
BY FS_EmptySet DEF Quiet, Plan, Keys

\* Only the batches of other processes count, if p's is empty before and after.
LEMMA QuietGoing ==
  ASSUME IInv, NEW p \in Procs, NEW new, Becomes(p, new), proc[p].batch = {},
         skipped \subseteq skipped', NEW k, Going(proc, skipped, k)
  PROVE  Going(proc', skipped', k)
<1>1. \A q \in Procs : proc'[q] = IF q = p THEN new ELSE proc[q]
  BY DEF IInv, Becomes
<1> QED
  BY <1>1 DEF Going

\* A process that is not resetting reads.
LEMMA QuietStep ==
  ASSUME IInv, RInv, NEW p \in Procs, NEW new, Becomes(p, new), Quiet(new), proc[p].batch = {},
         UNCHANGED <<table, listed, late, cut, skipped>>, AskedOnce(new, table)
  PROVE  RInv'
<1>1. \A q \in Procs : proc'[q] = IF q = p THEN new ELSE proc[q]
  BY DEF IInv, Becomes
<1>2. \A t \in Traces : Listed(table, proc, skipped, late, t) => Listed(table, proc', skipped', late, t)
  BY QuietGoing DEF Listed
<1>3. \A q \in Procs : AskedOnce(proc'[q], table) /\ Plan(proc'[q], table, skipped', listed, cut, late)
  BY <1>1, QuietPlan DEF RInv
<1> QED
  BY <1>2, <1>3 DEF RInv

\* A run is created: no reset has a key of the fresh trace.
Created(tb, tc, c, t) ==
  /\ t \notin c /\ NsTrace(t) \notin DOMAIN tb /\ NsTrace(t) \in DOMAIN tc
  /\ ApprovalCopies(t) \cap DOMAIN tc = {}

\* A run is written to: META stays or moves on, and an approval is new or was there.
Continued(tb, tc, c, t) ==
  /\ t \notin c => NsTrace(t) \in DOMAIN tb
  /\ Meta(t) \in DOMAIN tc => Meta(t) \in DOMAIN tb
  /\ NsTrace(t) \in DOMAIN tb <=> NsTrace(t) \in DOMAIN tc
  /\ Meta(t) \in DOMAIN tb =>
       /\ tb[Meta(t)].rev <= tc[Meta(t)].rev
       /\ tb[Meta(t)].rev = tc[Meta(t)].rev => tb[Meta(t)].asked = tc[Meta(t)].asked
       /\ tb[Meta(t)].asked => tc[Meta(t)].asked
  /\ \/ \A k \in ApprovalCopies(t) : k \in DOMAIN tc => k \in DOMAIN tb
     \/ ApprovalCopies(t) \subseteq DOMAIN tc /\ ~Asked(tb, t) /\ Asked(tc, t)

\* A process that is not resetting writes to trace t.
LEMMA PutStep ==
  ASSUME IInv, IInv', RInv, NEW p \in Procs, NEW t \in Traces, NEW new, Becomes(p, new),
         Quiet(new), proc[p].batch = {}, cut' = cut, listed' = listed, skipped' = skipped,
         late' = late \cup ({t} \cap listed), Shaped(table'),
         IsFiniteSet(DOMAIN table'), Confined(table, table', t), DOMAIN table \subseteq DOMAIN table',
         AskedOnce(new, table'), Created(table, table', cut, t) \/ Continued(table, table', cut, t)
  PROVE  RInv'
<1>1. \A q \in Procs : proc'[q] = IF q = p THEN new ELSE proc[q]
  BY DEF IInv, Becomes
<1>2. ASSUME NEW u \in Traces, u # t
      PROVE  /\ \A k : k.trace = u => /\ k \in DOMAIN table <=> k \in DOMAIN table'
                                      /\ k \in DOMAIN table => table'[k] = table[k]
             /\ Partition(table', u) = Partition(table, u) /\ (u \in late' => u \in late)
             /\ Asked(table', u) <=> Asked(table, u)
             /\ ApprovalCopies(u) \cap DOMAIN table' = ApprovalCopies(u) \cap DOMAIN table
             /\ \A k \in {Meta(u), NsTrace(u), NsApproval(u), Pointer(u)} :
                  k \in DOMAIN table <=> k \in DOMAIN table'
  <2>1. \A k : k.trace = u => /\ k \in DOMAIN table <=> k \in DOMAIN table'
                              /\ k \in DOMAIN table => table'[k] = table[k]
    BY <1>2 DEF Confined
  <2>2. Partition(table', u) = Partition(table, u) /\ (u \in late' => u \in late)
    BY <1>2, <2>1 DEF Partition
  <2>3. Meta(u).trace = u /\ NsTrace(u).trace = u /\ \A k \in ApprovalCopies(u) : k.trace = u
    BY KeyTraces
  <2>4. NsApproval(u) \in ApprovalCopies(u) /\ Pointer(u) \in ApprovalCopies(u)
    BY DEF ApprovalCopies
  <2> QED
    BY <2>1, <2>2, <2>3, <2>4 DEF Asked
<1>3. \A k \in DOMAIN table : k \in DOMAIN table'
  OBVIOUS
<1>4. \A k : Going(proc, skipped, k) => Going(proc', skipped', k)
  BY QuietGoing
<1>5. NsApproval(t) \in ApprovalCopies(t) /\ Pointer(t) \in ApprovalCopies(t)
  BY DEF ApprovalCopies
<1>6. ASSUME Created(table, table', cut, t)
      PROVE  /\ Meta(t) \notin DOMAIN table
             /\ \A q \in Procs : /\ NsTrace(t) \notin Keys(proc[q])
                                 /\ ApprovalCopies(t) \cap Keys(proc[q]) = {}
  <2>1. Meta(t) \notin DOMAIN table
    BY <1>6 DEF Created, IInv, Whole
  <2>2. \A q \in Procs : \A k \in Keys(proc[q]) : k.trace = t => k \in DOMAIN table
    BY <1>6 DEF Created, RInv, Plan
  <2> QED
    BY <1>3, <1>6, <2>1, <2>2, KeyTraces DEF Created
<1>7. ASSUME t \notin late' PROVE t \notin listed /\ t \notin cut /\ t \notin late
  BY <1>7 DEF RInv
<1>8. ASSUME NEW u \in Traces
      PROVE  /\ ApprovalCopies(u) \cap DOMAIN table' # {} => Asked(table', u)
             /\ u \notin cut /\ Meta(u) \notin DOMAIN table' => ApprovalCopies(u) \cap DOMAIN table' = {}
             /\ Listed(table', proc', skipped', late', u)
  <2>1. CASE u # t
    <3>1. Listed(table', proc', skipped', late', u)
      BY <1>2, <1>4, <2>1 DEF RInv, Listed
    <3> QED
      BY <1>2, <2>1, <3>1 DEF RInv
  <2>2. CASE u = t /\ Created(table, table', cut, t)
    BY <1>5, <2>2 DEF Created, Listed
  <2>3. CASE u = t /\ Continued(table, table', cut, t)
    <3>1. ApprovalCopies(t) \cap DOMAIN table' # {} => Asked(table', t)
      BY <2>3 DEF Continued, RInv, Asked
    <3>2. t \notin cut /\ Meta(t) \notin DOMAIN table' => ApprovalCopies(t) \cap DOMAIN table' = {}
      BY <1>3, <2>3 DEF Continued, IInv, Whole
    <3>3. Listed(table, proc, skipped, late, t)
      BY DEF RInv
    <3>4. Meta(t) \in DOMAIN table' => NsTrace(t) \in DOMAIN table' \/ Going(proc', skipped', Meta(t))
      BY <1>4, <2>3, <3>3 DEF Continued, Listed
    <3>5. Pointer(t) \in DOMAIN table' => NsApproval(t) \in DOMAIN table' \/ Going(proc', skipped', Pointer(t))
      BY <1>3, <1>4, <1>5, <2>3, <3>3 DEF Continued, Listed
    <3>6. t \notin late' => NsTrace(t) \in DOMAIN table'
      BY <1>7, <2>3 DEF Continued
    <3> QED
      BY <2>3, <3>1, <3>2, <3>4, <3>5, <3>6 DEF Listed
  <2> QED
    BY <2>1, <2>2, <2>3
<1>9. ASSUME NEW q \in Procs, q # p PROVE AskedOnce(proc[q], table')
  <2> DEFINE r == proc[q]
             u == proc[q].state.trace
  <2>1. AskedOnce(r, table) /\ r \in ProcRecord /\ r.state.rev \in Nat
    BY ProcFields DEF RInv, IInv
  <2> SUFFICES ASSUME r.pc \in {"loadEvents", "loadDecisions", "ready", "append", "tamper"},
                      Meta(u) \in DOMAIN table'
               PROVE  /\ r.state.rev <= table'[Meta(u)].rev
                      /\ r.state.rev = table'[Meta(u)].rev => r.state.asked = table'[Meta(u)].asked
    BY DEF AskedOnce
  <2>2. u \in Traces
    BY DEF IInv, Local
  <2>3. CASE u # t
    BY <1>2, <2>1, <2>2, <2>3, KeyTraces DEF AskedOnce
  <2>4. CASE u = t /\ Created(table, table', cut, t)
    BY <1>6, <2>4 DEF Created, IInv, Knows, Holds
  <2>5. CASE u = t /\ Continued(table, table', cut, t)
    <3>1. Meta(t) \in DOMAIN table
      BY <2>5 DEF Continued
    <3>2. table[Meta(t)].rev \in Nat /\ table'[Meta(t)].rev \in Nat
      BY <1>3, <3>1 DEF IInv, Typed, MetaRecord
    <3>3. /\ table[Meta(t)].rev <= table'[Meta(t)].rev
          /\ table[Meta(t)].rev = table'[Meta(t)].rev => table[Meta(t)].asked = table'[Meta(t)].asked
      BY <2>5, <3>1 DEF Continued
    <3>4. /\ r.state.rev <= table[Meta(t)].rev
          /\ r.state.rev = table[Meta(t)].rev => r.state.asked = table[Meta(t)].asked
      BY <2>1, <2>5, <3>1 DEF AskedOnce
    <3>5. /\ r.state.rev <= table'[Meta(t)].rev
          /\ r.state.rev = table'[Meta(t)].rev => r.state.rev = table[Meta(t)].rev
                                                  /\ table[Meta(t)].rev = table'[Meta(t)].rev
      BY <2>1, <3>2, <3>3, <3>4
    <3> QED
      BY <2>5, <3>3, <3>4, <3>5
  <2> QED
    BY <2>3, <2>4, <2>5
<1>10. ASSUME NEW q \in Procs, q # p PROVE Plan(proc[q], table', skipped', listed, cut, late')
  <2> DEFINE r == proc[q]
  <2>1. Plan(r, table, skipped, listed, cut, late)
    BY DEF RInv
  <2>2. \A k \in Keys(r) : k.trace \in listed /\ (k.trace \notin cut => k \in DOMAIN table')
    BY <1>3, <2>1 DEF Plan
  <2>3. ASSUME NEW u \in Traces
        PROVE  /\ ApprovalCopies(u) \cap Keys(r) # {} => Asked(table', u)
               /\ NsTrace(u) \in Keys(r) =>
                    /\ u \in r.traces \/ Meta(u) \in Keys(r) \cup skipped \/ Meta(u) \notin DOMAIN table'
                    /\ u \notin late' /\ u \notin r.traces => Partition(table', u) \subseteq Keys(r) \cup skipped
               /\ NsApproval(u) \in Keys(r) => Pointer(u) \in Keys(r) \cup skipped \/ Pointer(u) \notin DOMAIN table'
    <3>1. CASE u # t
      BY <1>2, <2>1, <3>1 DEF Plan
    <3>2. CASE u = t /\ Created(table, table', cut, t)
      BY <1>5, <1>6, <3>2
    <3>3. CASE u = t /\ Continued(table, table', cut, t)
      <4>1. ApprovalCopies(t) \cap Keys(r) # {} => Asked(table, t)
        BY <2>1 DEF Plan
      <4>2. Asked(table, t) => Asked(table', t)
        BY <3>3 DEF Continued, Asked
      <4>3. NsTrace(t) \in Keys(r) =>
              t \in r.traces \/ Meta(t) \in Keys(r) \cup skipped \/ Meta(t) \notin DOMAIN table'
        BY <2>1, <3>3 DEF Plan, Continued
      <4>4. NsTrace(t) \in Keys(r) => t \in late'
        BY <2>1, KeyTraces DEF Plan
      <4>5. NsApproval(t) \in Keys(r) => Pointer(t) \in Keys(r) \cup skipped \/ Pointer(t) \notin DOMAIN table'
        BY <1>5, <2>1, <3>3, <4>1 DEF Plan, Continued
      <4> QED
        BY <3>3, <4>1, <4>2, <4>3, <4>4, <4>5
    <3> QED
      BY <3>1, <3>2, <3>3
  <2> QED
    BY <2>1, <2>2, <2>3 DEF Plan
<1>11. \A q \in Procs : AskedOnce(proc'[q], table') /\ Plan(proc'[q], table', skipped', listed, cut, late')
  BY <1>1, <1>9, <1>10, QuietPlan
<1> QED
  BY <1>8, <1>11 DEF RInv

-----------------------------------------------------------------------------
(* The steps of a reset.                                                   *)

\* A key of the namespace's list or an approval's copy is the key of its trace.
LEMMA UnnumberedKeys ==
  ASSUME IInv, RInv, NEW k \in DOMAIN table
  PROVE  /\ k \in KeyType /\ k.trace \in Traces
         /\ k.kind = "NS_TRACE" => k = NsTrace(k.trace)
         /\ k.kind = "NS_APPROVAL" => k = NsApproval(k.trace)
<1>1. k \in KeyType /\ k.trace \in Traces
  BY DEF IInv, Typed, KeyType
<1>2. k = Key(k.trace, k.kind, k.n)
  BY <1>1, KeyOfFields
<1>3. k.kind \in {"NS_TRACE", "NS_APPROVAL"} => k.n = 0
  BY DEF RInv, Shaped
<1> QED
  BY <1>1, <1>2, <1>3 DEF NsTrace, NsApproval

\* A reset lists the namespace's pointers.
LEMMA ResetListKept ==
  ASSUME IInv, RInv, NEW p \in Procs, ResetList(p)
  PROVE  RInv'
<1> DEFINE pointers == {k \in DOMAIN table : k.kind \in {"NS_TRACE", "NS_APPROVAL"}}
           lists == {q \in pointers : q.kind = "NS_APPROVAL"}
           traces == {k.trace : k \in {q \in pointers : q.kind = "NS_TRACE"}}
           approvals == {k.trace : k \in lists}
           targets == {Pointer(t) : t \in approvals}
           todo == pointers \cup targets
           new == [Idle EXCEPT !.pc = "reset", !.traces = traces, !.todo = todo]
<1>1. /\ listed' = listed \cup traces \cup approvals /\ Becomes(p, new) /\ proc[p].pc = "idle"
      /\ UNCHANGED <<table, late, cut, skipped>>
  BY DEF ResetList, At
<1>2. IsFiniteSet(todo)
  <2>1. IsFiniteSet(pointers) /\ IsFiniteSet(lists)
    BY FS_Subset DEF RInv
  <2> DEFINE f == [k \in lists |-> Pointer(k.trace)]
  <2>2. f \in Surjection(lists, targets)
    BY DEF Surjection
  <2>3. IsFiniteSet(targets)
    BY <2>1, <2>2, FS_Surjection
  <2> QED
    BY <2>1, <2>3, FS_Union
<1>3. /\ \A t : NsTrace(t) \in pointers <=> t \in traces
      /\ \A t : NsApproval(t) \in pointers <=> t \in approvals
      /\ traces \cup approvals \subseteq Traces
  BY UnnumberedKeys, KeyTraces, KeyKinds DEF ApprovalCopies
<1>4. /\ \A k \in pointers : k \in DOMAIN table /\ k.trace \in traces \cup approvals
      /\ \A t : Pointer(t) \in todo => t \in approvals
      /\ \A t \in approvals : Pointer(t) \in todo
      /\ \A t : Approval(t) \notin todo
      /\ \A k \in todo : k \in pointers \/ \E t \in approvals : k = Pointer(t)
      /\ \A t : (NsTrace(t) \in todo => NsTrace(t) \in pointers)
                /\ (NsApproval(t) \in todo => NsApproval(t) \in pointers)
  <2>1. \A k \in pointers : k \in DOMAIN table /\ k.trace \in traces \cup approvals
    OBVIOUS
  <2>2. \A t, u : /\ Pointer(t) = Pointer(u) => t = u
                  /\ NsTrace(t) # Pointer(u) /\ NsApproval(t) # Pointer(u) /\ Approval(t) # Pointer(u)
    BY KeyFields DEF Pointer, NsTrace, NsApproval, Approval
  <2>3. \A t : Pointer(t) \notin pointers /\ Approval(t) \notin pointers
    BY KeyFields DEF Pointer, Approval
  <2>4. \A t \in approvals : Pointer(t) \in todo
    OBVIOUS
  <2>5. \A k \in todo : k \in pointers \/ \E t \in approvals : k = Pointer(t)
    OBVIOUS
  <2> HIDE DEF pointers, todo, approvals
  <2> QED
    BY <2>1, <2>2, <2>3, <2>4, <2>5
<1> HIDE DEF pointers, traces, approvals, todo
<1>5. /\ new.pc = "reset" /\ new.traces = traces /\ new.todo = todo /\ new.batch = {}
      /\ Keys(new) = todo
  BY DEF Idle, Keys
<1>6. proc[p].batch = {} /\ \A q \in Procs : proc'[q] = IF q = p THEN new ELSE proc[q]
  BY <1>1 DEF IInv, Becomes, RInv, Plan
<1>7. \A k : Going(proc, skipped, k) => Going(proc', skipped', k)
  BY <1>1, <1>6, QuietGoing
<1> HIDE DEF new
<1>8. \A t \in approvals : Asked(table, t) /\ (t \notin cut => Pointer(t) \in DOMAIN table)
  <2> TAKE t \in approvals
  <2>1. t \in Traces /\ NsApproval(t) \in DOMAIN table
    BY <1>3, <1>4
  <2> QED
    BY <2>1 DEF RInv, ApprovalCopies, IInv, Together
<1>9. Plan(new, table, skipped, listed', cut, late)
  <2>1. \A k \in Keys(new) : k.trace \in listed' /\ (k.trace \notin cut => k \in DOMAIN table)
    <3> TAKE k \in Keys(new)
    <3>1. CASE k \in pointers
      BY <1>1, <1>4, <3>1
    <3>2. CASE k \notin pointers
      <4>1. PICK t \in approvals : k = Pointer(t)
        BY <1>4, <1>5, <3>2
      <4>2. k.trace = t
        BY <4>1, KeyTraces DEF ApprovalCopies
      <4> QED
        BY <1>1, <1>8, <4>1, <4>2
    <3> QED
      BY <3>1, <3>2
  <2>2. ASSUME NEW t \in Traces
        PROVE  /\ ApprovalCopies(t) \cap Keys(new) # {} => Asked(table, t)
               /\ NsTrace(t) \in Keys(new) => t \in new.traces
               /\ NsApproval(t) \in Keys(new) => Pointer(t) \in Keys(new)
    BY <1>3, <1>4, <1>5, <1>8 DEF ApprovalCopies
  <2> QED
    BY <1>1, <1>2, <1>5, <2>1, <2>2 DEF Plan
<1>10. AskedOnce(new, table)
  BY <1>5 DEF AskedOnce
<1>11. ASSUME NEW q \in Procs, q # p PROVE Plan(proc[q], table, skipped, listed', cut, late)
  <2>1. listed \subseteq listed' /\ Plan(proc[q], table, skipped, listed, cut, late)
    BY <1>1 DEF RInv
  <2> QED
    BY <2>1 DEF Plan
<1>12. \A q \in Procs : AskedOnce(proc'[q], table') /\ Plan(proc'[q], table', skipped', listed', cut', late')
  BY <1>1, <1>6, <1>9, <1>10, <1>11 DEF RInv
<1>13. \A t \in Traces : Listed(table', proc', skipped', late', t)
  BY <1>1, <1>7 DEF RInv, Listed
<1> QED
  BY <1>1, <1>12, <1>13 DEF RInv

\* A reset queries one trace.
LEMMA ResetQueryKept ==
  ASSUME IInv, RInv, NEW p \in Procs, ResetQuery(p)
  PROVE  RInv'
<1> DEFINE r == proc[p]
           t == Min(r.traces)
           items == Query(t, PartitionKinds)
           new == [r EXCEPT !.traces = @ \ {t}, !.todo = @ \cup items]
<1>1. /\ r \in ProcRecord /\ r.pc = "reset" /\ r.traces # {} /\ r.traces \subseteq Traces
      /\ Becomes(p, new) /\ UNCHANGED <<table, listed, late, cut, skipped>>
  BY DEF IInv, ProcRecord, ResetQuery, Reads, history, At
<1>2. t \in r.traces
  BY <1>1, LeastTrace, RepositoryAssumption
<1>3. /\ items = Partition(table, t) /\ items \subseteq DOMAIN table
      /\ \A k \in items : k.trace = t /\ k.kind \in PartitionKinds
  BY DEF Query, Partition
<1> HIDE DEF t, items
<1>4. Plan(r, table, skipped, listed, cut, late)
  BY DEF RInv
<1>5. r.batch = {}
  BY <1>1, <1>4 DEF Plan
<1>6. /\ new.pc = "reset" /\ new.traces = r.traces \ {t} /\ new.todo = r.todo \cup items
      /\ new.batch = {} /\ Keys(new) = Keys(r) \cup items
  BY <1>1, <1>5 DEF ProcRecord, Keys
<1>7. \A q \in Procs : proc'[q] = IF q = p THEN new ELSE proc[q]
  BY <1>1 DEF IInv, Becomes
<1>8. \A k : Going(proc, skipped, k) => Going(proc', skipped', k)
  BY <1>1, <1>5, QuietGoing
<1> HIDE DEF new
<1>9. Plan(new, table, skipped, listed, cut, late)
  <2>1. IsFiniteSet(new.todo)
    <3>1. IsFiniteSet(items) /\ IsFiniteSet(r.todo)
      BY <1>3, <1>4, FS_Subset DEF RInv, Plan
    <3>2. IsFiniteSet(r.todo \cup items)
      BY <3>1, FS_Union
    <3> QED
      BY <1>6, <3>2
  <2>2. new.traces \subseteq listed /\ t \in listed
    BY <1>2, <1>4, <1>6 DEF Plan
  <2>3. \A k \in Keys(new) : k.trace \in listed /\ (k.trace \notin cut => k \in DOMAIN table)
    BY <1>3, <1>4, <1>6, <2>2 DEF Plan
  <2>4. ASSUME NEW u \in Traces
        PROVE  /\ ApprovalCopies(u) \cap Keys(new) # {} => Asked(table, u)
               /\ NsTrace(u) \in Keys(new) =>
                    /\ u \in new.traces \/ Meta(u) \in Keys(new) \cup skipped \/ Meta(u) \notin DOMAIN table
                    /\ u \notin late /\ u \notin new.traces => Partition(table, u) \subseteq Keys(new) \cup skipped
               /\ NsApproval(u) \in Keys(new) => Pointer(u) \in Keys(new) \cup skipped \/ Pointer(u) \notin DOMAIN table
    <3>1. ApprovalCopies(u) \cap Keys(new) # {} => Asked(table, u)
      <4>1. ApprovalCopies(u) \cap items # {} => Asked(table, u)
        BY <1>3 DEF RInv
      <4>2. ApprovalCopies(u) \cap Keys(r) # {} => Asked(table, u)
        BY <1>4 DEF Plan
      <4> QED
        BY <1>6, <4>1, <4>2
    <3>2. NsTrace(u) \notin items /\ NsApproval(u) \notin items
      BY <1>3, KeyKinds
    <3>3. Meta(t) \in DOMAIN table => Meta(t) \in items
      BY <1>3, KeyKinds, KeyTraces DEF Partition
    <3>4. CASE u = t
      <4>1. NsTrace(u) \in Keys(new) =>
              /\ Meta(u) \in Keys(new) \cup skipped \/ Meta(u) \notin DOMAIN table
              /\ Partition(table, u) \subseteq Keys(new) \cup skipped
        BY <1>3, <1>6, <3>3, <3>4
      <4>2. NsApproval(u) \in Keys(r) => Pointer(u) \in Keys(r) \cup skipped \/ Pointer(u) \notin DOMAIN table
        BY <1>4 DEF Plan
      <4> QED
        BY <1>6, <3>1, <3>2, <4>1, <4>2
    <3>5. CASE u # t
      BY <1>4, <1>6, <3>1, <3>2, <3>5 DEF Plan
    <3> QED
      BY <3>4, <3>5
  <2> QED
    BY <1>6, <2>1, <2>2, <2>3, <2>4 DEF Plan
<1>10. AskedOnce(new, table)
  BY <1>6 DEF AskedOnce
<1>11. \A q \in Procs : AskedOnce(proc'[q], table') /\ Plan(proc'[q], table', skipped', listed', cut', late')
  BY <1>1, <1>7, <1>9, <1>10 DEF RInv
<1>12. \A u \in Traces : Listed(table', proc', skipped', late', u)
  BY <1>1, <1>8 DEF RInv, Listed
<1> QED
  BY <1>1, <1>11, <1>12 DEF RInv

\* A reset sends its next batch: with a pointer goes all that comes before it.
LEMMA ResetBatchKept ==
  ASSUME IInv, RInv, NEW p \in Procs, ResetBatch(p)
  PROVE  RInv'
<1> DEFINE r == proc[p]
           first(k) == {j \in r.todo : Before(j, k)}
           batch == {k \in r.todo : Cardinality(first(k)) < BatchSize}
<1> PICK left \in SUBSET batch :
      /\ skipped' = skipped \cup left
      /\ Becomes(p, [r EXCEPT !.todo = @ \ batch, !.batch = batch \ left])
  BY DEF ResetBatch
<1> DEFINE new == [r EXCEPT !.todo = @ \ batch, !.batch = batch \ left]
<1>1. /\ r \in ProcRecord /\ r.pc = "reset" /\ r.traces = {} /\ r.batch = {}
      /\ Becomes(p, new) /\ UNCHANGED <<table, listed, late, cut>>
  BY DEF IInv, ResetBatch, At
<1>2. Plan(r, table, skipped, listed, cut, late) /\ r.todo \subseteq KeyType /\ IsFiniteSet(r.todo)
  BY <1>1 DEF RInv, Plan, ProcRecord
<1>3. ASSUME NEW k \in r.todo, NEW l \in batch, \A j \in r.todo : Before(j, k) => Before(j, l)
      PROVE  k \in batch
  <2>1. first(k) \subseteq first(l) /\ first(l) \subseteq r.todo
    BY <1>3
  <2>2. IsFiniteSet(first(l))
    BY <1>2, <2>1, FS_Subset
  <2>3. IsFiniteSet(first(k)) /\ Cardinality(first(k)) <= Cardinality(first(l))
    BY <2>1, <2>2, FS_Subset
  <2>4. Cardinality(first(k)) \in Nat /\ Cardinality(first(l)) \in Nat
    BY <2>2, <2>3, FS_CardinalityType
  <2>5. Cardinality(first(l)) < BatchSize
    OBVIOUS
  <2>6. Cardinality(first(k)) < BatchSize
    <3> HIDE DEF first
    <3> QED
      BY <2>3, <2>4, <2>5, RepositoryAssumption
  <2> QED
    BY <2>6
<1>4. batch \subseteq r.todo
  OBVIOUS
<1> HIDE DEF batch
<1>5. /\ new.pc = "reset" /\ new.traces = {} /\ new.todo = r.todo \ batch
      /\ new.batch = batch \ left /\ Keys(new) \subseteq Keys(r)
      /\ Keys(r) \subseteq Keys(new) \cup skipped' /\ skipped \subseteq skipped'
  BY <1>1, <1>4 DEF ProcRecord, Keys
<1>6. \A q \in Procs : proc'[q] = IF q = p THEN new ELSE proc[q]
  BY <1>1 DEF IInv, Becomes
<1>7. \A k : Going(proc, skipped, k) => Going(proc', skipped', k)
  BY <1>1, <1>5, QuietGoing
<1> HIDE DEF new
<1>8. Plan(new, table, skipped', listed, cut, late)
  <2>1. IsFiniteSet(new.todo)
    BY <1>2, <1>5, FS_Subset
  <2>2. ASSUME NEW t \in Traces
        PROVE  /\ NsTrace(t) \in new.batch => \A k \in new.todo : k.trace = t => k.kind \notin PartitionKinds
               /\ NsApproval(t) \in new.batch => Pointer(t) \notin new.todo
    <3>1. ASSUME NsTrace(t) \in batch, NEW k \in new.todo, k.kind \in PartitionKinds PROVE FALSE
      <4>1. k \in r.todo /\ k \notin batch
        BY <1>5, <3>1
      <4>2. \A j \in r.todo : Before(j, k) => Before(j, NsTrace(t))
        BY <1>2, <3>1, <4>1, PointersLast
      <4> QED
        BY <1>3, <3>1, <4>1, <4>2
    <3>2. ASSUME NsApproval(t) \in batch, Pointer(t) \in new.todo PROVE FALSE
      <4>1. Pointer(t) \in r.todo /\ Pointer(t) \notin batch
        BY <1>5, <3>2
      <4>2. \A j \in r.todo : Before(j, Pointer(t)) => Before(j, NsApproval(t))
        BY <1>2, PointersLast
      <4> QED
        BY <1>3, <3>2, <4>1, <4>2
    <3> QED
      BY <1>5, <3>1, <3>2
  <2> QED
    BY <1>1, <1>2, <1>5, <2>1, <2>2 DEF Plan
<1>9. AskedOnce(new, table)
  BY <1>5 DEF AskedOnce
<1>10. ASSUME NEW q \in Procs, q # p PROVE Plan(proc[q], table, skipped', listed, cut, late)
  <2>1. Plan(proc[q], table, skipped, listed, cut, late)
    BY DEF RInv
  <2> QED
    BY <1>5, <2>1 DEF Plan
<1>11. \A q \in Procs : AskedOnce(proc'[q], table') /\ Plan(proc'[q], table', skipped', listed', cut', late')
  BY <1>1, <1>6, <1>8, <1>9, <1>10 DEF RInv
<1>12. \A t \in Traces : Listed(table', proc', skipped', late', t)
  BY <1>1, <1>7 DEF RInv, Listed
<1> QED
  BY <1>1, <1>11, <1>12 DEF RInv

\* The table deletes one item of a batch.
LEMMA DeleteItemKept ==
  ASSUME IInv, RInv, NEW p \in Procs, NEW k \in proc[p].batch, DeleteItem(p, k)
  PROVE  RInv'
<1> DEFINE r == proc[p]
           new == [r EXCEPT !.batch = @ \ {k}]
<1>1. /\ r \in ProcRecord /\ Becomes(p, new) /\ cut' = cut \cup {k.trace}
      /\ UNCHANGED <<listed, late>> /\ skipped' = skipped \ {k}
      /\ table' = [j \in DOMAIN table \ {k} |-> table[j]]
  BY DEF IInv, DeleteItem
<1>2. /\ \A j : j \in DOMAIN table' <=> j \in DOMAIN table /\ j # k
      /\ \A j \in DOMAIN table' : table'[j] = table[j]
  BY <1>1
<1>3. /\ new.pc = r.pc /\ new.traces = r.traces /\ new.todo = r.todo
      /\ new.batch = r.batch \ {k} /\ new.state = r.state
      /\ Keys(new) \subseteq Keys(r) /\ \A j \in Keys(r) : j = k \/ j \in Keys(new)
  BY <1>1 DEF ProcRecord, Keys
<1>4. \A q \in Procs : proc'[q] = IF q = p THEN new ELSE proc[q]
  BY <1>1 DEF IInv, Becomes
<1> HIDE DEF new
<1>5. \A j : j # k /\ Going(proc, skipped, j) => Going(proc', skipped', j)
  BY <1>1, <1>3, <1>4 DEF Going
<1>6. Plan(r, table, skipped, listed, cut, late) /\ r.traces = {} /\ k \in Keys(r) /\ k.trace \in listed
  BY DEF RInv, Plan, Keys
<1>7. \A j \in r.batch \cup skipped : j = k \/ Going(proc', skipped', j)
  BY <1>1, <1>3, <1>4 DEF Going
<1>8. \A t : /\ Asked(table, t) => Asked(table', t)
             /\ Partition(table', t) \subseteq Partition(table, t) \ {k}
  BY <1>2 DEF Asked, Partition
<1>9. ASSUME NEW q \in Procs
      PROVE  AskedOnce(proc'[q], table') /\ Plan(proc'[q], table', skipped', listed, cut', late)
  <2> DEFINE s == proc'[q]
             o == proc[q]
  <2>1. AskedOnce(o, table) /\ Plan(o, table, skipped, listed, cut, late)
    BY DEF RInv
  <2>2. /\ s.pc = o.pc /\ s.state = o.state /\ s.todo = o.todo /\ s.traces = o.traces
        /\ s.batch \subseteq o.batch /\ Keys(s) \subseteq Keys(o)
        /\ \A j \in Keys(o) : j = k \/ j \in Keys(s)
    BY <1>3, <1>4
  <2> HIDE DEF s
  <2>3. AskedOnce(s, table')
    BY <1>2, <2>1, <2>2 DEF AskedOnce
  <2>4. \A j \in Keys(s) : j.trace \in listed /\ (j.trace \notin cut' => j \in DOMAIN table')
    BY <1>1, <1>2, <2>1, <2>2 DEF Plan
  <2>5. ASSUME NEW t \in Traces
        PROVE  /\ ApprovalCopies(t) \cap Keys(s) # {} => Asked(table', t)
               /\ NsTrace(t) \in Keys(s) =>
                    /\ t \in s.traces \/ Meta(t) \in Keys(s) \cup skipped' \/ Meta(t) \notin DOMAIN table'
                    /\ t \notin late /\ t \notin s.traces => Partition(table', t) \subseteq Keys(s) \cup skipped'
               /\ NsApproval(t) \in Keys(s) => Pointer(t) \in Keys(s) \cup skipped' \/ Pointer(t) \notin DOMAIN table'
    <3>1. ApprovalCopies(t) \cap Keys(s) # {} => Asked(table', t)
      BY <1>8, <2>1, <2>2 DEF Plan
    <3>2. NsTrace(t) \in Keys(s) =>
            t \in s.traces \/ Meta(t) \in Keys(s) \cup skipped' \/ Meta(t) \notin DOMAIN table'
      BY <1>1, <1>2, <2>1, <2>2 DEF Plan
    <3>3. NsTrace(t) \in Keys(s) /\ t \notin late /\ t \notin s.traces =>
            Partition(table', t) \subseteq Keys(s) \cup skipped'
      BY <1>1, <1>8, <2>1, <2>2 DEF Plan
    <3>4. NsApproval(t) \in Keys(s) => Pointer(t) \in Keys(s) \cup skipped' \/ Pointer(t) \notin DOMAIN table'
      BY <1>1, <1>2, <2>1, <2>2 DEF Plan
    <3> QED
      BY <3>1, <3>2, <3>3, <3>4
  <2>6. Plan(s, table', skipped', listed, cut', late)
    BY <2>1, <2>2, <2>4, <2>5 DEF Plan
  <2> QED
    BY <2>3, <2>6 DEF s
<1>10. ASSUME NEW t \in Traces PROVE Listed(table', proc', skipped', late, t)
  <2>1. Listed(table, proc, skipped, late, t)
    BY DEF RInv
  <2>2. CASE NsTrace(t) # k /\ NsApproval(t) # k
    BY <1>2, <1>5, <1>8, <2>1, <2>2 DEF Listed
  <2>3. CASE NsTrace(t) = k
    <3>1. NsTrace(t) \in Keys(r) /\ NsTrace(t) \in r.batch /\ NsApproval(t) # k
      BY <1>6, <2>3, KeyKinds
    <3>2. \A j \in Keys(r) : j.trace = t /\ j.kind \in PartitionKinds => j \in r.batch
      BY <1>6, <3>1 DEF Plan, Keys
    <3>3. Meta(t) \in DOMAIN table' => Going(proc', skipped', Meta(t))
      BY <1>2, <1>6, <1>7, <3>1, <3>2, KeyTraces, KeyKinds DEF Plan
    <3>4. ASSUME t \notin late, NEW j \in Partition(table', t) PROVE Going(proc', skipped', j)
      <4>1. j \in Keys(r) \cup skipped /\ j # k
        BY <1>6, <1>8, <3>1, <3>4 DEF Plan
      <4>2. j.trace = t /\ j.kind \in PartitionKinds
        BY DEF Partition
      <4> QED
        BY <1>7, <3>2, <4>1, <4>2
    <3>5. Pointer(t) \in DOMAIN table' => NsApproval(t) \in DOMAIN table' \/ Going(proc', skipped', Pointer(t))
      BY <1>2, <1>5, <2>1, <3>1 DEF Listed
    <3> QED
      BY <3>3, <3>4, <3>5 DEF Listed
  <2>4. CASE NsApproval(t) = k
    <3>1. NsApproval(t) \in Keys(r) /\ NsApproval(t) \in r.batch /\ NsTrace(t) # k /\ Pointer(t) # k
      BY <1>6, <2>4, KeyKinds
    <3>2. Pointer(t) \in DOMAIN table' => Going(proc', skipped', Pointer(t))
      BY <1>2, <1>6, <1>7, <3>1 DEF Plan, Keys
    <3> QED
      BY <1>2, <1>5, <1>8, <2>1, <3>1, <3>2 DEF Listed
  <2> QED
    BY <2>2, <2>3, <2>4
<1>11. ASSUME NEW t \in Traces
       PROVE  /\ ApprovalCopies(t) \cap DOMAIN table' # {} => Asked(table', t)
              /\ t \notin cut' /\ Meta(t) \notin DOMAIN table' => ApprovalCopies(t) \cap DOMAIN table' = {}
  <2>1. ApprovalCopies(t) \cap DOMAIN table' # {} => Asked(table', t)
    BY <1>2, <1>8 DEF RInv
  <2>2. t \notin cut' => Meta(t) # k /\ t \notin cut
    BY <1>1, KeyTraces
  <2> QED
    BY <1>2, <2>1, <2>2 DEF RInv
<1>12. IsFiniteSet(DOMAIN table')
  <2>1. DOMAIN table' \subseteq DOMAIN table
    BY <1>2
  <2> QED
    BY <2>1, FS_Subset DEF RInv
<1>13. Shaped(table') /\ cut' \subseteq listed
  BY <1>1, <1>2, <1>6 DEF RInv, Shaped
<1> QED
  BY <1>1, <1>9, <1>10, <1>11, <1>12, <1>13 DEF RInv

-----------------------------------------------------------------------------
(* The other processes' steps.                                             *)

\* Outside a reset nothing is planned.
LEMMA QuietNow ==
  ASSUME IInv, RInv, NEW p \in Procs, proc[p].pc # "reset"
  PROVE  Quiet(proc[p])
BY DEF RInv, Plan, Quiet

\* A read by a process that is not resetting.
LEMMA ReadsKept ==
  ASSUME IInv, RInv, NEW p \in Procs, NEW new, Reads(p, new), Quiet(new), proc[p].batch = {},
         AskedOnce(new, table)
  PROVE  RInv'
BY QuietStep DEF Reads, history

\* load_trace, and the head append_event reads, keep revision and asked of the state.
LEMMA LoadsKept ==
  ASSUME IInv, RInv, NEW p \in Procs,
         (\E t \in Traces : LoadMeta(p, t)) \/ LoadEvents(p) \/ LoadDecisions(p) \/ ReadHead(p)
  PROVE  RInv'
<1>1. CASE \E t \in Traces : LoadMeta(p, t)
  <2> PICK t \in Traces : LoadMeta(p, t)
    BY <1>1
  <2> DEFINE s == DecodeState(t, table[Meta(t)])
             new == [Idle EXCEPT !.pc = "loadEvents", !.state = s]
  <2>1. proc[p].pc # "reset" /\ Reads(p, new)
    BY DEF LoadMeta, At
  <2>2. /\ s.trace = t /\ s.rev = table[Meta(t)].rev /\ s.asked = table[Meta(t)].asked
        /\ Meta(t) \in DOMAIN table /\ table[Meta(t)].rev \in Nat
    BY DEF DecodeState, NewState, LoadMeta, Has, IInv, Typed, MetaRecord
  <2> HIDE DEF s
  <2>3. Quiet(new) /\ new.state = s
    BY DEF Quiet, Idle
  <2> HIDE DEF new
  <2>4. AskedOnce(new, table)
    BY <2>2, <2>3 DEF AskedOnce
  <2> QED
    BY <2>1, <2>3, <2>4, QuietNow, ReadsKept DEF Quiet
<1>2. CASE LoadEvents(p)
  <2> DEFINE r == proc[p]
             new == [r EXCEPT !.pc = "loadDecisions", !.state.events = EventsOf(Trace(p))]
  <2>1. r \in ProcRecord /\ r.pc = "loadEvents" /\ Reads(p, new) /\ Quiet(r) /\ AskedOnce(r, table)
    BY <1>2, QuietNow DEF LoadEvents, At, IInv, RInv
  <2>2. /\ Quiet(new) /\ new.state.trace = r.state.trace /\ new.state.rev = r.state.rev
        /\ new.state.asked = r.state.asked
    BY <2>1 DEF Quiet, ProcRecord, StateRecord
  <2> HIDE DEF new
  <2>3. AskedOnce(new, table)
    BY <2>1, <2>2 DEF AskedOnce
  <2> QED
    BY <2>1, <2>2, <2>3, ReadsKept DEF Quiet
<1>3. CASE LoadDecisions(p)
  <2> DEFINE r == proc[p]
             new == [r EXCEPT !.pc = "ready", !.state.decisions = DecisionsOf(Trace(p))]
  <2>1. r \in ProcRecord /\ r.pc = "loadDecisions" /\ Reads(p, new) /\ Quiet(r) /\ AskedOnce(r, table)
    BY <1>3, QuietNow DEF LoadDecisions, At, IInv, RInv
  <2>2. /\ Quiet(new) /\ new.state.trace = r.state.trace /\ new.state.rev = r.state.rev
        /\ new.state.asked = r.state.asked
    BY <2>1 DEF Quiet, ProcRecord, StateRecord
  <2> HIDE DEF new
  <2>3. AskedOnce(new, table)
    BY <2>1, <2>2 DEF AskedOnce
  <2> QED
    BY <2>1, <2>2, <2>3, ReadsKept DEF Quiet
<1>4. CASE ReadHead(p)
  <2> DEFINE r == proc[p]
             new == [r EXCEPT !.pc = "append", !.read = table[Head(Trace(p))]]
  <2>1. r \in ProcRecord /\ r.pc = "ready" /\ Reads(p, new) /\ Quiet(r) /\ AskedOnce(r, table)
    BY <1>4, QuietNow DEF ReadHead, At, IInv, RInv
  <2>2. Quiet(new) /\ new.state = r.state
    BY <2>1 DEF Quiet, ProcRecord
  <2> HIDE DEF new
  <2>3. AskedOnce(new, table)
    BY <2>1, <2>2 DEF AskedOnce
  <2> QED
    BY <2>1, <2>2, <2>3, ReadsKept DEF Quiet
<1> QED
  BY <1>1, <1>2, <1>3, <1>4

\* The reads of a request that holds no state, and the end of a request.
LEMMA RequestsKept ==
  ASSUME IInv, RInv, NEW p \in Procs,
         \/ Leave(p) \/ VerifyHead(p)
         \/ \E t \in Traces : ReadApproval(p, t) \/ VerifyEvents(p, t)
  PROVE  RInv'
<1>1. Quiet(Idle) /\ AskedOnce(Idle, table)
  BY DEF Quiet, Idle, AskedOnce
<1>2. CASE Leave(p)
  BY <1>1, <1>2, ReadsKept DEF Leave
<1>3. CASE VerifyHead(p)
  <2> DEFINE r == proc[p]
             new == [r EXCEPT !.pc = "verdict", !.valid = VerifyChain(Held(p).events, table[Head(Trace(p))])]
  <2>1. r \in ProcRecord /\ r.pc = "verify" /\ (Reads(p, new) \/ Reads(p, Idle)) /\ Quiet(r)
    BY <1>3, QuietNow DEF VerifyHead, At, IInv
  <2>2. Quiet(new) /\ new.pc = "verdict"
    BY <2>1 DEF Quiet, ProcRecord
  <2> HIDE DEF new
  <2>3. AskedOnce(new, table)
    BY <2>2 DEF AskedOnce
  <2> QED
    BY <1>1, <2>1, <2>2, <2>3, ReadsKept DEF Quiet
<1>4. CASE \E t \in Traces : ReadApproval(p, t)
  <2> PICK t \in Traces : ReadApproval(p, t)
    BY <1>4
  <2> DEFINE new == [Idle EXCEPT !.pc = "replace", !.state.trace = t, !.read = table[Pointer(t)]]
  <2>1. Reads(p, new) /\ proc[p].pc # "reset"
    BY DEF ReadApproval, At
  <2>2. Quiet(new) /\ new.pc = "replace"
    BY DEF Quiet, Idle
  <2> HIDE DEF new
  <2>3. AskedOnce(new, table)
    BY <2>2 DEF AskedOnce
  <2> QED
    BY <2>1, <2>2, <2>3, QuietNow, ReadsKept DEF Quiet
<1>5. CASE \E t \in Traces : VerifyEvents(p, t)
  <2> PICK t \in Traces : VerifyEvents(p, t)
    BY <1>5
  <2> DEFINE new == [Idle EXCEPT !.pc = "verify", !.state.trace = t, !.state.events = EventsOf(t),
                                 !.since = IF Has(Meta(t)) THEN table[Meta(t)].rev ELSE 0]
  <2>1. Reads(p, new) /\ proc[p].pc # "reset"
    BY DEF VerifyEvents, At
  <2>2. Quiet(new) /\ new.pc = "verify"
    BY DEF Quiet, Idle
  <2> HIDE DEF new
  <2>3. AskedOnce(new, table)
    BY <2>2 DEF AskedOnce
  <2> QED
    BY <2>1, <2>2, <2>3, QuietNow, ReadsKept DEF Quiet
<1> QED
  BY <1>2, <1>3, <1>4, <1>5

\* The tamper demo reads an event.
LEMMA TamperReadKept ==
  ASSUME IInv, RInv, NEW p \in Procs, NEW n \in 1..MaxEvents, TamperRead(p, n)
  PROVE  RInv'
<1> DEFINE r == proc[p]
           events == Item(n, table[Event(Trace(p), n)]) ++ r.state.events
           new == [r EXCEPT !.pc = "tamper", !.read = n, !.state.events = events]
<1>1. r \in ProcRecord /\ r.pc = "ready" /\ Reads(p, new) /\ Quiet(r) /\ AskedOnce(r, table)
  BY QuietNow DEF TamperRead, At, IInv, RInv
<1> HIDE DEF events
<1>2. /\ Quiet(new) /\ new.state.trace = r.state.trace /\ new.state.rev = r.state.rev
      /\ new.state.asked = r.state.asked
  BY <1>1 DEF Quiet, ProcRecord, StateRecord
<1> HIDE DEF new
<1>3. AskedOnce(new, table)
  BY <1>1, <1>2 DEF AskedOnce
<1> QED
  BY <1>1, <1>2, <1>3, ReadsKept DEF Quiet

-----------------------------------------------------------------------------
(* The writes.                                                             *)

\* A write that was refused.
LEMMA RefusedKept ==
  ASSUME IInv, RInv, NEW p \in Procs, proc[p].pc \in {"ready", "append"},
         Becomes(p, [Idle EXCEPT !.pc = "ready", !.state = Held(p)]),
         UNCHANGED <<table, listed, late, cut, skipped>>
  PROVE  RInv'
<1> DEFINE new == [Idle EXCEPT !.pc = "ready", !.state = Held(p)]
<1>1. Becomes(p, new) /\ Quiet(proc[p]) /\ AskedOnce(proc[p], table)
  BY QuietNow DEF RInv
<1>2. Quiet(new) /\ new.state = proc[p].state
  BY DEF Quiet, Idle, Held
<1> HIDE DEF new
<1>3. AskedOnce(new, table)
  BY <1>1, <1>2 DEF AskedOnce
<1> QED
  BY <1>1, <1>2, <1>3, QuietStep DEF Quiet

\* The keys of a trace that are not numbered have number 0.
LEMMA ShapedKeys ==
  ASSUME NEW t, NEW n
  PROVE  /\ Meta(t).n = 0 /\ Head(t).n = 0 /\ NsTrace(t).n = 0
         /\ \A k \in ApprovalCopies(t) : k.n = 0
         /\ Event(t, n).kind = "EVENT" /\ Decision(t, n).kind = "DECISION"
BY KeyFields DEF Meta, Head, NsTrace, Event, Decision, ApprovalCopies, Approval, Pointer, NsApproval

\* A write on the stored revision: META has the writer's asked, and an approval can only
\* be new if none was asked for.
LEMMA RevisionKept ==
  ASSUME IInv, IInv', RInv, NEW p \in Procs, NEW t \in Traces, Trace(p) = t,
         proc[p].pc \in {"ready", "append"}, MetaUnchanged(p),
         NEW s \in StateRecord, s.trace = t, s.rev = Held(p).rev + 1,
         NEW answer \in BOOLEAN,
         Becomes(p, [Idle EXCEPT !.pc = "ready", !.state = IF answer THEN s ELSE Held(p)]),
         cut' = cut, listed' = listed, skipped' = skipped, late' = late \cup ({t} \cap listed),
         NEW items, table' = items ++ table, IsFiniteSet(DOMAIN items),
         \A k \in DOMAIN items : k.trace = t, Shaped(items), NsTrace(t) \notin DOMAIN items,
         Meta(t) \in DOMAIN items, items[Meta(t)] = MetaOf(s),
         \/ ApprovalCopies(t) \cap DOMAIN items = {} /\ s.asked = Held(p).asked
         \/ ApprovalCopies(t) \subseteq DOMAIN items /\ ~Held(p).asked /\ s.asked
  PROVE  RInv'
<1> DEFINE held == IF answer THEN s ELSE Held(p)
           new == [Idle EXCEPT !.pc = "ready", !.state = held]
<1>1. /\ Held(p).rev \in Nat /\ Held(p).trace = t /\ Held(p) = proc[p].state
      /\ AskedOnce(proc[p], table) /\ Quiet(proc[p])
  BY Known, ProcFields, QuietNow DEF Held, Trace, RInv
<1>2. Becomes(p, new) /\ held.trace = t
  BY <1>1
<1>3. held = s \/ held = Held(p)
  OBVIOUS
<1> HIDE DEF held
<1>4. Quiet(new) /\ new.state = held /\ new.pc = "ready"
  BY DEF Quiet, Idle
<1> HIDE DEF new
<1>5. /\ \A k : k \in DOMAIN table' <=> k \in DOMAIN items \/ k \in DOMAIN table
      /\ \A k \in DOMAIN table' : table'[k] = IF k \in DOMAIN items THEN items[k] ELSE table[k]
  BY DEF ++
<1>6. Shaped(table') /\ IsFiniteSet(DOMAIN table') /\ Confined(table, table', t)
  <2>1. Shaped(table')
    BY <1>5 DEF Shaped, RInv
  <2>2. IsFiniteSet(DOMAIN table')
    BY FinitePut DEF RInv
  <2>3. Confined(table, table', t)
    BY Put
  <2> QED
    BY <2>1, <2>2, <2>3
<1>7. /\ Meta(t) \in DOMAIN table /\ table[Meta(t)].rev = Held(p).rev
      /\ table[Meta(t)].asked = Held(p).asked
      /\ Meta(t) \in DOMAIN table' /\ table'[Meta(t)].rev = Held(p).rev + 1
      /\ table'[Meta(t)].asked = s.asked
  <2>1. Meta(t) \in DOMAIN table /\ table[Meta(t)].rev = Held(p).rev
    BY DEF MetaUnchanged, Has
  <2>2. table[Meta(t)].asked = Held(p).asked
    BY <1>1, <2>1 DEF AskedOnce
  <2>3. Meta(t) \in DOMAIN table' /\ table'[Meta(t)] = MetaOf(s)
    BY <1>5
  <2>4. MetaOf(s).rev = Held(p).rev + 1 /\ MetaOf(s).asked = s.asked
    BY DEF MetaOf
  <2> QED
    BY <2>1, <2>2, <2>3, <2>4
<1>8. AskedOnce(new, table')
  <2>1. CASE held = s
    BY <1>1, <1>4, <1>7, <2>1 DEF AskedOnce
  <2>2. CASE held = Held(p)
    BY <1>1, <1>4, <1>7, <2>2 DEF AskedOnce
  <2> QED
    BY <1>3, <2>1, <2>2
<1>9. t \notin cut => NsTrace(t) \in DOMAIN table
  BY <1>7 DEF IInv, Whole
<1>10. \/ \A k \in ApprovalCopies(t) : k \in DOMAIN table' => k \in DOMAIN table
       \/ ApprovalCopies(t) \subseteq DOMAIN table' /\ ~Asked(table, t) /\ Asked(table', t)
  BY <1>5, <1>7 DEF Asked
<1>11. /\ table[Meta(t)].rev <= table'[Meta(t)].rev /\ table[Meta(t)].rev # table'[Meta(t)].rev
       /\ table[Meta(t)].asked => table'[Meta(t)].asked
  BY <1>1, <1>7
<1>12. Continued(table, table', cut, t)
  BY <1>5, <1>7, <1>9, <1>10, <1>11 DEF Continued
<1> QED
  BY <1>1, <1>2, <1>4, <1>5, <1>6, <1>8, <1>12, PutStep DEF Quiet

\* append_event's transaction.
LEMMA AppendEventKept ==
  ASSUME IInv, IInv', RInv, NEW p \in Procs, NEW done \in BOOLEAN, AppendEvent(p, done)
  PROVE  RInv'
<1> DEFINE t == Trace(p)
           h == Held(p)
           n == proc[p].read + 1
           item == [by |-> p, clean |-> TRUE]
           events == Item(n, item) ++ h.events
           new == [h EXCEPT !.rev = h.rev + 1, !.next = h.next + 1, !.done = done, !.events = events]
           items == Item(Event(t, n), item) ++ Item(Head(t), n) ++ Item(Meta(t), MetaOf(new))
<1>1. /\ proc[p] \in ProcRecord /\ proc[p].pc = "append" /\ t \in Traces
      /\ h = proc[p].state /\ h.trace = t
  BY Known DEF AppendEvent, At, Local, Trace, Held
<1>2. h \in StateRecord /\ h.rev + 1 \in Nat /\ h.next + 1 \in Nat /\ n \in Nat /\ h.events \in EventMap
  BY <1>1, ProcFields
<1>3. events \in EventMap
  BY <1>2, EventMaps DEF EventRecord
<1>4. PICK answer \in BOOLEAN :
        /\ Writes(t, AppendAllowed(p), items, answer)
        /\ Becomes(p, [Idle EXCEPT !.pc = "ready", !.state = IF answer THEN new ELSE h])
  BY DEF AppendEvent, RolledBack
<1> HIDE DEF events, h
<1>5. new \in StateRecord /\ new.trace = t /\ new.rev = h.rev + 1 /\ new.asked = h.asked
  BY <1>1, <1>2, <1>3 DEF StateRecord
<1>6. /\ \A k : k \in DOMAIN items <=> k \in {Event(t, n), Head(t), Meta(t)}
      /\ items[Meta(t)] = MetaOf(new)
  BY DistinctKeys DEF Item, ++
<1>7. IsFiniteSet(DOMAIN items)
  BY FinitePut, FiniteItems
<1> HIDE DEF items, new
<1>8. Shaped(items) /\ \A k \in DOMAIN items : k.trace = t
  BY <1>6, ShapedKeys, KeyTraces DEF Shaped
<1>9. NsTrace(t) \notin DOMAIN items /\ ApprovalCopies(t) \cap DOMAIN items = {}
  BY <1>6, DistinctKeys
<1>10. CASE ~AppendAllowed(p)
  <2>1. ~answer /\ UNCHANGED <<table, listed, late, cut, skipped>>
    BY <1>4, <1>10 DEF Writes
  <2> QED
    BY <1>1, <1>4, <2>1, RefusedKept DEF h
<1>11. CASE AppendAllowed(p)
  <2>1. /\ table' = items ++ table /\ cut' = cut /\ listed' = listed /\ skipped' = skipped
        /\ late' = late \cup ({t} \cap listed) /\ MetaUnchanged(p)
    BY <1>4, <1>11 DEF Writes, AppendAllowed
  <2> QED
    BY <1>1, <1>4, <1>5, <1>6, <1>7, <1>8, <1>9, <2>1, RevisionKept DEF h
<1> QED
  BY <1>10, <1>11

\* append_decision's.
LEMMA AppendDecisionKept ==
  ASSUME IInv, IInv', RInv, NEW p \in Procs, AppendDecision(p)
  PROVE  RInv'
<1> DEFINE t == Trace(p)
           h == Held(p)
           n == h.rev + 1
           decisions == h.decisions \cup {n}
           new == [h EXCEPT !.rev = n, !.decisions = decisions]
           items == Item(Decision(t, n), 0) ++ Item(Meta(t), MetaOf(new))
<1>1. /\ proc[p] \in ProcRecord /\ proc[p].pc = "ready" /\ t \in Traces
      /\ h = proc[p].state /\ h.trace = t
  BY Known DEF AppendDecision, At, Local, Trace, Held
<1>2. h \in StateRecord /\ n \in Nat /\ decisions \subseteq Nat
  BY <1>1, ProcFields
<1>3. PICK answer \in BOOLEAN :
        /\ Writes(t, MetaUnchanged(p), items, answer)
        /\ Becomes(p, [Idle EXCEPT !.pc = "ready", !.state = IF answer THEN new ELSE h])
  BY DEF AppendDecision, RolledBack
<1>4. n = h.rev + 1
  OBVIOUS
<1> HIDE DEF decisions, h, n
<1>5. new \in StateRecord /\ new.trace = t /\ new.rev = h.rev + 1 /\ new.asked = h.asked
  BY <1>1, <1>2, <1>4 DEF StateRecord
<1>6. /\ \A k : k \in DOMAIN items <=> k \in {Decision(t, n), Meta(t)}
      /\ items[Meta(t)] = MetaOf(new)
  BY DistinctKeys DEF Item, ++
<1>7. IsFiniteSet(DOMAIN items)
  BY FinitePut, FiniteItems
<1> HIDE DEF items, new
<1>8. Shaped(items) /\ \A k \in DOMAIN items : k.trace = t
  BY <1>6, ShapedKeys, KeyTraces DEF Shaped
<1>9. NsTrace(t) \notin DOMAIN items /\ ApprovalCopies(t) \cap DOMAIN items = {}
  BY <1>6, DistinctKeys
<1>10. CASE ~MetaUnchanged(p)
  <2>1. ~answer /\ UNCHANGED <<table, listed, late, cut, skipped>>
    BY <1>3, <1>10 DEF Writes
  <2> QED
    BY <1>1, <1>3, <2>1, RefusedKept DEF h
<1>11. CASE MetaUnchanged(p)
  <2>1. /\ table' = items ++ table /\ cut' = cut /\ listed' = listed /\ skipped' = skipped
        /\ late' = late \cup ({t} \cap listed)
    BY <1>3, <1>11 DEF Writes
  <2> QED
    BY <1>1, <1>3, <1>5, <1>6, <1>7, <1>8, <1>9, <1>11, <2>1, RevisionKept DEF h
<1> QED
  BY <1>10, <1>11

\* add_approval's: a run asks once.
LEMMA AddApprovalKept ==
  ASSUME IInv, IInv', RInv, NEW p \in Procs, AddApproval(p)
  PROVE  RInv'
<1> DEFINE t == Trace(p)
           h == Held(p)
           new == [h EXCEPT !.rev = h.rev + 1, !.asked = TRUE]
           items == NewApproval(t) ++ Item(Meta(t), MetaOf(new))
           ok == MetaUnchanged(p) /\ ApprovalCopies(t) \cap DOMAIN table = {}
<1>1. /\ proc[p] \in ProcRecord /\ proc[p].pc = "ready" /\ t \in Traces
      /\ h = proc[p].state /\ h.trace = t /\ ~h.asked
  BY Known DEF AddApproval, At, Local, Trace, Held
<1>2. h \in StateRecord /\ h.rev + 1 \in Nat
  BY <1>1, ProcFields
<1>3. PICK answer \in BOOLEAN :
        /\ Writes(t, ok, items, answer)
        /\ Becomes(p, [Idle EXCEPT !.pc = "ready", !.state = IF answer THEN new ELSE h])
  BY DEF AddApproval, RolledBack
<1> HIDE DEF h
<1>4. new \in StateRecord /\ new.trace = t /\ new.rev = h.rev + 1 /\ new.asked
  BY <1>1, <1>2 DEF StateRecord
<1>5. /\ \A k : k \in DOMAIN items <=> k \in ApprovalCopies(t) \cup {Meta(t)}
      /\ items[Meta(t)] = MetaOf(new)
  BY DistinctKeys DEF Item, ++, NewApproval
<1>6. IsFiniteSet(DOMAIN items)
  BY FinitePut, FiniteItems DEF NewApproval
<1> HIDE DEF items, new
<1>7. Shaped(items) /\ \A k \in DOMAIN items : k.trace = t
  BY <1>5, ShapedKeys, KeyTraces DEF Shaped
<1>8. NsTrace(t) \notin DOMAIN items /\ ApprovalCopies(t) \subseteq DOMAIN items
  BY <1>5, DistinctKeys
<1>9. CASE ~ok
  <2>1. ~answer /\ UNCHANGED <<table, listed, late, cut, skipped>>
    BY <1>3, <1>9 DEF Writes
  <2> QED
    BY <1>1, <1>3, <2>1, RefusedKept DEF h
<1>10. CASE ok
  <2>1. /\ table' = items ++ table /\ cut' = cut /\ listed' = listed /\ skipped' = skipped
        /\ late' = late \cup ({t} \cap listed)
    BY <1>3, <1>10 DEF Writes
  <2> QED
    BY <1>1, <1>3, <1>4, <1>5, <1>6, <1>7, <1>8, <1>10, <2>1, RevisionKept DEF h
<1> QED
  BY <1>9, <1>10

\* create_run's.
LEMMA CreateRunKept ==
  ASSUME IInv, IInv', RInv, NEW p \in Procs, NEW t \in Traces, CreateRun(p, t)
  PROVE  RInv'
<1> DEFINE s == NewState(t)
           ready == [Idle EXCEPT !.pc = "ready", !.state = s]
           items == Item(Meta(t), MetaOf(s)) ++ Item(Head(t), 0) ++ Item(NsTrace(t), 0)
<1>1. t \notin cut /\ NsTrace(t) \notin DOMAIN table /\ proc[p].pc # "reset"
  BY DEF CreateRun, Has, At
<1>2. PICK answer \in BOOLEAN :
        Writes(t, TRUE, items, answer) /\ Becomes(p, IF answer THEN ready ELSE Idle)
  BY DEF CreateRun
<1>3. /\ table' = items ++ table /\ cut' = cut /\ listed' = listed /\ skipped' = skipped
      /\ late' = late \cup ({t} \cap listed)
  BY <1>2 DEF Writes
<1>4. /\ s.trace = t /\ s.rev = 0 /\ MetaOf(s).rev = 0 /\ MetaOf(s).asked = s.asked
  BY DEF NewState, MetaOf
<1> HIDE DEF s
<1>5. Quiet(ready) /\ ready.state = s /\ Quiet(Idle) /\ AskedOnce(Idle, table')
  BY DEF Quiet, Idle, AskedOnce
<1>6. /\ \A k : k \in DOMAIN items <=> k \in {Meta(t), Head(t), NsTrace(t)}
      /\ items[Meta(t)] = MetaOf(s)
  BY DistinctKeys DEF Item, ++
<1>7. IsFiniteSet(DOMAIN items)
  BY FinitePut, FiniteItems
<1> HIDE DEF items, ready
<1>8. Shaped(items) /\ \A k \in DOMAIN items : k.trace = t
  BY <1>6, ShapedKeys, KeyTraces DEF Shaped
<1>9. /\ \A k : k \in DOMAIN table' <=> k \in DOMAIN items \/ k \in DOMAIN table
      /\ \A k \in DOMAIN table' : table'[k] = IF k \in DOMAIN items THEN items[k] ELSE table[k]
  BY <1>3 DEF ++
<1>10. Shaped(table') /\ IsFiniteSet(DOMAIN table') /\ Confined(table, table', t)
  <2>1. Shaped(table')
    BY <1>8, <1>9 DEF Shaped, RInv
  <2>2. IsFiniteSet(DOMAIN table')
    BY <1>3, <1>7, FinitePut DEF RInv
  <2>3. Confined(table, table', t)
    BY <1>3, <1>8, Put
  <2> QED
    BY <2>1, <2>2, <2>3
<1>11. Meta(t) \in DOMAIN table' /\ table'[Meta(t)] = MetaOf(s)
  BY <1>6, <1>9
<1>12. AskedOnce(ready, table')
  BY <1>4, <1>5, <1>11 DEF AskedOnce
<1>13. Created(table, table', cut, t)
  <2>1. Meta(t) \notin DOMAIN table
    BY <1>1 DEF IInv, Whole
  <2>2. ApprovalCopies(t) \cap DOMAIN table = {}
    BY <1>1, <2>1 DEF RInv
  <2> QED
    BY <1>1, <1>6, <1>9, <2>2, DistinctKeys DEF Created
<1>14. CASE answer
  BY <1>1, <1>2, <1>3, <1>5, <1>9, <1>10, <1>12, <1>13, <1>14, QuietNow, PutStep DEF Quiet
<1>15. CASE ~answer
  BY <1>1, <1>2, <1>3, <1>5, <1>9, <1>10, <1>13, <1>15, QuietNow, PutStep DEF Quiet
<1> QED
  BY <1>14, <1>15

\* replace_approval and the tamper demo write where something is stored.
LEMMA UpdatesKept ==
  ASSUME IInv, IInv', RInv, NEW p \in Procs, ReplaceApproval(p) \/ TamperWrite(p)
  PROVE  RInv'
<1>1. Quiet(Idle) /\ \A tb : AskedOnce(Idle, tb)
  BY DEF Quiet, Idle, AskedOnce
<1>2. /\ proc[p].pc \in {"replace", "tamper"} /\ Trace(p) \in Traces /\ proc[p].batch = {}
      /\ Becomes(p, Idle)
  BY Known, QuietNow DEF ReplaceApproval, TamperWrite, At, Local, Trace, Quiet
<1>3. ASSUME NEW items, table' = items ++ table, cut' = cut, listed' = listed, skipped' = skipped,
             late' = late \cup ({Trace(p)} \cap listed), IsFiniteSet(DOMAIN items), Shaped(items),
             \A k \in DOMAIN items : k.trace = Trace(p),
             Meta(Trace(p)) \notin DOMAIN items, NsTrace(Trace(p)) \notin DOMAIN items,
             ApprovalCopies(Trace(p)) \cap DOMAIN items \subseteq DOMAIN table,
             Trace(p) \notin cut => Meta(Trace(p)) \in DOMAIN table
      PROVE  RInv'
  <2> DEFINE t == Trace(p)
  <2>1. /\ \A k : k \in DOMAIN table' <=> k \in DOMAIN items \/ k \in DOMAIN table
        /\ \A k \in DOMAIN table' : table'[k] = IF k \in DOMAIN items THEN items[k] ELSE table[k]
    BY <1>3 DEF ++
  <2>2. Shaped(table')
    BY <1>3, <2>1 DEF Shaped, RInv
  <2>3. IsFiniteSet(DOMAIN table') /\ Confined(table, table', t)
    BY <1>3, FinitePut, Put DEF RInv
  <2>4. t \notin cut => NsTrace(t) \in DOMAIN table
    BY <1>2, <1>3 DEF IInv, Whole
  <2>5. Meta(t) \in DOMAIN table => table[Meta(t)].rev \in Nat /\ table'[Meta(t)] = table[Meta(t)]
    BY <1>2, <1>3, <2>1 DEF IInv, Typed, MetaRecord
  <2>6. Continued(table, table', cut, t)
    BY <1>3, <2>1, <2>4, <2>5 DEF Continued
  <2> QED
    BY <1>1, <1>2, <1>3, <2>1, <2>2, <2>3, <2>6, PutStep
<1>4. CASE ReplaceApproval(p)
  <2> DEFINE t == Trace(p)
  <2>1. PICK answer \in BOOLEAN : Writes(t, ReplaceAllowed(p), Replaced(p), answer)
    BY <1>4 DEF ReplaceApproval
  <2>2. CASE ~ReplaceAllowed(p)
    BY <1>1, <1>2, <2>1, <2>2, QuietStep DEF Writes
  <2>3. CASE ReplaceAllowed(p)
    <3>1. /\ table' = Replaced(p) ++ table /\ cut' = cut /\ listed' = listed /\ skipped' = skipped
          /\ late' = late \cup ({t} \cap listed)
      BY <2>1, <2>3 DEF Writes
    <3>2. DOMAIN Replaced(p) = ApprovalCopies(t) /\ IsFiniteSet(DOMAIN Replaced(p))
      BY FiniteItems DEF Replaced
    <3>3. ApprovalCopies(t) \subseteq DOMAIN table /\ Pointer(t) \in ApprovalCopies(t)
      BY <2>3 DEF ReplaceAllowed, Has, ApprovalCopies
    <3>4. t \notin cut => Meta(t) \in DOMAIN table
      BY <1>2, <3>3 DEF RInv
    <3>5. Shaped(Replaced(p)) /\ \A k \in DOMAIN Replaced(p) : k.trace = t
      BY <3>2, ShapedKeys, KeyTraces DEF Shaped
    <3>6. Meta(t) \notin DOMAIN Replaced(p) /\ NsTrace(t) \notin DOMAIN Replaced(p)
      BY <3>2, DistinctKeys
    <3> QED
      BY <1>3, <3>1, <3>2, <3>3, <3>4, <3>5, <3>6
  <2> QED
    BY <2>2, <2>3
<1>5. CASE TamperWrite(p)
  <2> DEFINE t == Trace(p)
             k == Event(t, proc[p].read)
             items == Item(k, [Held(p).events[proc[p].read] EXCEPT !.clean = FALSE])
  <2>1. /\ table' = items ++ table /\ cut' = cut /\ listed' = listed /\ skipped' = skipped
        /\ late' = late \cup ({t} \cap listed)
    BY <1>5 DEF TamperWrite, Writes
  <2>2. DOMAIN items = {k}
    BY OneItem
  <2>3. IsFiniteSet(DOMAIN items)
    BY <2>2, FS_Singleton
  <2> HIDE DEF items
  <2>4. Shaped(items) /\ \A j \in DOMAIN items : j.trace = t
    BY <2>2, ShapedKeys, KeyTraces DEF Shaped
  <2>5. /\ Meta(t) \notin DOMAIN items /\ NsTrace(t) \notin DOMAIN items
        /\ ApprovalCopies(t) \cap DOMAIN items = {}
    BY <2>2, DistinctKeys
  <2>6. t \notin cut => Meta(t) \in DOMAIN table
    BY <1>5 DEF TamperWrite, At, IInv, Knows, Trace, Holds
  <2> QED
    BY <1>3, <2>1, <2>3, <2>4, <2>5, <2>6
<1> QED
  BY <1>4, <1>5

-----------------------------------------------------------------------------
(* The theorem.                                                            *)

\* Every step keeps the invariant.
LEMMA NextRInv == IInv /\ IInv' /\ RInv /\ [Next]_vars => RInv'
<1> SUFFICES ASSUME IInv, IInv', RInv, [Next]_vars PROVE RInv'
  OBVIOUS
<1>1. CASE UNCHANGED vars
  BY <1>1 DEF vars, history, RInv, Listed, Going
<1>2. CASE Next
  <2>1. PICK p \in Procs :
          \/ \E t \in Traces : CreateRun(p, t)
          \/ Load(p) \/ Append(p) \/ AppendDecision(p) \/ AddApproval(p)
          \/ Approve(p) \/ Verify(p) \/ Tamper(p) \/ Reset(p) \/ Leave(p)
    BY <1>2 DEF Next
  <2>2. CASE \E t \in Traces : CreateRun(p, t)
    BY <2>2, CreateRunKept
  <2>3. CASE Load(p)
    BY <2>3, LoadsKept DEF Load
  <2>4. CASE Append(p)
    BY <2>4, LoadsKept, AppendEventKept DEF Append
  <2>5. CASE AppendDecision(p) \/ AddApproval(p)
    BY <2>5, AppendDecisionKept, AddApprovalKept
  <2>6. CASE Approve(p)
    BY <2>6, RequestsKept, UpdatesKept DEF Approve
  <2>7. CASE Verify(p) \/ Leave(p)
    BY <2>7, RequestsKept DEF Verify
  <2>8. CASE Tamper(p)
    BY <2>8, TamperReadKept, UpdatesKept DEF Tamper
  <2>9. CASE Reset(p)
    BY <2>9, ResetListKept, ResetQueryKept, ResetBatchKept, DeleteItemKept DEF Reset
  <2> QED
    BY <2>1, <2>2, <2>3, <2>4, <2>5, <2>6, <2>7, <2>8, <2>9
<1> QED
  BY <1>1, <1>2

\* What a reset that died left behind the next one finds, however many resets and
\* writers there are: what can be opened is in the namespace's list, but for the items
\* that their batch did not delete, which reset_demo_namespace never learns of.
THEOREM ResetSafe == Spec => []ResetResumable
<1>1. ASSUME RInv PROVE ResetResumable
  <2>1. \A k : k \in Missed <=> Going(proc, skipped, k)
    BY DEF Missed, InFlight, Going
  <2>2. ASSUME NEW t \in Traces
        PROVE  /\ Meta(t) \in DOMAIN table \ Missed => Has(NsTrace(t))
               /\ Pointer(t) \in DOMAIN table \ Missed => Has(NsApproval(t))
               /\ t \notin late /\ Query(t, PartitionKinds) \ Missed # {} => Has(NsTrace(t))
    <3>1. Listed(table, proc, skipped, late, t)
      BY <1>1 DEF RInv
    <3>2. Query(t, PartitionKinds) = Partition(table, t)
      BY DEF Query, Partition
    <3> QED
      BY <2>1, <3>1, <3>2 DEF Listed, Has
  <2> QED
    BY <2>2 DEF ResetResumable
<1>2. Spec => []IInv
  BY Invariance
<1> QED
  BY <1>1, <1>2, InitRInv, NextRInv, PTL DEF Spec
=============================================================================
