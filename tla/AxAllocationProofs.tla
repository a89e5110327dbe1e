------------------------- MODULE AxAllocationProofs -------------------------
(***************************************************************************)
(* The allocation journal for batches of any size, any number of batches,  *)
(* imports, resets and deaths: what the state has taken in is published    *)
(* exactly once or can still be, and no finished trial's manifest is       *)
(* written back to pending.                                                *)
(***************************************************************************)
EXTENDS AxAllocation, FiniteSetTheorems, TLAPS

-----------------------------------------------------------------------------
(* The invariant.  A journal belongs to the batch that the pointer is on,   *)
(* and then has all its rows, or its batch has not been committed; and a    *)
(* command has done what its place says it has.                             *)

Wipes == {"wipe decisions", "wipe events", "wipe trials"}
Steps == {"idle", "manifests", "events", "unlink", "retire", "plan", "commit"} \cup Wipes
Rows == Canonical(state)

Typed == TypeOK /\ cmd \in [pc: Steps, then: {"idle", "retire"}, todo: SUBSET Row]

HasManifest(r) == \E m \in manifests : m.id = r.id /\ m.by = r.by
Published(r) == decisions[r.by] = 1 /\ events[r.by] = 1 /\ HasManifest(r)

JournalSound ==
  /\ journal = NoJournal \/ (journal.by \in 1..snapshots /\ journal.previous < journal.by)
  /\ \A r \in journal.rows : r.by = journal.by
  /\ state.pointer <= snapshots
  /\ journal.by \in committed <=> journal.by # 0 /\ state.pointer = journal.by
  /\ journal.by \in committed => journal.rows = {r \in Rows : r.by = journal.by}
  /\ \A r \in Rows : r.by = 0 \/ r.by \in committed

InPlace ==
  /\ cmd.pc \in {"manifests", "events"} => journal.by \in committed
  /\ cmd.pc = "manifests" =>
       cmd.todo \subseteq journal.rows /\ \A r \in journal.rows \ cmd.todo : HasManifest(r)
  /\ cmd.pc = "events" =>
       decisions[journal.by] = 1 /\ \A r \in journal.rows : HasManifest(r)
  /\ cmd.pc = "unlink" => \A r \in Rows : r.by # 0 /\ r.by = journal.by => Published(r)
  /\ cmd.pc = "plan" => cmd.todo \subseteq state.observed
  /\ cmd.pc = "commit" =>
       /\ journal.by # 0 /\ journal.by \notin ever
       /\ \E n \in 1..MaxBatch : journal.rows = Batch(journal.by, n)
  /\ cmd.pc \in Wipes => Rows = {} /\ committed = {}

AxInv == Typed /\ JournalSound /\ InPlace /\ PublishedOnce /\ PublishedOrJournaled

LEMMA AxInvInit == Init => AxInv
<1> SUFFICES ASSUME Init PROVE AxInv
  OBVIOUS
<1>1. /\ Rows = {} /\ journal.by = 0 /\ journal.rows = {} /\ journal = NoJournal
      /\ state.pointer = 0 /\ cmd.pc = "idle" /\ snapshots = 0 /\ committed = {} /\ ever = {}
      /\ manifests = {}
  BY DEF Init, Rows, Canonical, EmptyState, NoJournal, Idle
<1>2. Typed
  <2>1. state \in [next: Nat, pending: SUBSET Row, observed: SUBSET Row, pointer: 0..MaxSnapshots]
    BY BoundAssumption DEF Init, EmptyState
  <2>2. journal \in [by: 0..MaxSnapshots, previous: 0..MaxSnapshots, rows: SUBSET Row]
    BY BoundAssumption DEF Init, NoJournal
  <2>3. cmd \in [pc: Steps, then: {"idle", "retire"}, todo: SUBSET Row] /\ cmd = Idle
    BY DEF Init, Idle, Steps
  <2>4. state.pending = {}
    BY DEF Init, EmptyState
  <2> QED
    BY <1>1, <2>1, <2>2, <2>3, <2>4, BoundAssumption DEF Init, Typed, TypeOK, Rows
<1>3. JournalSound
  BY <1>1 DEF JournalSound
<1>4. InPlace
  BY <1>1 DEF InPlace, Wipes
<1>5. PublishedOnce
  BY <1>1 DEF PublishedOnce, Init
<1>6. PublishedOrJournaled
  BY <1>1 DEF PublishedOrJournaled, Rows
<1> QED
  BY <1>2, <1>3, <1>4, <1>5, <1>6 DEF AxInv

-----------------------------------------------------------------------------
(* Manifests are put by id. *)

LEMMA PutHas ==
  ASSUME NEW rows, NEW m, NEW r, r.id = m.id => r.by = m.by
  PROVE  (\E x \in rows : x.id = r.id /\ x.by = r.by) =>
           \E x \in Put(rows, m) : x.id = r.id /\ x.by = r.by
BY DEF Put

LEMMA Marks ==
  ASSUME NEW r \in Row
  PROVE  /\ AsPending(r) \in Manifest /\ AsTerminal(r) \in Manifest
         /\ AsPending(r).id = r.id /\ AsPending(r).by = r.by
         /\ AsTerminal(r).id = r.id /\ AsTerminal(r).by = r.by
BY DEF Row, Manifest, AsPending, AsTerminal

\* The facts of the types that the steps keep using.
LEMMA Facts ==
  ASSUME AxInv
  PROVE  /\ state.next \in Nat /\ state.pointer \in Nat /\ snapshots \in Nat
         /\ state.pending \in SUBSET Row /\ state.observed \in SUBSET Row
         /\ Rows \in SUBSET Row /\ Rows = state.pending \cup state.observed
         /\ journal.rows \in SUBSET Row /\ journal.by \in Nat /\ journal.previous \in Nat
         /\ \A r \in Row : r.id \in Nat /\ r.by \in 0..MaxSnapshots
         /\ manifests \in SUBSET Manifest
         /\ \A r \in Rows : r.id < state.next
         /\ \A r, s \in Rows : r.id = s.id => r = s
         /\ committed \subseteq ever /\ ever \subseteq 1..snapshots /\ 0 \notin ever
         /\ snapshots <= MaxSnapshots
BY BoundAssumption DEF AxInv, Typed, TypeOK, Rows, Canonical, Row

\* A manifest that goes by a row of the state, or is new, loses no other.
LEMMA PutStep ==
  ASSUME AxInv, NEW m \in Manifest, manifests' = Put(manifests, m),
         \A r \in Rows : r.id = m.id => r.by = m.by, m.by = 0 \/ m.by \in ever
  PROVE  /\ manifests' \subseteq Manifest
         /\ \A r \in Rows : HasManifest(r) => HasManifest(r)'
         /\ \A x \in manifests' : x.by # 0 => x.by \in ever
<1>1. manifests' \subseteq Manifest
  BY Facts DEF Put
<1>2. \A r \in Rows : HasManifest(r) => HasManifest(r)'
  BY PutHas DEF HasManifest
<1>3. \A x \in manifests' : x.by # 0 => x.by \in ever
  BY DEF Put, AxInv, PublishedOnce
<1> QED
  BY <1>1, <1>2, <1>3

\* A command that leaves state, journal and history alone, and no manifest of
\* the state's rows is lost.
LEMMA CommandKeeps ==
  ASSUME AxInv, UNCHANGED <<state, journal, history>>,
         cmd' \in [pc: Steps, then: {"idle", "retire"}, todo: SUBSET Row],
         cmd'.pc = "idle" => cmd' = Idle,
         decisions' \in [Snapshots -> Nat], events' \in [Snapshots -> Nat],
         manifests' \subseteq Manifest,
         \A r \in Rows : HasManifest(r) => HasManifest(r)',
         \A s \in Snapshots : decisions[s] = 1 => decisions'[s] = 1,
         \A s \in Snapshots : events[s] = 1 => events'[s] = 1,
         PublishedOnce', InPlace'
  PROVE  AxInv'
<1>1. Rows' = Rows /\ Canonical(state)' = Rows
  BY DEF Rows, Canonical
<1>2. Typed'
  BY <1>1 DEF AxInv, Typed, TypeOK, history, Rows
<1>3. JournalSound'
  BY <1>1 DEF AxInv, JournalSound, history
<1>4. PublishedOrJournaled'
  <2> SUFFICES ASSUME NEW r \in Rows, r.by \notin {0, journal.by}
               PROVE  decisions'[r.by] = 1 /\ events'[r.by] = 1 /\ HasManifest(r)'
    BY <1>1 DEF PublishedOrJournaled, HasManifest
  <2>1. decisions[r.by] = 1 /\ events[r.by] = 1 /\ HasManifest(r)
    BY DEF AxInv, PublishedOrJournaled, HasManifest, Rows
  <2>2. r.by \in Snapshots
    BY Facts DEF Snapshots
  <2> QED
    BY <2>1, <2>2
<1> QED
  BY <1>2, <1>3, <1>4 DEF AxInv

LEMMA StepRecover ==
  ASSUME AxInv, NEW then \in {"idle", "retire"}, Recover(then)
  PROVE  AxInv'
<1>1. /\ UNCHANGED <<state, journal, manifests, decisions, events, history>>
      /\ \/ then # "idle" /\ cmd' = [Idle EXCEPT !.pc = then]
         \/ Status = "committed"
              /\ cmd' = [pc |-> "manifests", then |-> then, todo |-> journal.rows]
         \/ Status = "prepared" /\ cmd' = [Idle EXCEPT !.pc = "unlink", !.then = then]
  BY DEF Recover, logs
<1>2. journal.rows \in SUBSET Row /\ journal.by \in Nat /\ journal.previous \in Nat
  BY Facts
<1>3. /\ cmd' \in [pc: Steps, then: {"idle", "retire"}, todo: SUBSET Row]
      /\ cmd'.pc \in {"retire", "manifests", "unlink"}
      /\ cmd'.pc = "manifests" => Status = "committed" /\ cmd'.todo = journal.rows
      /\ cmd'.pc = "unlink" => Status = "prepared"
  <2>1. CASE then # "idle" /\ cmd' = [Idle EXCEPT !.pc = then]
    BY <2>1 DEF Idle, Steps
  <2>2. CASE /\ Status = "committed"
             /\ cmd' = [pc |-> "manifests", then |-> then, todo |-> journal.rows]
    BY <1>2, <2>2 DEF Steps
  <2>3. CASE Status = "prepared" /\ cmd' = [Idle EXCEPT !.pc = "unlink", !.then = then]
    BY <2>3 DEF Idle, Steps
  <2> QED
    BY <1>1, <2>1, <2>2, <2>3
<1>4. Status = "committed" => journal.by \in committed
  <2>1. journal # NoJournal /\ state.pointer = journal.by => journal.by \in committed
    BY DEF AxInv, JournalSound
  <2>2. Status = "committed" => journal # NoJournal /\ state.pointer = journal.by
    BY DEF Status
  <2> QED
    BY <2>1, <2>2
<1>5. Status = "prepared" => journal.by \notin committed
  <2>1. Status = "prepared" => journal # NoJournal /\ state.pointer = journal.previous
    BY DEF Status
  <2>2. journal # NoJournal => journal.previous < journal.by
    BY DEF AxInv, JournalSound
  <2> QED
    BY <1>2, <2>1, <2>2 DEF AxInv, JournalSound
<1>6. \A r \in Rows : HasManifest(r)' = HasManifest(r)
  BY <1>1 DEF HasManifest
<1>7. InPlace'
  <2>1. Rows' = Rows
    BY <1>1 DEF Rows, Canonical
  <2>2. \A r \in Rows : r.by = 0 \/ r.by \in committed
    BY DEF AxInv, JournalSound
  <2> QED
    BY <1>1, <1>3, <1>4, <1>5, <2>1, <2>2 DEF InPlace, history, Wipes
<1>8. PublishedOnce'
  BY <1>1 DEF AxInv, PublishedOnce, history
<1> QED
  BY <1>1, <1>3, <1>6, <1>7, <1>8, CommandKeeps DEF AxInv, Typed, TypeOK

\* The rows of a journal whose batch is committed are rows of the state.
LEMMA JournalRows ==
  ASSUME AxInv, journal.by \in committed
  PROVE  /\ journal.rows \subseteq Rows /\ journal.by \in ever /\ journal.by # 0
         /\ journal.by \in Snapshots /\ state.pointer = journal.by
         /\ \A r \in Rows : r \in journal.rows <=> r.by = journal.by
<1>1. journal.rows = {r \in Rows : r.by = journal.by} /\ state.pointer = journal.by
  BY DEF AxInv, JournalSound
<1>2. journal.by \in 1..snapshots /\ journal.by \in ever
  BY Facts
<1>3. journal.by \in Snapshots /\ journal.by # 0
  BY <1>2, Facts, BoundAssumption DEF Snapshots
<1> QED
  BY <1>1, <1>2, <1>3

LEMMA StepManifest ==
  ASSUME AxInv, NEW q \in journal.rows, PublishManifest(q)
  PROVE  AxInv'
<1> DEFINE m == Current(q)
<1>1. /\ cmd.pc = "manifests" /\ q \in cmd.todo /\ manifests' = Put(manifests, m)
      /\ cmd' = [cmd EXCEPT !.todo = @ \ {q}]
      /\ UNCHANGED <<state, journal, decisions, events, history>>
  BY DEF PublishManifest
<1>2. journal.by \in committed /\ cmd.todo \subseteq journal.rows
      /\ \A r \in journal.rows \ cmd.todo : HasManifest(r)
  BY <1>1 DEF AxInv, InPlace
<1>3. /\ journal.rows \subseteq Rows /\ journal.by \in ever
      /\ \A r \in Rows : r \in journal.rows <=> r.by = journal.by
  BY <1>2, JournalRows
<1>4. q \in Rows /\ q \in Row /\ q.by = journal.by
  BY <1>3, Facts
<1>5. m \in Manifest /\ m.id = q.id /\ m.by = q.by
  BY <1>4, Marks DEF Current
<1> HIDE DEF m
<1>6. \A r \in Rows : r.id = m.id => r.by = m.by
  BY <1>4, <1>5, Facts
<1>7. /\ manifests' \subseteq Manifest
      /\ \A r \in Rows : HasManifest(r) => HasManifest(r)'
      /\ \A x \in manifests' : x.by # 0 => x.by \in ever
  BY <1>1, <1>3, <1>4, <1>5, <1>6, PutStep
<1>8. HasManifest(q)'
  BY <1>1, <1>5 DEF HasManifest, Put
<1>9. /\ cmd' \in [pc: Steps, then: {"idle", "retire"}, todo: SUBSET Row]
      /\ cmd'.pc = "manifests" /\ cmd'.todo = cmd.todo \ {q}
  BY <1>1 DEF AxInv, Typed
<1>10. InPlace'
  <2>1. \A r \in journal.rows \ cmd'.todo : HasManifest(r)'
    BY <1>2, <1>3, <1>7, <1>8, <1>9
  <2> QED
    BY <1>1, <1>2, <1>9, <2>1 DEF InPlace, history, Wipes
<1>11. PublishedOnce'
  BY <1>1, <1>7 DEF AxInv, PublishedOnce, history
<1> QED
  BY <1>1, <1>7, <1>9, <1>10, <1>11, CommandKeeps DEF AxInv, Typed, TypeOK

LEMMA AppendedOnce ==
  ASSUME NEW log \in [Snapshots -> Nat], journal.by \in Snapshots
  PROVE  /\ Appended(log) \in [Snapshots -> Nat]
         /\ \A s \in Snapshots : s # journal.by => Appended(log)[s] = log[s]
         /\ Appended(log)[journal.by] > 0
         /\ log[journal.by] <= 1 => Appended(log)[journal.by] = 1
BY DEF Appended

LEMMA StepDecisions ==
  ASSUME AxInv, PublishDecisions
  PROVE  AxInv'
<1>1. /\ cmd.pc = "manifests" /\ cmd.todo = {} /\ decisions' = Appended(decisions)
      /\ cmd' = [cmd EXCEPT !.pc = "events"]
      /\ UNCHANGED <<state, journal, manifests, events, history>>
  BY DEF PublishDecisions
<1>2. /\ journal.by \in committed /\ journal.by \in ever /\ journal.by \in Snapshots
      /\ \A r \in journal.rows : HasManifest(r)
  BY <1>1, JournalRows DEF AxInv, InPlace
<1>3. decisions \in [Snapshots -> Nat] /\ \A s \in Snapshots : decisions[s] <= 1
  BY DEF AxInv, Typed, TypeOK, PublishedOnce
<1>4. /\ decisions' \in [Snapshots -> Nat] /\ decisions'[journal.by] = 1
      /\ \A s \in Snapshots : s # journal.by => decisions'[s] = decisions[s]
  BY <1>1, <1>2, <1>3, AppendedOnce
<1>5. /\ cmd' \in [pc: Steps, then: {"idle", "retire"}, todo: SUBSET Row]
      /\ cmd'.pc = "events"
  BY <1>1 DEF AxInv, Typed, Steps
<1>6. \A r \in Rows : HasManifest(r)' = HasManifest(r)
  BY <1>1 DEF HasManifest
<1>7. \A s \in Snapshots : decisions[s] = 1 => decisions'[s] = 1
  BY <1>2, <1>4
<1>8. InPlace'
  BY <1>1, <1>2, <1>4, <1>5 DEF InPlace, history, Wipes, HasManifest
<1>9. PublishedOnce'
  <2>1. /\ \A s \in Snapshots : decisions'[s] <= 1
        /\ \A s \in Snapshots : decisions'[s] + events[s] > 0 => s \in ever
    BY <1>2, <1>3, <1>4 DEF AxInv, PublishedOnce
  <2> QED
    BY <1>1, <2>1 DEF AxInv, PublishedOnce, history
<1> QED
  BY <1>1, <1>4, <1>5, <1>6, <1>7, <1>8, <1>9, CommandKeeps DEF AxInv, Typed, TypeOK

LEMMA StepEvents ==
  ASSUME AxInv, PublishEvents
  PROVE  AxInv'
<1>1. /\ cmd.pc = "events" /\ events' = Appended(events)
      /\ cmd' = [cmd EXCEPT !.pc = "unlink"]
      /\ UNCHANGED <<state, journal, manifests, decisions, history>>
  BY DEF PublishEvents
<1>2. /\ journal.by \in committed /\ journal.by \in ever /\ journal.by \in Snapshots
      /\ decisions[journal.by] = 1
      /\ \A r \in Rows : r.by = journal.by => HasManifest(r)
  BY <1>1, JournalRows DEF AxInv, InPlace
<1>3. events \in [Snapshots -> Nat] /\ \A s \in Snapshots : events[s] <= 1
  BY DEF AxInv, Typed, TypeOK, PublishedOnce
<1>4. /\ events' \in [Snapshots -> Nat] /\ events'[journal.by] = 1
      /\ \A s \in Snapshots : s # journal.by => events'[s] = events[s]
  BY <1>1, <1>2, <1>3, AppendedOnce
<1>5. /\ cmd' \in [pc: Steps, then: {"idle", "retire"}, todo: SUBSET Row]
      /\ cmd'.pc = "unlink"
  BY <1>1 DEF AxInv, Typed, Steps
<1>6. \A r \in Rows : HasManifest(r)' = HasManifest(r)
  BY <1>1 DEF HasManifest
<1>7. \A s \in Snapshots : events[s] = 1 => events'[s] = 1
  BY <1>2, <1>4
<1>8. InPlace'
  <2>1. Rows' = Rows
    BY <1>1 DEF Rows, Canonical
  <2>2. \A r \in Rows : r.by = journal.by => Published(r)'
    BY <1>1, <1>2, <1>4 DEF Published, HasManifest
  <2> QED
    BY <1>1, <1>5, <2>1, <2>2 DEF InPlace, Wipes
<1>9. PublishedOnce'
  <2>1. /\ \A s \in Snapshots : events'[s] <= 1
        /\ \A s \in Snapshots : decisions[s] + events'[s] > 0 => s \in ever
    BY <1>2, <1>3, <1>4 DEF AxInv, PublishedOnce
  <2> QED
    BY <1>1, <2>1 DEF AxInv, PublishedOnce, history
<1> QED
  BY <1>1, <1>4, <1>5, <1>6, <1>7, <1>8, <1>9, CommandKeeps DEF AxInv, Typed, TypeOK

\* Without its journal, every row of the state has to be published.
LEMMA StepUnlink ==
  ASSUME AxInv, Unlink
  PROVE  AxInv'
<1>1. /\ cmd.pc = "unlink" /\ journal' = NoJournal /\ cmd' = [Idle EXCEPT !.pc = cmd.then]
      /\ UNCHANGED <<state, manifests, decisions, events, history>>
  BY DEF Unlink, logs
<1>2. /\ journal'.by = 0 /\ journal'.rows = {}
      /\ journal' \in [by: 0..MaxSnapshots, previous: 0..MaxSnapshots, rows: SUBSET Row]
  BY <1>1, BoundAssumption DEF NoJournal
<1>3. Rows' = Rows /\ Canonical(state)' = Rows
  BY <1>1 DEF Rows, Canonical
<1>4. /\ cmd' \in [pc: Steps, then: {"idle", "retire"}, todo: SUBSET Row]
      /\ cmd'.pc \in {"idle", "retire"} /\ (cmd'.pc = "idle" => cmd' = Idle)
  BY <1>1 DEF AxInv, Typed, Steps, Idle
<1>5. Typed'
  BY <1>1, <1>2, <1>3, <1>4 DEF AxInv, Typed, TypeOK, history, Rows
<1>6. JournalSound'
  BY <1>1, <1>2, <1>3, Facts DEF AxInv, JournalSound, history
<1>7. InPlace'
  BY <1>4 DEF InPlace, Wipes
<1>8. PublishedOnce'
  BY <1>1 DEF AxInv, PublishedOnce, history
<1>9. PublishedOrJournaled'
  <2> SUFFICES ASSUME NEW r \in Rows, r.by # 0 PROVE Published(r)
    BY <1>1, <1>3 DEF PublishedOrJournaled, Published, HasManifest
  <2>1. CASE r.by = journal.by
    BY <1>1, <2>1 DEF AxInv, InPlace
  <2>2. CASE r.by # journal.by
    BY <2>2 DEF AxInv, PublishedOrJournaled, Published, HasManifest, Rows
  <2> QED
    BY <2>1, <2>2
<1> QED
  BY <1>5, <1>6, <1>7, <1>8, <1>9 DEF AxInv

\* The state's rows stay and those that are new were imported.
LEMMA StateKeeps ==
  ASSUME AxInv, UNCHANGED <<journal, decisions, events, snapshots, committed, ever>>,
         state' \in [next: Nat, pending: SUBSET Row, observed: SUBSET Row,
                     pointer: 0..MaxSnapshots],
         state'.pointer = state.pointer,
         state'.pending \cap state'.observed = {},
         Rows \subseteq Rows', \A r \in Rows' : r \in Rows \/ r.by = 0,
         \A r \in Rows' : r.id < state'.next,
         \A r, s \in Rows' : r.id = s.id => r = s,
         cmd' \in [pc: Steps, then: {"idle", "retire"}, todo: SUBSET Row],
         cmd'.pc = "idle" => cmd' = Idle,
         cmd'.pc \in {"idle", "plan"}, cmd'.pc = "plan" => cmd'.todo \subseteq state'.observed,
         manifests' \subseteq Manifest,
         \A r \in Rows : HasManifest(r) => HasManifest(r)',
         \A x \in manifests' : x.by # 0 => x.by \in ever
  PROVE  AxInv'
<1>1. Canonical(state)' = Rows'
  BY DEF Rows
<1>2. Typed'
  BY <1>1 DEF AxInv, Typed, TypeOK
<1>3. JournalSound'
  <2>1. journal.by \in committed => journal.by # 0
    BY Facts
  <2>2. \A r \in Rows' : r.by = 0 \/ r.by \in committed
    BY DEF AxInv, JournalSound
  <2>3. journal.by \in committed => journal.rows = {r \in Rows' : r.by = journal.by}
    <3> SUFFICES ASSUME journal.by \in committed
                 PROVE  journal.rows = {r \in Rows' : r.by = journal.by}
      OBVIOUS
    <3>1. journal.rows = {r \in Rows : r.by = journal.by}
      BY DEF AxInv, JournalSound
    <3> QED
      BY <2>1, <3>1
  <2> QED
    BY <2>2, <2>3 DEF AxInv, JournalSound
<1>4. InPlace'
  BY DEF InPlace, Wipes
<1>5. PublishedOnce'
  BY DEF AxInv, PublishedOnce
<1>6. PublishedOrJournaled'
  <2> SUFFICES ASSUME NEW r \in Rows', r.by \notin {0, journal.by}
               PROVE  decisions[r.by] = 1 /\ events[r.by] = 1 /\ HasManifest(r)'
    BY <1>1 DEF PublishedOrJournaled, HasManifest
  <2>1. r \in Rows
    OBVIOUS
  <2>2. decisions[r.by] = 1 /\ events[r.by] = 1 /\ HasManifest(r)
    BY <2>1 DEF AxInv, PublishedOrJournaled, HasManifest, Rows
  <2> QED
    BY <2>1, <2>2
<1> QED
  BY <1>2, <1>3, <1>4, <1>5, <1>6 DEF AxInv

LEMMA StepRetire ==
  ASSUME AxInv, NEW stale \in SUBSET state.pending, RetireStale(stale)
  PROVE  AxInv'
<1>1. /\ state' = [state EXCEPT !.pending = @ \ stale, !.observed = @ \cup stale]
      /\ cmd' = [Idle EXCEPT !.pc = "plan", !.todo = stale]
      /\ UNCHANGED <<journal, manifests, decisions, events, history>>
  BY DEF RetireStale, logs
<1>2. /\ state \in [next: Nat, pending: SUBSET Row, observed: SUBSET Row,
                    pointer: 0..MaxSnapshots]
      /\ state.pending \cap state.observed = {} /\ stale \in SUBSET Row
  BY Facts DEF AxInv, Typed, TypeOK
<1>3. /\ state' \in [next: Nat, pending: SUBSET Row, observed: SUBSET Row,
                     pointer: 0..MaxSnapshots]
      /\ state'.pending = state.pending \ stale /\ state'.observed = state.observed \cup stale
      /\ state'.next = state.next /\ state'.pointer = state.pointer
  BY <1>1, <1>2
<1>4. Rows' = Rows
  BY <1>3 DEF Rows, Canonical
<1>5. state'.pending \cap state'.observed = {}
  BY <1>2, <1>3
<1>6. /\ cmd' \in [pc: Steps, then: {"idle", "retire"}, todo: SUBSET Row]
      /\ cmd'.pc = "plan" /\ cmd'.todo = stale
  BY <1>1, <1>2 DEF Idle, Steps
<1>7. \A r \in Rows : HasManifest(r)' = HasManifest(r)
  BY <1>1 DEF HasManifest
<1>8. \A x \in manifests' : x.by # 0 => x.by \in ever
  BY <1>1 DEF AxInv, PublishedOnce
<1> HIDE DEF Rows
<1>9. manifests' \subseteq Manifest /\ cmd'.todo \subseteq state'.observed
  BY <1>1, <1>3, <1>6, Facts
<1> QED
  BY <1>1, <1>3, <1>4, <1>5, <1>6, <1>7, <1>8, <1>9, Facts, StateKeeps DEF history

LEMMA StepWriteRetired ==
  ASSUME AxInv, NEW q \in state.observed, WriteRetired(q)
  PROVE  AxInv'
<1>1. /\ cmd.pc = "plan" /\ q \in cmd.todo /\ manifests' = Put(manifests, AsTerminal(q))
      /\ cmd' = [cmd EXCEPT !.todo = @ \ {q}]
      /\ UNCHANGED <<state, journal, decisions, events, history>>
  BY DEF WriteRetired
<1>2. q \in Rows /\ q \in Row
  BY Facts
<1>3. AsTerminal(q) \in Manifest /\ AsTerminal(q).id = q.id /\ AsTerminal(q).by = q.by
  BY <1>2, Marks
<1>4. q.by = 0 \/ q.by \in ever
  BY <1>2, Facts DEF AxInv, JournalSound
<1>5. \A r \in Rows : r.id = q.id => r.by = q.by
  BY <1>2, Facts
<1>6. /\ manifests' \subseteq Manifest
      /\ \A r \in Rows : HasManifest(r) => HasManifest(r)'
      /\ \A x \in manifests' : x.by # 0 => x.by \in ever
  BY <1>1, <1>3, <1>4, <1>5, PutStep
<1>7. /\ cmd' \in [pc: Steps, then: {"idle", "retire"}, todo: SUBSET Row]
      /\ cmd'.pc = "plan" /\ cmd'.todo = cmd.todo \ {q}
  BY <1>1 DEF AxInv, Typed
<1>8. InPlace'
  BY <1>1, <1>7 DEF AxInv, InPlace, Wipes
<1>9. PublishedOnce'
  BY <1>1, <1>6 DEF AxInv, PublishedOnce, history
<1> QED
  BY <1>1, <1>6, <1>7, <1>8, <1>9, CommandKeeps DEF AxInv, Typed, TypeOK

\* The command ends and changes nothing else.
LEMMA StepEnds ==
  ASSUME AxInv, cmd' = Idle,
         UNCHANGED <<state, journal, logs, snapshots, committed, ever>>
  PROVE  AxInv'
<1>1. UNCHANGED <<manifests, decisions, events>> /\ Rows' = Rows /\ Canonical(state)' = Rows
  BY DEF logs, Rows, Canonical
<1>2. cmd' \in [pc: Steps, then: {"idle", "retire"}, todo: SUBSET Row] /\ cmd'.pc = "idle"
  BY DEF Idle, Steps
<1>3. Typed'
  BY <1>1, <1>2 DEF AxInv, Typed, TypeOK, Rows
<1>4. JournalSound'
  BY <1>1 DEF AxInv, JournalSound
<1>5. InPlace'
  BY <1>2 DEF InPlace, Wipes
<1>6. PublishedOnce'
  BY <1>1 DEF AxInv, PublishedOnce
<1>7. PublishedOrJournaled'
  BY <1>1 DEF AxInv, PublishedOrJournaled, Rows
<1> QED
  BY <1>3, <1>4, <1>5, <1>6, <1>7 DEF AxInv

LEMMA IntervalSize ==
  ASSUME NEW a \in Nat, NEW n \in Nat
  PROVE  IsFiniteSet(a..(a + n - 1)) /\ Cardinality(a..(a + n - 1)) = n
<1>1. PICK b \in Int : b = a + n - 1
  OBVIOUS
<1>2. IsFiniteSet(a..b) /\ Cardinality(a..b) = IF a > b THEN 0 ELSE b - a + 1
  BY FS_Interval
<1>3. (IF a > b THEN 0 ELSE b - a + 1) = n
  BY <1>1
<1> QED
  BY <1>1, <1>2, <1>3

\* A batch takes the next ids, one for each of its trials.
LEMMA BatchIs ==
  ASSUME AxInv, NEW by \in 0..MaxSnapshots, NEW n \in Nat
  PROVE  /\ Cardinality(Batch(by, n)) = n
         /\ \A r \in Batch(by, n) : /\ r \in Row /\ r.by = by
                                    /\ r.id >= state.next /\ r.id < state.next + n
         /\ \A r, s \in Batch(by, n) : r.id = s.id => r = s
<1> DEFINE ids == state.next..(state.next + n - 1)
           f == [i \in ids |-> [id |-> i, by |-> by]]
<1>1. state.next \in Nat
  BY Facts
<1>2. Batch(by, n) = {[id |-> i, by |-> by] : i \in ids}
  BY DEF Batch
<1>3. f \in Bijection(ids, Batch(by, n))
  <2>1. f \in [ids -> Batch(by, n)]
    BY <1>2
  <2>2. \A i, j \in ids : f[i] = f[j] => i = j
    OBVIOUS
  <2>3. \A r \in Batch(by, n) : \E i \in ids : f[i] = r
    BY <1>2
  <2> QED
    BY <2>1, <2>2, <2>3 DEF Bijection, Injection, IsInjective, Surjection
<1>4. IsFiniteSet(ids) /\ Cardinality(ids) = n
  BY <1>1, IntervalSize
<1>5. Cardinality(Batch(by, n)) = n
  <2> HIDE DEF ids, f
  <2>1. ExistsBijection(ids, Batch(by, n))
    BY <1>3 DEF ExistsBijection
  <2> QED
    BY <1>4, <2>1, FS_Bijection
<1>6. ASSUME NEW r \in Batch(by, n)
      PROVE  /\ r \in Row /\ r.by = by /\ r.id >= state.next /\ r.id < state.next + n
             /\ r = [id |-> r.id, by |-> by]
  <2>1. PICK i \in ids : r = [id |-> i, by |-> by]
    BY <1>2
  <2> QED
    BY <1>1, <2>1 DEF Row
<1>7. ASSUME NEW r \in Batch(by, n), NEW s \in Batch(by, n), r.id = s.id PROVE r = s
  <2>1. r = [id |-> s.id, by |-> by] /\ s = [id |-> s.id, by |-> by]
    BY <1>6, <1>7
  <2> QED
    BY <2>1
<1> QED
  BY <1>5, <1>6, <1>7

LEMMA StepPrepare ==
  ASSUME AxInv, NEW n \in 1..MaxBatch, Prepare(n)
  PROVE  AxInv'
<1>1. /\ journal = NoJournal /\ snapshots < MaxSnapshots /\ snapshots' = snapshots + 1
      /\ journal' = [by |-> snapshots', previous |-> state.pointer,
                     rows |-> Batch(snapshots', n)]
      /\ cmd' = [Idle EXCEPT !.pc = "commit"]
      /\ UNCHANGED <<state, manifests, decisions, events, committed, ever>>
  BY DEF Prepare, logs
<1>2. /\ state.pointer \in Nat /\ state.pointer <= snapshots /\ snapshots \in Nat
      /\ MaxSnapshots \in Nat /\ n \in Nat
      /\ ever \subseteq 1..snapshots /\ committed \subseteq ever
  BY Facts, BoundAssumption DEF AxInv, JournalSound
<1>3. snapshots' \in 1..MaxSnapshots /\ snapshots' \notin ever /\ state.pointer < snapshots'
  BY <1>1, <1>2
<1>4. \A r \in Batch(snapshots', n) : r \in Row /\ r.by = snapshots'
  <2>1. snapshots' \in 0..MaxSnapshots
    BY <1>3
  <2> QED
    BY <1>2, <2>1, BatchIs
<1>5. /\ journal' \in [by: 0..MaxSnapshots, previous: 0..MaxSnapshots, rows: SUBSET Row]
      /\ journal'.by = snapshots' /\ journal'.previous = state.pointer
      /\ journal'.rows = Batch(snapshots', n)
  <2>1. snapshots' \in 0..MaxSnapshots /\ state.pointer \in 0..MaxSnapshots
    BY <1>2, <1>3
  <2>2. Batch(snapshots', n) \in SUBSET Row
    BY <1>4
  <2> QED
    BY <1>1, <2>1, <2>2
<1>6. Rows' = Rows /\ Canonical(state)' = Rows
  BY <1>1 DEF Rows, Canonical
<1>7. /\ cmd' \in [pc: Steps, then: {"idle", "retire"}, todo: SUBSET Row]
      /\ cmd'.pc = "commit"
  BY <1>1 DEF Idle, Steps
<1>8. Typed'
  <2>1. snapshots' \in 0..MaxSnapshots /\ ever' \subseteq 1..snapshots'
    BY <1>1, <1>2, <1>3
  <2> QED
    BY <1>1, <1>5, <1>6, <1>7, <2>1 DEF AxInv, Typed, TypeOK, Rows
<1>9. JournalSound'
  <2>1. journal'.by \notin committed /\ journal'.by # state.pointer /\ journal'.by # 0
    BY <1>2, <1>3, <1>5
  <2>2. journal'.by \in 1..snapshots' /\ journal'.previous < journal'.by
    BY <1>2, <1>3, <1>5
  <2>3. state.pointer <= snapshots'
    BY <1>2, <1>3
  <2> QED
    BY <1>1, <1>4, <1>5, <1>6, <2>1, <2>2, <2>3 DEF AxInv, JournalSound
<1>10. InPlace'
  <2>1. (journal.rows = Batch(journal.by, n))'
    BY <1>1, <1>5 DEF Batch
  <2>2. journal'.by # 0 /\ journal'.by \notin ever'
    BY <1>1, <1>2, <1>3, <1>5
  <2> QED
    BY <1>7, <2>1, <2>2 DEF InPlace, Wipes
<1>11. PublishedOnce'
  BY <1>1 DEF AxInv, PublishedOnce
<1>12. PublishedOrJournaled'
  <2>1. journal.by = 0
    BY <1>1 DEF NoJournal
  <2> QED
    BY <1>1, <2>1 DEF AxInv, PublishedOrJournaled, Canonical
<1> QED
  BY <1>8, <1>9, <1>10, <1>11, <1>12 DEF AxInv

LEMMA StepCommit ==
  ASSUME AxInv, Commit
  PROVE  AxInv'
<1>1. /\ cmd.pc = "commit"
      /\ state' = [next |-> state.next + Cardinality(journal.rows),
                   pending |-> state.pending \cup journal.rows,
                   observed |-> state.observed, pointer |-> journal.by]
      /\ committed' = committed \cup {journal.by} /\ ever' = ever \cup {journal.by}
      /\ cmd' = [Idle EXCEPT !.pc = "manifests", !.todo = journal.rows]
      /\ UNCHANGED <<journal, manifests, decisions, events, snapshots>>
  BY DEF Commit, logs
<1>2. PICK n \in 1..MaxBatch : journal.rows = Batch(journal.by, n)
  BY <1>1 DEF AxInv, InPlace
<1>3. journal.by # 0 /\ journal.by \notin ever /\ journal.by \in 1..snapshots
      /\ journal.by \in 0..MaxSnapshots
  <2>1. journal.by # 0 /\ journal.by \notin ever
    BY <1>1 DEF AxInv, InPlace
  <2>2. journal # NoJournal
    BY <2>1 DEF NoJournal
  <2> QED
    BY <2>1, <2>2, Facts DEF AxInv, JournalSound, Typed, TypeOK
<1>4. n \in Nat /\ n >= 1 /\ state.next \in Nat
  BY BoundAssumption, Facts
<1>5. /\ Cardinality(journal.rows) = n
      /\ \A r \in journal.rows : /\ r \in Row /\ r.by = journal.by
                                 /\ r.id >= state.next /\ r.id < state.next + n
      /\ \A r, s \in journal.rows : r.id = s.id => r = s
  BY <1>2, <1>3, <1>4, BatchIs
<1>6. /\ state'.next = state.next + n /\ state'.pending = state.pending \cup journal.rows
      /\ state'.observed = state.observed /\ state'.pointer = journal.by
      /\ state' \in [next: Nat, pending: SUBSET Row, observed: SUBSET Row,
                     pointer: 0..MaxSnapshots]
  <2>1. state.next + n \in Nat /\ state.pending \cup journal.rows \in SUBSET Row
        /\ state.observed \in SUBSET Row
    BY <1>4, Facts
  <2> QED
    BY <1>1, <1>3, <1>5, <2>1
<1>7. Rows' = Rows \cup journal.rows /\ Canonical(state)' = Rows'
  BY <1>6 DEF Rows, Canonical
<1>8. /\ Rows \in SUBSET Row /\ \A r \in Rows : r.id \in Nat /\ r.id < state.next
      /\ \A r, s \in Rows : r.id = s.id => r = s
      /\ \A r \in journal.rows : r.id \in Nat
  BY Facts
<1>9. \A r \in Rows, s \in journal.rows : r.id # s.id
  BY <1>4, <1>5, <1>8
<1>10. /\ \A r \in Rows' : r.id < state'.next
       /\ \A r, s \in Rows' : r.id = s.id => r = s
  <2>1. \A r \in Rows' : r.id < state'.next
    BY <1>4, <1>5, <1>6, <1>7, <1>8
  <2>2. ASSUME NEW r \in Rows', NEW s \in Rows', r.id = s.id PROVE r = s
    BY <1>5, <1>7, <1>8, <1>9, <2>2
  <2> QED
    BY <2>1, <2>2
<1>11. state'.pending \cap state'.observed = {}
  <2>1. \A r \in state.observed : r \in Rows
    BY Facts
  <2>2. \A r \in state.observed : r \notin journal.rows
    BY <1>9, <2>1
  <2>3. state.pending \cap state.observed = {}
    BY DEF AxInv, Typed, TypeOK
  <2> QED
    BY <1>6, <2>2, <2>3
<1>12. /\ cmd' \in [pc: Steps, then: {"idle", "retire"}, todo: SUBSET Row]
       /\ cmd'.pc = "manifests" /\ cmd'.todo = journal.rows
  <2>1. journal.rows \in SUBSET Row
    BY Facts
  <2> QED
    BY <1>1, <2>1 DEF Idle, Steps
<1>13. Typed'
  <2>1. committed' \subseteq ever' /\ ever' \subseteq 1..snapshots'
    BY <1>1, <1>3, Facts
  <2> QED
    BY <1>1, <1>6, <1>7, <1>10, <1>11, <1>12, <2>1 DEF AxInv, Typed, TypeOK
<1>14. JournalSound'
  <2>1. \A r \in Rows : r.by = 0 \/ r.by \in committed
    BY DEF AxInv, JournalSound
  <2>2. journal.rows = {r \in Rows' : r.by = journal.by}
    <3>1. journal.by \notin committed
      BY <1>3, Facts
    <3>2. \A r \in Rows : r.by # journal.by
      BY <1>3, <2>1, <3>1
    <3> QED
      BY <1>5, <1>7, <3>2
  <2>3. \A r \in Rows' : r.by = 0 \/ r.by \in committed'
    BY <1>1, <1>5, <1>7, <2>1
  <2>4. journal.by <= snapshots
    BY <1>3, Facts
  <2> QED
    BY <1>1, <1>3, <1>6, <2>2, <2>3, <2>4 DEF AxInv, JournalSound
<1>15. InPlace'
  BY <1>1, <1>12 DEF InPlace, Wipes
<1>16. PublishedOnce'
  BY <1>1 DEF AxInv, PublishedOnce
<1>17. PublishedOrJournaled'
  <2> SUFFICES ASSUME NEW r \in Rows', r.by \notin {0, journal.by} PROVE Published(r)
    BY <1>1, <1>7 DEF PublishedOrJournaled, Published, HasManifest
  <2>1. r \in Rows
    BY <1>5, <1>7
  <2> QED
    BY <2>1 DEF AxInv, PublishedOrJournaled, Published, HasManifest, Rows
<1> QED
  BY <1>13, <1>14, <1>15, <1>16, <1>17 DEF AxInv

LEMMA StepFinish ==
  ASSUME AxInv, NEW q \in state.pending, NEW dies \in BOOLEAN, Finish(q, dies)
  PROVE  AxInv'
<1>1. /\ cmd.pc = "idle" /\ manifests' = Put(manifests, AsTerminal(q))
      /\ \/ UNCHANGED state
         \/ state' = [state EXCEPT !.pending = @ \ {q}, !.observed = @ \cup {q}]
      /\ UNCHANGED <<journal, decisions, events, cmd, snapshots, committed, ever>>
  BY DEF Finish, Observed
<1>2. q \in Rows /\ q \in Row
  BY Facts
<1>3. AsTerminal(q) \in Manifest /\ AsTerminal(q).id = q.id /\ AsTerminal(q).by = q.by
  BY <1>2, Marks
<1>4. q.by = 0 \/ q.by \in ever
  BY <1>2, Facts DEF AxInv, JournalSound
<1>5. \A r \in Rows : r.id = q.id => r.by = q.by
  BY <1>2, Facts
<1>6. /\ manifests' \subseteq Manifest
      /\ \A r \in Rows : HasManifest(r) => HasManifest(r)'
      /\ \A x \in manifests' : x.by # 0 => x.by \in ever
  BY <1>1, <1>3, <1>4, <1>5, PutStep
<1>7. /\ state \in [next: Nat, pending: SUBSET Row, observed: SUBSET Row,
                    pointer: 0..MaxSnapshots]
      /\ state.pending \cap state.observed = {}
  BY DEF AxInv, Typed, TypeOK
<1>8. /\ state' \in [next: Nat, pending: SUBSET Row, observed: SUBSET Row,
                     pointer: 0..MaxSnapshots]
      /\ state'.next = state.next /\ state'.pointer = state.pointer
      /\ state'.pending \cap state'.observed = {}
      /\ state'.pending \cup state'.observed = state.pending \cup state.observed
  <2>1. CASE UNCHANGED state
    BY <1>7, <2>1
  <2>2. CASE state' = [state EXCEPT !.pending = @ \ {q}, !.observed = @ \cup {q}]
    <3>1. /\ state'.pending = state.pending \ {q} /\ state'.observed = state.observed \cup {q}
          /\ state'.next = state.next /\ state'.pointer = state.pointer
          /\ state' \in [next: Nat, pending: SUBSET Row, observed: SUBSET Row,
                         pointer: 0..MaxSnapshots]
      BY <1>2, <1>7, <2>2
    <3> QED
      BY <1>7, <3>1
  <2> QED
    BY <1>1, <2>1, <2>2
<1>9. Rows' = Rows
  BY <1>8 DEF Rows, Canonical
<1>10. /\ cmd' \in [pc: Steps, then: {"idle", "retire"}, todo: SUBSET Row]
       /\ cmd'.pc = "idle" /\ cmd' = Idle
  BY <1>1 DEF AxInv, Typed, TypeOK
<1> HIDE DEF Rows
<1> QED
  BY <1>1, <1>6, <1>8, <1>9, <1>10, Facts, StateKeeps

LEMMA StepImport ==
  ASSUME AxInv, NEW dies \in BOOLEAN, Import(dies)
  PROVE  AxInv'
<1> DEFINE q == [id |-> state.next, by |-> 0]
<1>1. /\ cmd.pc = "idle" /\ manifests' = Put(manifests, AsTerminal(q))
      /\ \/ UNCHANGED state
         \/ state' = [state EXCEPT !.next = @ + 1, !.observed = @ \cup {q}]
      /\ UNCHANGED <<journal, decisions, events, cmd, snapshots, committed, ever>>
  BY DEF Import
<1>2. q \in Row /\ q.id = state.next /\ q.by = 0 /\ state.next \in Nat
  BY Facts, BoundAssumption DEF Row
<1> HIDE DEF q
<1>3. AsTerminal(q) \in Manifest /\ AsTerminal(q).id = q.id /\ AsTerminal(q).by = q.by
  BY <1>2, Marks
<1>4. \A r \in Rows : r.id \in Nat /\ r.id < state.next
  BY Facts
<1>5. \A r \in Rows : r.id # q.id
  BY <1>2, <1>4
<1>6. /\ manifests' \subseteq Manifest
      /\ \A r \in Rows : HasManifest(r) => HasManifest(r)'
      /\ \A x \in manifests' : x.by # 0 => x.by \in ever
  BY <1>1, <1>2, <1>3, <1>5, PutStep
<1>7. /\ state \in [next: Nat, pending: SUBSET Row, observed: SUBSET Row,
                    pointer: 0..MaxSnapshots]
      /\ state.pending \cap state.observed = {}
      /\ \A r, s \in Rows : r.id = s.id => r = s
      /\ Rows = state.pending \cup state.observed
  BY Facts DEF AxInv, Typed, TypeOK
<1>8. /\ cmd' \in [pc: Steps, then: {"idle", "retire"}, todo: SUBSET Row]
      /\ cmd'.pc = "idle" /\ cmd' = Idle
  BY <1>1 DEF AxInv, Typed, TypeOK
<1>9. CASE UNCHANGED state
  <2>1. Rows' = Rows
    BY <1>9 DEF Rows, Canonical
  <2> HIDE DEF Rows
  <2> QED
    BY <1>1, <1>4, <1>6, <1>7, <1>8, <1>9, <2>1, StateKeeps
<1>10. CASE state' = [state EXCEPT !.next = @ + 1, !.observed = @ \cup {q}]
  <2>1. /\ state'.pending = state.pending /\ state'.observed = state.observed \cup {q}
        /\ state'.next = state.next + 1 /\ state'.pointer = state.pointer
        /\ state' \in [next: Nat, pending: SUBSET Row, observed: SUBSET Row,
                       pointer: 0..MaxSnapshots]
    <3>1. state.next + 1 \in Nat /\ state.observed \cup {q} \in SUBSET Row
      BY <1>2, <1>7
    <3> QED
      BY <1>7, <1>10, <3>1
  <2>2. Rows' = Rows \cup {q}
    BY <2>1 DEF Rows, Canonical
  <2>3. q \notin Rows
    BY <1>5
  <2>4. state'.pending \cap state'.observed = {}
    BY <1>7, <2>1, <2>3
  <2>5. \A r \in Rows' : r.id < state'.next
    BY <1>2, <1>4, <2>1, <2>2
  <2>6. ASSUME NEW r \in Rows', NEW s \in Rows', r.id = s.id PROVE r = s
    BY <1>5, <1>7, <2>2, <2>6
  <2>7. Rows \subseteq Rows' /\ \A r \in Rows' : r \in Rows \/ r.by = 0
    BY <1>2, <2>2
  <2> HIDE DEF Rows
  <2> QED
    BY <1>1, <1>6, <1>8, <2>1, <2>4, <2>5, <2>6, <2>7, StateKeeps
<1> QED
  BY <1>1, <1>9, <1>10

LEMMA StepRebuild ==
  ASSUME AxInv, Rebuild
  PROVE  AxInv'
<1>1. /\ journal = NoJournal /\ snapshots < MaxSnapshots /\ snapshots' = snapshots + 1
      /\ cmd.pc = "idle" /\ state' = [state EXCEPT !.pointer = snapshots']
      /\ UNCHANGED <<journal, manifests, decisions, events, cmd, committed, ever>>
  BY DEF Rebuild, logs
<1>2. snapshots' \in 0..MaxSnapshots /\ snapshots \in Nat /\ ever \subseteq 1..snapshots'
  BY <1>1, Facts, BoundAssumption
<1>3. /\ state'.pending = state.pending /\ state'.observed = state.observed
      /\ state'.next = state.next /\ state'.pointer = snapshots'
      /\ state' \in [next: Nat, pending: SUBSET Row, observed: SUBSET Row,
                     pointer: 0..MaxSnapshots]
  BY <1>1, <1>2 DEF AxInv, Typed, TypeOK
<1>4. Rows' = Rows /\ Canonical(state)' = Rows
  BY <1>3 DEF Rows, Canonical
<1>5. journal.by = 0
  BY <1>1 DEF NoJournal
<1>6. Typed'
  BY <1>1, <1>2, <1>3, <1>4 DEF AxInv, Typed, TypeOK, Rows
<1>7. JournalSound'
  <2>1. 0 \notin committed /\ snapshots' <= snapshots' /\ snapshots' \in Nat
    BY <1>2, Facts
  <2> QED
    BY <1>1, <1>3, <1>4, <1>5, <2>1 DEF AxInv, JournalSound
<1>8. InPlace'
  BY <1>1 DEF InPlace, Wipes
<1>9. PublishedOnce'
  BY <1>1 DEF AxInv, PublishedOnce
<1>10. PublishedOrJournaled'
  BY <1>1, <1>4 DEF AxInv, PublishedOrJournaled, Rows
<1> QED
  BY <1>6, <1>7, <1>8, <1>9, <1>10 DEF AxInv

\* reset empties the state first: nothing that it removes later is anyone's.
LEMMA StepReset ==
  ASSUME AxInv, Reset
  PROVE  AxInv'
<1>1. /\ state' = EmptyState /\ committed' = {}
      /\ cmd' = [Idle EXCEPT !.pc = "wipe decisions"]
      /\ UNCHANGED <<journal, manifests, decisions, events, snapshots, ever>>
  BY DEF Reset, logs
<1>2. /\ Rows' = {} /\ Canonical(state)' = {} /\ state'.pending = {} /\ state'.observed = {}
      /\ state'.pointer = 0
      /\ state' \in [next: Nat, pending: SUBSET Row, observed: SUBSET Row,
                     pointer: 0..MaxSnapshots]
  <2>1. state'.pending = {} /\ state'.observed = {} /\ state'.pointer = 0 /\ state'.next = 1
    BY <1>1 DEF EmptyState
  <2>2. state' \in [next: Nat, pending: SUBSET Row, observed: SUBSET Row, pointer: 0..MaxSnapshots]
    <3>1. 0 \in 0..MaxSnapshots /\ 1 \in Nat
      BY BoundAssumption
    <3>2. state' = [next |-> 1, pending |-> {}, observed |-> {}, pointer |-> 0]
      BY <1>1 DEF EmptyState
    <3>3. {} \in SUBSET Row
      OBVIOUS
    <3> QED
      BY <3>1, <3>2, <3>3
  <2>3. Canonical(state)' = {}
    BY <2>1 DEF Canonical
  <2> QED
    BY <2>1, <2>2, <2>3 DEF Rows
<1>3. /\ cmd' \in [pc: Steps, then: {"idle", "retire"}, todo: SUBSET Row]
      /\ cmd'.pc = "wipe decisions"
  BY <1>1 DEF Idle, Steps, Wipes
<1>4. Typed'
  BY <1>1, <1>2, <1>3 DEF AxInv, Typed, TypeOK
<1>5. JournalSound'
  <2>1. journal' = NoJournal \/ (journal'.by \in 1..snapshots' /\ journal'.previous < journal'.by)
    BY <1>1 DEF AxInv, JournalSound
  <2>2. \A r \in journal'.rows : r.by = journal'.by
    BY <1>1 DEF AxInv, JournalSound
  <2>3. state'.pointer <= snapshots'
    <3>1. snapshots \in Nat
      BY Facts
    <3>2. snapshots' = snapshots /\ state'.pointer = 0
      BY <1>1, <1>2
    <3> QED
      BY <3>1, <3>2
  <2>4. ~(journal'.by # 0 /\ state'.pointer = journal'.by)
    BY <1>2
  <2> QED
    BY <1>1, <1>2, <2>1, <2>2, <2>3, <2>4 DEF JournalSound
<1>6. InPlace'
  BY <1>1, <1>2, <1>3 DEF InPlace, Wipes
<1>7. PublishedOnce'
  BY <1>1 DEF AxInv, PublishedOnce
<1>8. PublishedOrJournaled'
  BY <1>2 DEF PublishedOrJournaled
<1> QED
  BY <1>4, <1>5, <1>6, <1>7, <1>8 DEF AxInv

LEMMA StepWipe ==
  ASSUME AxInv, WipeDecisions \/ WipeEvents \/ WipeTrials
  PROVE  AxInv'
<1>1. /\ cmd.pc \in Wipes /\ UNCHANGED <<state, journal, history>>
      /\ \E to \in {"wipe events", "wipe trials", "unlink"} : cmd' = [Idle EXCEPT !.pc = to]
      /\ decisions' = decisions \/ decisions' = [s \in Snapshots |-> 0]
      /\ events' = events \/ events' = [s \in Snapshots |-> 0]
      /\ manifests' = manifests \/ manifests' = {}
  BY DEF WipeDecisions, WipeEvents, WipeTrials, Wipes
<1>2. Rows = {} /\ Rows' = {} /\ committed' = {}
  BY <1>1 DEF AxInv, InPlace, Rows, Canonical, history
<1>3. /\ cmd' \in [pc: Steps, then: {"idle", "retire"}, todo: SUBSET Row]
      /\ cmd'.pc \in {"wipe events", "wipe trials", "unlink"}
  BY <1>1 DEF Idle, Steps, Wipes
<1>4. Typed'
  <2>1. Typed /\ state' = state /\ journal' = journal /\ snapshots' = snapshots
        /\ committed' = committed /\ ever' = ever
    BY <1>1 DEF AxInv, history
  <2>2. decisions' \in [Snapshots -> Nat] /\ events' \in [Snapshots -> Nat]
    <3>1. decisions \in [Snapshots -> Nat] /\ events \in [Snapshots -> Nat]
      BY <2>1 DEF Typed, TypeOK
    <3>2. [s \in Snapshots |-> 0] \in [Snapshots -> Nat]
      OBVIOUS
    <3> QED
      BY <1>1, <3>1, <3>2
  <2>3. manifests' \subseteq Manifest
    BY <1>1, <2>1 DEF Typed, TypeOK
  <2> QED
    BY <1>3, <2>1, <2>2, <2>3 DEF Typed, TypeOK, Canonical
<1>5. JournalSound'
  BY <1>1, <1>2 DEF AxInv, JournalSound, history
<1>6. InPlace'
  BY <1>2, <1>3 DEF InPlace, Wipes
<1>7. PublishedOnce'
  <2>1. /\ \A s \in Snapshots : decisions[s] <= 1 /\ events[s] <= 1
        /\ \A s \in Snapshots : decisions[s] + events[s] > 0 => s \in ever
        /\ decisions \in [Snapshots -> Nat] /\ events \in [Snapshots -> Nat]
    BY DEF AxInv, PublishedOnce, Typed, TypeOK
  <2>2. \A s \in Snapshots : /\ decisions'[s] = decisions[s] \/ decisions'[s] = 0
                             /\ events'[s] = events[s] \/ events'[s] = 0
    BY <1>1
  <2>3. \A m \in manifests' : m.by # 0 => m.by \in ever
    BY <1>1 DEF AxInv, PublishedOnce
  <2> QED
    <3>1. ever' = ever
      BY <1>1 DEF history
    <3>2. \A s \in Snapshots : decisions[s] \in Nat /\ events[s] \in Nat
      BY <2>1
    <3>3. \A s \in Snapshots : decisions'[s] <= 1 /\ events'[s] <= 1
      BY <2>1, <2>2, <3>2
    <3>4. \A s \in Snapshots : decisions'[s] + events'[s] > 0 => s \in ever
      BY <2>1, <2>2, <3>2
    <3> QED
      BY <2>3, <3>1, <3>3, <3>4 DEF PublishedOnce
<1>8. PublishedOrJournaled'
  BY <1>2 DEF PublishedOrJournaled, Rows
<1> QED
  BY <1>4, <1>5, <1>6, <1>7, <1>8 DEF AxInv

LEMMA AxInvStep == AxInv /\ [Next]_vars => AxInv'
<1> SUFFICES ASSUME AxInv, [Next]_vars PROVE AxInv'
  OBVIOUS
<1>1. CASE RecoverAllocation \/ Suggest
  BY <1>1, StepRecover DEF RecoverAllocation, Suggest
<1>2. CASE \E r \in journal.rows : PublishManifest(r)
  BY <1>2, StepManifest
<1>3. CASE PublishDecisions
  BY <1>3, StepDecisions
<1>4. CASE PublishEvents
  BY <1>4, StepEvents
<1>5. CASE Unlink
  BY <1>5, StepUnlink
<1>6. CASE \E stale \in SUBSET state.pending : RetireStale(stale)
  BY <1>6, StepRetire
<1>7. CASE \E r \in state.observed : WriteRetired(r)
  BY <1>7, StepWriteRetired
<1>8. CASE Refuse \/ Crash
  BY <1>8, StepEnds DEF Refuse, Crash, history, logs
<1>9. CASE \E n \in 1..MaxBatch : Prepare(n)
  BY <1>9, StepPrepare
<1>10. CASE Commit
  BY <1>10, StepCommit
<1>11. CASE WipeDecisions \/ WipeEvents \/ WipeTrials
  BY <1>11, StepWipe
<1>12. CASE \E r \in state.pending, dies \in BOOLEAN : Finish(r, dies)
  BY <1>12, StepFinish
<1>13. CASE \E dies \in BOOLEAN : Import(dies)
  BY <1>13, StepImport
<1>14. CASE Rebuild \/ Reset
  BY <1>14, StepRebuild, StepReset
<1>15. CASE UNCHANGED vars
  <2>1. UNCHANGED <<state, journal, manifests, decisions, events, cmd, snapshots, committed,
                    ever>>
    BY <1>15 DEF vars
  <2>2. Typed'
    BY <2>1 DEF AxInv, Typed, TypeOK, Canonical
  <2>3. JournalSound'
    BY <2>1 DEF AxInv, JournalSound, Rows, Canonical
  <2>4. InPlace'
    BY <2>1 DEF AxInv, InPlace, Rows, Canonical, HasManifest, Published, Batch
  <2>5. PublishedOnce' /\ PublishedOrJournaled'
    BY <2>1 DEF AxInv, PublishedOnce, PublishedOrJournaled, Canonical
  <2> QED
    BY <2>2, <2>3, <2>4, <2>5 DEF AxInv
<1> QED
  BY <1>1, <1>2, <1>3, <1>4, <1>5, <1>6, <1>7, <1>8, <1>9, <1>10, <1>11, <1>12, <1>13, <1>14,
     <1>15 DEF Next, Run

-----------------------------------------------------------------------------
(* The theorems. *)

\* The invariant from which the promises follow.
THEOREM AxInvariant == Spec => []AxInv
BY AxInvInit, AxInvStep, PTL DEF Spec

\* The state's rows have ids of their own below next_trial_id, and no trial is
\* both pending and observed, whatever died in between.
THEOREM TypeCorrect == Spec => []TypeOK
<1>1. AxInv => TypeOK
  BY DEF AxInv, Typed
<1> QED
  BY <1>1, AxInvariant, PTL

LEMMA Repairable == AxInv => CommittedIsRepairable
<1> SUFFICES ASSUME AxInv, journal.by \in committed PROVE Status = "committed"
  BY DEF CommittedIsRepairable
<1>1. /\ journal.rows \subseteq Rows /\ journal.by # 0 /\ state.pointer = journal.by
  BY JournalRows
<1>2. journal # NoJournal
  BY <1>1 DEF NoJournal
<1>3. \A r \in journal.rows : r.id < state.next
  BY <1>1, Facts
<1>4. journal.rows \subseteq Canonical(state)
  BY <1>1 DEF Rows
<1> QED
  BY <1>1, <1>2, <1>3, <1>4 DEF Status

\* A batch that the state has taken in is published exactly once, or its
\* journal is there and says committed, so that recovery will publish it.
THEOREM Publication == Spec => []PublicationHolds
<1>1. AxInv => PublicationHolds
  BY Repairable DEF AxInv, PublicationHolds
<1> QED
  BY <1>1, AxInvariant, PTL

LEMMA Resurrection ==
  ASSUME AxInv, [Next]_vars, NEW q \in state.observed \cap state'.observed,
         AsTerminal(q) \in manifests
  PROVE  AsTerminal(q) \in manifests'
<1>1. q \in Rows /\ q \in Row /\ AsTerminal(q).id = q.id /\ q.id \in Nat
  BY Facts, Marks
<1>2. ASSUME NEW m, manifests' = Put(manifests, m), m.id # q.id \/ m = AsTerminal(q)
      PROVE  AsTerminal(q) \in manifests'
  BY <1>1, <1>2 DEF Put
<1>3. ASSUME NEW r \in Rows, manifests' = Put(manifests, AsTerminal(r))
      PROVE  AsTerminal(q) \in manifests'
  <2>1. AsTerminal(r).id = r.id /\ (r.id = q.id => r = q)
    BY <1>1, Facts, Marks
  <2> QED
    BY <1>2, <1>3, <2>1
<1>4. CASE \E r \in journal.rows : PublishManifest(r)
  <2>1. PICK r \in journal.rows : PublishManifest(r)
    BY <1>4
  <2>2. r \in Rows
    BY <2>1, JournalRows DEF PublishManifest, AxInv, InPlace
  <2>3. r \in Row /\ Current(r).id = r.id
    BY <2>2, Facts, Marks DEF Current
  <2>4. CASE r.id # q.id
    BY <1>2, <2>1, <2>3, <2>4 DEF PublishManifest
  <2>5. CASE r.id = q.id
    <3>1. r = q
      BY <1>1, <2>2, <2>5, Facts
    <3>2. \A p \in state.pending : p \in Rows /\ p # q
      BY Facts DEF AxInv, Typed, TypeOK
    <3>3. \A p \in state.pending : p.id # q.id
      BY <1>1, <3>2, Facts
    <3>4. Current(r) = AsTerminal(q)
      BY <3>1, <3>3 DEF Current
    <3> QED
      BY <1>2, <2>1, <3>4 DEF PublishManifest
  <2> QED
    BY <2>4, <2>5
<1>5. CASE \E r \in state.observed : WriteRetired(r)
  BY <1>3, <1>5, Facts DEF WriteRetired
<1>6. CASE \E r \in state.pending, dies \in BOOLEAN : Finish(r, dies)
  BY <1>3, <1>6, Facts DEF Finish
<1>7. CASE \E dies \in BOOLEAN : Import(dies)
  <2> DEFINE r == [id |-> state.next, by |-> 0]
  <2>1. r \in Row /\ r.id = state.next
    BY Facts, BoundAssumption DEF Row
  <2>2. manifests' = Put(manifests, AsTerminal(r))
    BY <1>7 DEF Import
  <2> HIDE DEF r
  <2>3. AsTerminal(r).id = r.id
    BY <2>1, Marks
  <2>4. r.id # q.id
    BY <1>1, <2>1, Facts
  <2> QED
    BY <1>2, <2>2, <2>3, <2>4
<1>8. CASE WipeTrials
  <2>1. Rows = {}
    BY <1>8 DEF WipeTrials, AxInv, InPlace, Wipes
  <2> QED
    BY <1>1, <2>1
<1>9. CASE UNCHANGED manifests
  BY <1>9
<1> QED
  BY <1>4, <1>5, <1>6, <1>7, <1>8, <1>9 DEF Next, Run, vars, logs, RecoverAllocation, Suggest,
     Recover, PublishDecisions, PublishEvents, Unlink, RetireStale, Refuse, Prepare, Commit,
     Rebuild, Reset, WipeDecisions, WipeEvents, Crash

\* No step, whoever takes it and whatever recovery finds, makes the terminal
\* manifest of a finished trial pending again.
THEOREM NothingResurrected == Spec => NeverResurrected
<1>1. AxInv /\ [Next]_vars =>
        [\A r \in state.observed \cap state'.observed :
           AsTerminal(r) \in manifests => AsTerminal(r) \in manifests']_vars
  BY Resurrection
<1> QED
  BY <1>1, AxInvariant, PTL DEF Spec, NeverResurrected
=============================================================================
