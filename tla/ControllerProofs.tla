-------------------------- MODULE ControllerProofs --------------------------
(***************************************************************************)
(* Proofs about Controller, for every value of its constants.              *)
(***************************************************************************)
EXTENDS Controller, FiniteSetTheorems, TLAPS

-----------------------------------------------------------------------------
(* Types.                                                                  *)

LEMMA IdleType == Idle \in Command
BY DEF Idle, Command, CanonicalState, EmptyState

LEMMA StartType ==
  ASSUME NEW op \in Commands, NEW work \in CanonicalState
  PROVE  Start(op, work) \in Command
BY IdleType DEF Start, Command

LEMMA ViewTypes ==
  /\ \A e \in Entry : PendingView(e) \in Manifest
  /\ \A o \in Observation : TerminalView(o) \in Manifest
  /\ \A o \in Observation : AckOf(o) \in Ack
  /\ \A e \in Entry, reason \in Killed : Kill(e, reason) \in Observation
BY DEF Entry, Observation, Manifest, Ack, PendingView, TerminalView, AckOf, Kill,
       Statuses, Killed

LEMMA ScoredType ==
  ASSUME NEW st \in CanonicalState
  PROVE  Scored(st) \in CanonicalState
<1>1. Best(st.observed) \in SUBSET Nat
  BY DEF Best, Ids, CanonicalState, Observation
<1> QED
  BY <1>1 DEF Scored, CanonicalState

LEMMA TerminateType ==
  ASSUME NEW st \in CanonicalState, NEW entries \in SUBSET Entry,
         NEW outcomes \in SUBSET Observation
  PROVE  Terminate(st, entries, outcomes) \in CanonicalState
BY DEF Terminate, CanonicalState

LEMMA PutType ==
  ASSUME NEW S, NEW rows \in SUBSET S, NEW row \in S
  PROVE  Put(rows, row) \in SUBSET S
BY DEF Put

LEMMA BatchType ==
  ASSUME TypeOK, NEW st \in CanonicalState, NEW n \in 1..MaxBatch,
         NEW choice \in [1..n -> Params]
  PROVE  Batch(st, n, choice) \in SUBSET Entry
<1> SUFFICES ASSUME NEW k \in 1..n
             PROVE  [id |-> st.next + k - 1, params |-> choice[k],
                     serial |-> serial + k, seen |-> clock] \in Entry
  BY DEF Batch
<1>1. /\ st.next \in Nat /\ serial \in Nat /\ clock \in Nat
      /\ k \in Nat /\ k >= 1 /\ choice[k] \in Params
  BY DEF TypeOK, CanonicalState
<1> QED
  BY <1>1 DEF Entry

LEMMA TypeInit == Init => TypeOK
BY IdleType DEF Init, TypeOK, EmptyState, CanonicalState

LEMMA PlanTypes ==
  ASSUME TypeOK
  PROVE  /\ Expired \in SUBSET Observation
         /\ Kept \in CanonicalState
         /\ "suggest" \in Commands => SuggestPlan \in Command
<1>1. state \in CanonicalState /\ Stale(state.pending) \in SUBSET Entry
  BY DEF TypeOK, CanonicalState, Stale
<1>2. Expired \in SUBSET Observation
  BY <1>1, ViewTypes DEF Killed, Expired
<1>3. Kept \in CanonicalState
  BY <1>1, <1>2, TerminateType DEF Kept
<1>4. {TerminalView(o) : o \in Expired} \in SUBSET Manifest
  BY <1>2, ViewTypes
<1>5. "suggest" \in Commands => SuggestPlan \in Command
  <2>1. (Expired # {}) \in BOOLEAN
    OBVIOUS
  <2>2. "suggest" \in Commands => Start("suggest", Kept) \in Command
    BY <1>3, StartType
  <2> QED
    BY <2>1, <2>2, <1>4 DEF SuggestPlan, Command
<1> QED
  BY <1>2, <1>3, <1>5

LEMMA TypeSuggestRefused ==
  ASSUME TypeOK, NEW n \in 1..MaxBatch, SuggestRefused(n)
  PROVE  TypeOK'
<1>1. SuggestPlan \in Command /\ Scored(Kept) \in CanonicalState
  BY PlanTypes, ScoredType DEF SuggestRefused, CanStart
<1>2. cmd' \in Command
  BY <1>1 DEF SuggestRefused, Command
<1> QED
  BY <1>2 DEF TypeOK, SuggestRefused, disk, world

LEMMA TypeSuggestInfeasible ==
  ASSUME TypeOK, NEW n \in 1..MaxBatch, SuggestInfeasible(n)
  PROVE  TypeOK'
<1>1. PICK k \in 0..n - 1 :
        cmd' = [SuggestPlan EXCEPT !.logs = {[id |-> Kept.next + k, serial |-> 0]}]
  BY DEF SuggestInfeasible
<1>2. SuggestPlan \in Command /\ Kept.next + k \in Nat
  BY PlanTypes DEF SuggestInfeasible, CanStart, CanonicalState
<1>3. cmd' \in Command
  BY <1>1, <1>2 DEF Command, Decision
<1> QED
  BY <1>3 DEF TypeOK, SuggestInfeasible, disk, world

LEMMA TypeSuggestAllocated ==
  ASSUME TypeOK, NEW n \in 1..MaxBatch, SuggestAllocated(n)
  PROVE  TypeOK'
<1>1. PICK choice \in [1..n -> Params] :
        cmd' = [SuggestPlan EXCEPT
                  !.work = [Kept EXCEPT !.pending = @ \cup Batch(Kept, n, choice),
                                        !.next = @ + n],
                  !.rows = {PendingView(e) : e \in Batch(Kept, n, choice)},
                  !.logs = {[id |-> e.id, serial |-> e.serial] :
                              e \in Batch(Kept, n, choice)},
                  !.gives = Batch(Kept, n, choice)]
  BY DEF SuggestAllocated
<1> DEFINE new == Batch(Kept, n, choice)
           work == [Kept EXCEPT !.pending = @ \cup new, !.next = @ + n]
           rows == {PendingView(e) : e \in new}
           logs == {[id |-> e.id, serial |-> e.serial] : e \in new}
<1>2. Kept \in CanonicalState /\ SuggestPlan \in Command
  BY PlanTypes DEF SuggestAllocated, CanStart
<1>3. new \in SUBSET Entry
  BY <1>2, BatchType
<1> HIDE DEF new
<1>4. work \in CanonicalState
  <2>1. Kept.next + n \in Nat /\ Kept.pending \cup new \in SUBSET Entry
    BY <1>2, <1>3 DEF CanonicalState
  <2> QED
    BY <1>2, <2>1 DEF CanonicalState
<1>5. rows \in SUBSET Manifest
  BY <1>3, ViewTypes
<1>6. logs \in SUBSET Decision
  BY <1>3 DEF Entry, Decision
<1>7. cmd' = [SuggestPlan EXCEPT !.work = work, !.rows = rows, !.logs = logs,
                                 !.gives = new]
  BY <1>1 DEF new
<1> HIDE DEF work, rows, logs
<1>8. cmd' \in Command
  BY <1>2, <1>3, <1>4, <1>5, <1>6, <1>7 DEF Command
<1>9. serial' \in Nat
  BY DEF TypeOK, SuggestAllocated
<1> QED
  BY <1>8, <1>9 DEF TypeOK, SuggestAllocated, disk

LEMMA TypeIngest ==
  ASSUME TypeOK, NEW s \in issued, NEW r \in Submissions, Ingest(s, r)
  PROVE  TypeOK'
<1>1. PICK e \in state.pending :
        LET o == [id |-> e.id, params |-> e.params, serial |-> e.serial,
                  by |-> s.serial, status |-> r.status, loss |-> r.loss]
        IN cmd' = [Start("ingest", Scored(Terminate(state, {e}, {o}))) EXCEPT
                     !.rows = {TerminalView(o)},
                     !.csv = TRUE,
                     !.tail = {[kind |-> "ingest_applied", id |-> o.id]},
                     !.acks = {AckOf(o)}]
  BY DEF Ingest
<1> DEFINE o == [id |-> e.id, params |-> e.params, serial |-> e.serial,
                 by |-> s.serial, status |-> r.status, loss |-> r.loss]
           work == Scored(Terminate(state, {e}, {o}))
           tail == {[kind |-> "ingest_applied", id |-> o.id]}
<1>2. /\ s \in Entry /\ e \in Entry /\ r \in [status: Statuses, loss: Nat]
      /\ state \in CanonicalState
  BY ConfigAssumption DEF TypeOK, CanonicalState
<1>3. o \in Observation
  BY <1>2 DEF Entry, Observation
<1>4. tail \in SUBSET Event
  BY <1>2 DEF Entry, Event, EventKinds
<1>5. cmd' = [Start("ingest", work) EXCEPT !.rows = {TerminalView(o)}, !.csv = TRUE,
                                          !.tail = tail, !.acks = {AckOf(o)}]
  BY <1>1
<1> HIDE DEF o, tail
<1>6. work \in CanonicalState
  BY <1>2, <1>3, TerminateType, ScoredType
<1>7. TerminalView(o) \in Manifest /\ AckOf(o) \in Ack
  BY <1>3, ViewTypes
<1> HIDE DEF work
<1>8. Start("ingest", work) \in Command
  BY <1>6, StartType DEF Ingest, CanStart
<1>9. cmd' \in Command
  BY <1>4, <1>5, <1>7, <1>8 DEF Command
<1> QED
  BY <1>9 DEF TypeOK, Ingest, disk, world

LEMMA TypeIngestAgain ==
  ASSUME TypeOK, NEW s \in issued, NEW r \in Submissions, IngestAgain(s, r)
  PROVE  TypeOK'
<1>1. PICK o \in state.observed :
        cmd' = [Start("ingest", state) EXCEPT
                  !.save = FALSE,
                  !.tail = {[kind |-> "ingest_duplicate_noop", id |-> o.id]},
                  !.acks = {AckOf(o)}]
  BY DEF IngestAgain
<1>2. state \in CanonicalState /\ o \in Observation
  BY DEF TypeOK, CanonicalState
<1>3. [kind |-> "ingest_duplicate_noop", id |-> o.id] \in Event /\ AckOf(o) \in Ack
  BY <1>2, ViewTypes DEF Event, EventKinds, Observation
<1>4. Start("ingest", state) \in Command
  BY <1>2, StartType DEF IngestAgain, CanStart
<1>5. cmd' \in Command
  BY <1>1, <1>3, <1>4 DEF Command
<1> QED
  BY <1>5 DEF TypeOK, IngestAgain, disk, world

LEMMA TypeCancel ==
  ASSUME TypeOK, NEW id, Cancel(id)
  PROVE  TypeOK'
<1>1. PICK e \in state.pending :
        /\ e.id = id
        /\ cmd' = [Start("cancel", Scored(Terminate(state, {e}, {Kill(e, "canceled")})))
                     EXCEPT !.rows = {TerminalView(Kill(e, "canceled"))},
                            !.csv = TRUE,
                            !.tail = {[kind |-> "trial_canceled", id |-> id]}]
  BY DEF Cancel
<1> DEFINE o == Kill(e, "canceled")
           work == Scored(Terminate(state, {e}, {o}))
           event == [kind |-> "trial_canceled", id |-> id]
<1>2. state \in CanonicalState /\ e \in Entry
  BY DEF TypeOK, CanonicalState
<1>3. o \in Observation /\ event \in Event
  BY <1>1, <1>2, ViewTypes DEF Killed, Entry, Event, EventKinds
<1> HIDE DEF o, event
<1>4. work \in CanonicalState /\ TerminalView(o) \in Manifest
  BY <1>2, <1>3, TerminateType, ScoredType, ViewTypes
<1>5. cmd' = [Start("cancel", work) EXCEPT !.rows = {TerminalView(o)}, !.csv = TRUE,
                                          !.tail = {event}]
  BY <1>1 DEF o, event
<1> HIDE DEF work
<1>6. Start("cancel", work) \in Command
  BY <1>4, StartType DEF Cancel, CanStart
<1>7. cmd' \in Command
  BY <1>3, <1>4, <1>5, <1>6 DEF Command
<1> QED
  BY <1>7 DEF TypeOK, Cancel, disk, world

LEMMA TypeRetire ==
  ASSUME TypeOK, NEW named \in SUBSET state.pending, NEW withStale \in BOOLEAN,
         Retire(named, withStale)
  PROVE  TypeOK'
<1> DEFINE old == IF withStale THEN Stale(state.pending) ELSE {}
           gone == named \cup old
           killed == {Kill(e, IF e \in old THEN "stale" ELSE "retired") : e \in gone}
           dead == {TerminalView(o) : o \in killed}
           work == Scored(Terminate(state, gone, killed))
<1>1. cmd' = [Start("retire", work) EXCEPT !.dead = dead, !.csv = TRUE]
  BY DEF Retire
<1>2. state \in CanonicalState /\ gone \in SUBSET Entry
  BY DEF TypeOK, CanonicalState, Stale
<1>3. killed \in SUBSET Observation
  BY <1>2, ViewTypes DEF Killed
<1> HIDE DEF killed, gone
<1>4. work \in CanonicalState /\ dead \in SUBSET Manifest
  BY <1>2, <1>3, TerminateType, ScoredType, ViewTypes
<1> HIDE DEF work, dead
<1>5. Start("retire", work) \in Command
  BY <1>4, StartType DEF Retire, CanStart
<1>6. cmd' \in Command
  BY <1>1, <1>4, <1>5 DEF Command
<1> QED
  BY <1>6 DEF TypeOK, Retire, disk, world

LEMMA TypeHeartbeat ==
  ASSUME TypeOK, NEW s \in issued, Heartbeat(s)
  PROVE  TypeOK'
<1>1. PICK e \in state.pending :
        LET touched == [e EXCEPT !.seen = clock]
        IN cmd' = [Start("heartbeat",
                         [state EXCEPT !.pending = Put(@, touched)]) EXCEPT
                     !.rows = {PendingView(touched)},
                     !.tail = {[kind |-> "heartbeat", id |-> e.id]},
                     !.beat = {[serial |-> e.serial, at |-> clock]}]
  BY DEF Heartbeat
<1> DEFINE touched == [e EXCEPT !.seen = clock]
           work == [state EXCEPT !.pending = Put(@, touched)]
           event == [kind |-> "heartbeat", id |-> e.id]
           beat == [serial |-> e.serial, at |-> clock]
<1>2. state \in CanonicalState /\ e \in Entry /\ clock \in Nat
  BY DEF TypeOK, CanonicalState
<1>3. touched \in Entry
  BY <1>2 DEF Entry
<1>4. event \in Event /\ beat \in [serial: Nat, at: Nat]
  BY <1>2 DEF Entry, Event, EventKinds
<1>5. cmd' = [Start("heartbeat", work) EXCEPT !.rows = {PendingView(touched)},
                                             !.tail = {event}, !.beat = {beat}]
  BY <1>1
<1> HIDE DEF touched, event, beat
<1>6. work \in CanonicalState
  BY <1>2, <1>3, PutType DEF CanonicalState
<1>7. PendingView(touched) \in Manifest
  BY <1>3, ViewTypes
<1> HIDE DEF work
<1>8. Start("heartbeat", work) \in Command
  BY <1>6, StartType DEF Heartbeat, CanStart
<1>9. cmd' \in Command
  BY <1>4, <1>5, <1>7, <1>8 DEF Command
<1> QED
  BY <1>9 DEF TypeOK, Heartbeat, disk, world

LEMMA TypeImport ==
  ASSUME TypeOK, NEW n \in 1..MaxBatch, Import(n)
  PROVE  TypeOK'
<1>1. PICK choice \in [1..n -> Params], result \in [1..n -> Submissions] :
        LET new == Imported(n, choice, result)
            work == [state EXCEPT !.observed = @ \cup new, !.next = @ + n]
        IN cmd' = [Start("import", Scored(work)) EXCEPT
                     !.rows = {TerminalView(o) : o \in new},
                     !.csv = TRUE,
                     !.tail = {[kind |-> "observations_imported", id |-> 0]}]
  BY DEF Import
<1> DEFINE new == Imported(n, choice, result)
           work == [state EXCEPT !.observed = @ \cup new, !.next = @ + n]
           rows == {TerminalView(o) : o \in new}
           event == [kind |-> "observations_imported", id |-> 0]
<1>2. state \in CanonicalState /\ state.next \in Nat /\ serial \in Nat
  BY DEF TypeOK, CanonicalState
<1>3. ASSUME NEW k \in 1..n
      PROVE  [id |-> state.next + k - 1, params |-> choice[k],
              serial |-> serial + k, by |-> serial + k,
              status |-> result[k].status, loss |-> result[k].loss] \in Observation
  <2>1. state.next + k - 1 \in Nat /\ serial + k \in Nat /\ choice[k] \in Params
    BY <1>2
  <2>2. result[k] \in [status: Statuses, loss: Nat]
    BY ConfigAssumption
  <2> QED
    BY <2>1, <2>2 DEF Observation
<1>4. new \in SUBSET Observation
  BY <1>3 DEF Imported
<1>5. cmd' = [Start("import", Scored(work)) EXCEPT !.rows = rows, !.csv = TRUE,
                                                  !.tail = {event}]
  BY <1>1
<1>6. event \in Event
  BY DEF Event, EventKinds
<1> HIDE DEF new, event
<1>7. work \in CanonicalState
  <2>1. state.next + n \in Nat /\ state.observed \cup new \in SUBSET Observation
    BY <1>2, <1>4 DEF CanonicalState
  <2> QED
    BY <1>2, <2>1 DEF CanonicalState
<1>8. rows \in SUBSET Manifest
  BY <1>4, ViewTypes
<1> HIDE DEF work, rows
<1>9. Start("import", Scored(work)) \in Command
  BY <1>7, ScoredType, StartType DEF Import, CanStart
<1>10. cmd' \in Command
  BY <1>5, <1>6, <1>8, <1>9 DEF Command
<1>11. serial' \in Nat
  BY <1>2 DEF Import
<1> QED
  BY <1>10, <1>11 DEF TypeOK, Import, disk

LEMMA TypeReset ==
  ASSUME TypeOK, Reset
  PROVE  TypeOK'
<1>1. EmptyState \in CanonicalState
  BY DEF EmptyState, CanonicalState
<1>2. ResetOrder \in Seq(Files)
  BY DEF ResetOrder, Files
<1>3. [kind |-> "campaign_reset", id |-> 0] \in Event
  BY DEF Event, EventKinds
<1>4. Start("reset", EmptyState) \in Command
  BY <1>1, StartType DEF Reset, CanStart
<1>5. cmd' \in Command
  BY <1>2, <1>3, <1>4 DEF Reset, Command
<1>6. resets' \in Nat
  BY DEF TypeOK, Reset
<1> QED
  BY <1>5, <1>6 DEF TypeOK, Reset, disk

\* The writes that touch no more than one log or one table.
LEMMA TypeWrites ==
  ASSUME TypeOK,
         AppendDue \/ WriteRetired \/ WriteManifest \/ AppendDecision
         \/ SaveState \/ WriteCsv \/ AppendTail
  PROVE  TypeOK'
<1>1. CASE AppendDue
  <2>1. cmd' \in Command /\ events' \in SUBSET Event
    BY <1>1 DEF TypeOK, AppendDue, Command
  <2> QED
    BY <1>1, <2>1 DEF TypeOK, AppendDue, world
<1>2. CASE WriteRetired
  <2>1. PICK row \in cmd.dead :
          /\ manifests' = Put(manifests, row)
          /\ cmd' = [cmd EXCEPT !.dead = @ \ {row},
                                !.due = {[kind |-> "trial_retired", id |-> row.id]}]
    BY <1>2 DEF WriteRetired
  <2>2. row \in Manifest
    BY DEF TypeOK, Command
  <2>3. [kind |-> "trial_retired", id |-> row.id] \in Event
    BY <2>2 DEF Manifest, Event, EventKinds
  <2>4. cmd' \in Command /\ manifests' \in SUBSET Manifest
    BY <2>1, <2>2, <2>3, PutType DEF TypeOK, Command
  <2> QED
    BY <1>2, <2>4 DEF TypeOK, WriteRetired, world
<1>3. CASE WriteManifest
  <2>1. PICK row \in cmd.rows :
          manifests' = Put(manifests, row) /\ cmd' = [cmd EXCEPT !.rows = @ \ {row}]
    BY <1>3 DEF WriteManifest, First
  <2>2. row \in Manifest
    BY DEF TypeOK, Command
  <2>3. cmd' \in Command /\ manifests' \in SUBSET Manifest
    BY <2>1, <2>2, PutType DEF TypeOK, Command
  <2> QED
    BY <1>3, <2>3 DEF TypeOK, WriteManifest, world
<1>4. CASE AppendDecision
  <2>1. PICK row \in cmd.logs :
          /\ decisions' = decisions \cup {row}
          /\ cmd' = [cmd EXCEPT
                       !.logs = @ \ {row},
                       !.due = IF row.serial = 0 THEN {}
                               ELSE {[kind |-> "suggestion_created", id |-> row.id]}]
    BY <1>4 DEF AppendDecision, First
  <2>2. row \in Decision
    BY DEF TypeOK, Command
  <2>3. [kind |-> "suggestion_created", id |-> row.id] \in Event
    BY <2>2 DEF Decision, Event, EventKinds
  <2>4. cmd' \in Command /\ decisions' \in SUBSET Decision
    BY <2>1, <2>2, <2>3 DEF TypeOK, Command
  <2> QED
    BY <1>4, <2>4 DEF TypeOK, AppendDecision, world
<1>5. CASE SaveState
  <2>1. cmd' \in Command /\ state' \in CanonicalState
    BY <1>5 DEF TypeOK, SaveState, Command
  <2> QED
    BY <1>5, <2>1 DEF TypeOK, SaveState, world
<1>6. CASE WriteCsv
  <2>1. cmd' \in Command /\ csv' \in SUBSET Observation
    BY <1>6 DEF TypeOK, WriteCsv, Command, CanonicalState
  <2> QED
    BY <1>6, <2>1 DEF TypeOK, WriteCsv, world
<1>7. CASE AppendTail
  <2>1. cmd' \in Command /\ events' \in SUBSET Event
    BY <1>7 DEF TypeOK, AppendTail, Command
  <2> QED
    BY <1>7, <2>1 DEF TypeOK, AppendTail, world
<1> QED
  BY <1>1, <1>2, <1>3, <1>4, <1>5, <1>6, <1>7

LEMMA TypeWipe ==
  ASSUME TypeOK, Wipe
  PROVE  TypeOK'
<1>1. EmptyState \in CanonicalState
  BY DEF EmptyState, CanonicalState
<1>2. state' \in CanonicalState
  BY <1>1 DEF TypeOK, Wipe
<1>3. csv' \in SUBSET Observation /\ decisions' \in SUBSET Decision
  BY DEF TypeOK, Wipe
<1>4. events' \in SUBSET Event /\ acked' \in SUBSET Ack /\ horizon' \in Nat
  BY DEF TypeOK, Wipe
<1>5. manifests' \in SUBSET Manifest
  BY DEF TypeOK, Wipe
<1>6. Tail(cmd.wipe) \in Seq(Files)
  BY DEF TypeOK, Command, Wipe
<1>7. cmd' \in Command
  BY <1>6 DEF TypeOK, Command, Wipe
<1> QED
  BY <1>2, <1>3, <1>4, <1>5, <1>7 DEF TypeOK, Wipe

LEMMA TypeEnds ==
  ASSUME TypeOK, Reply \/ Crash \/ Tick
  PROVE  TypeOK'
<1>1. CASE Reply
  <2>1. issued' \in SUBSET Entry /\ acked' \in SUBSET Ack
    BY <1>1 DEF TypeOK, Reply, Command
  <2>2. beats' \in SUBSET [serial: Nat, at: Nat]
    BY <1>1 DEF TypeOK, Reply, Command
  <2> QED
    BY <1>1, <2>1, <2>2, IdleType DEF TypeOK, Reply, disk
<1>2. CASE Crash
  BY <1>2, IdleType DEF TypeOK, Crash, disk
<1>3. CASE Tick
  BY <1>3 DEF TypeOK, Tick, disk
<1> QED
  BY <1>1, <1>2, <1>3

\* Every variable has the shape the code's loaders and validators assume,
\* whatever commands run, however they interleave and wherever they crash.
THEOREM TypeCorrect == Spec => []TypeOK
<1>1. TypeOK /\ [Next]_vars => TypeOK'
  <2> SUFFICES ASSUME TypeOK, [Next]_vars PROVE TypeOK'
    OBVIOUS
  <2>1. CASE Request
    BY <2>1, TypeSuggestRefused, TypeSuggestInfeasible, TypeSuggestAllocated,
       TypeImport, TypeIngest, TypeIngestAgain, TypeHeartbeat, TypeCancel,
       TypeRetire, TypeReset DEF Request
  <2>2. CASE Write
    BY <2>2, TypeWrites, TypeWipe, TypeEnds DEF Write
  <2>3. CASE Crash \/ Tick
    BY <2>3, TypeEnds
  <2>4. CASE UNCHANGED vars
    BY <2>4 DEF vars, disk, world, TypeOK
  <2> QED
    BY <2>1, <2>2, <2>3, <2>4 DEF Next
<1> QED
  BY <1>1, TypeInit, PTL DEF Spec

-----------------------------------------------------------------------------
(* The inductive invariant.  That outcomes and suggestions survive is not   *)
(* inductive by itself: it says nothing of the state a command is about to  *)
(* save, nor of the reply it is about to give.  InFlight adds both.         *)

\* Nothing in the state `old` is lost in the state `new`.
Preserves(old, new) ==
  /\ \A e \in old.pending : Covers(new, e)
  /\ old.observed \subseteq new.observed

Honest(st) == LeasesEnabled => \A o \in st.observed : o.by = o.serial

Sound(st) == OneFate(st) /\ Honest(st) /\ st.best = Best(st.observed)

\* The state file once the running command has finished with it.
Final == IF cmd.save THEN cmd.work ELSE state

InFlight ==
  /\ cmd.save => Sound(cmd.work) /\ Preserves(state, cmd.work)
  /\ \A s \in cmd.gives : Covers(Final, s)
  /\ \A a \in cmd.acks : Records(Final, a)
  /\ cmd.wipe # <<>> => ~cmd.save /\ cmd.gives = {} /\ cmd.acks = {}

SerialsDealt == \A s \in issued \cup cmd.gives : s.serial <= serial

IInv ==
  /\ TypeOK
  /\ Sound(state)
  /\ AcknowledgedKept
  /\ SuggestionKeepsItsTrial
  /\ InFlight
  /\ SerialsDealt

-----------------------------------------------------------------------------
(* What the state transformers keep.                                        *)

LEMMA TerminateFields ==
  ASSUME NEW st \in CanonicalState, NEW gone, NEW out
  PROVE  /\ Terminate(st, gone, out).next = st.next
         /\ Terminate(st, gone, out).pending = st.pending \ gone
         /\ Terminate(st, gone, out).observed = st.observed \cup out
         /\ Terminate(st, gone, out).best = st.best
BY DEF Terminate, CanonicalState

LEMMA ScoredFields ==
  ASSUME NEW st \in CanonicalState
  PROVE  /\ Scored(st).next = st.next
         /\ Scored(st).pending = st.pending
         /\ Scored(st).observed = st.observed
         /\ Scored(st).best = Best(st.observed)
BY DEF Scored, CanonicalState

LEMMA IdsFacts ==
  ASSUME NEW rows
  PROVE  /\ \A r \in rows : r.id \in Ids(rows)
         /\ \A id \in Ids(rows) : \E r \in rows : r.id = id
BY DEF Ids

\* Outcomes for pending trials, one each, leave every trial with one fate.
LEMMA TerminateKeeps ==
  ASSUME NEW st \in CanonicalState, OneFate(st),
         NEW gone \in SUBSET st.pending, NEW out \in SUBSET Observation,
         \A o \in out : \E e \in gone : Names(o, e),
         \A e \in gone : \E o \in out : Names(o, e),
         \A o, p \in out : o.id = p.id => o = p
  PROVE  /\ OneFate(Terminate(st, gone, out))
         /\ Preserves(st, Terminate(st, gone, out))
<1> DEFINE new == Terminate(st, gone, out)
<1>1. /\ new.next = st.next
      /\ new.pending = st.pending \ gone
      /\ new.observed = st.observed \cup out
  BY TerminateFields
<1> HIDE DEF new
<1>2. \A o \in out : \E e \in gone : o.id = e.id
  BY DEF Names
<1>3. OneFate(new)
  <2>1. \A id \in Ids(new.pending) \cup Ids(new.observed) : id < new.next
    BY <1>1, <1>2, IdsFacts DEF OneFate
  <2>2. \A e, f \in new.pending : e.id = f.id => e = f
    BY <1>1 DEF OneFate
  <2>3. \A o \in out, p \in st.observed : o.id # p.id
    <3>1. \A e \in gone, p \in st.observed : e.id # p.id
      BY IdsFacts DEF OneFate
    <3> QED
      BY <1>2, <3>1
  <2>4. \A o, p \in new.observed : o.id = p.id => o = p
    BY <1>1, <2>3 DEF OneFate
  <2>5. \A o \in new.observed, e \in new.pending : o.id # e.id
    <3>1. \A o \in out, e \in new.pending : o.id # e.id
      BY <1>1, <1>2 DEF OneFate
    <3>2. \A o \in st.observed, e \in st.pending : o.id # e.id
      BY IdsFacts DEF OneFate
    <3> QED
      BY <1>1, <3>1, <3>2
  <2>6. Ids(new.pending) \cap Ids(new.observed) = {}
    BY <2>5, IdsFacts
  <2> QED
    BY <2>1, <2>2, <2>4, <2>6 DEF OneFate
<1>4. Preserves(st, new)
  BY <1>1 DEF Preserves, Covers, Names
<1> QED
  BY <1>3, <1>4 DEF new

LEMMA ScoredKeeps ==
  ASSUME NEW old, NEW st \in CanonicalState
  PROVE  /\ OneFate(st) => OneFate(Scored(st))
         /\ Preserves(old, st) => Preserves(old, Scored(st))
         /\ Honest(st) => Honest(Scored(st))
         /\ OneFate(st) /\ Honest(st) => Sound(Scored(st))
BY ScoredFields DEF OneFate, Preserves, Covers, Honest, Sound, Ids

\* Killed trials compete for nothing.
LEMMA BestIgnoresKilled ==
  ASSUME NEW S, NEW K, \A o \in K : o.status # "ok"
  PROVE  Best(S \cup K) = Best(S)
<1>1. {o \in S \cup K : o.status = "ok"} = {o \in S : o.status = "ok"}
  OBVIOUS
<1> QED
  BY <1>1 DEF Best

LEMMA PreservesTransitive ==
  ASSUME NEW old, NEW mid, NEW new, Preserves(old, mid), Preserves(mid, new)
  PROVE  Preserves(old, new)
BY DEF Preserves, Covers, Names

\* New pending trials with fresh ids disturb nothing.
LEMMA OpenKeeps ==
  ASSUME NEW st \in CanonicalState, Sound(st),
         NEW rows \in SUBSET Entry, NEW m \in Nat, m >= st.next,
         \A e \in rows : e.id >= st.next /\ e.id < m,
         \A e, f \in rows : e.id = f.id => e = f
  PROVE  LET new == [st EXCEPT !.pending = @ \cup rows, !.next = m]
         IN Sound(new) /\ Preserves(st, new)
<1> DEFINE new == [st EXCEPT !.pending = @ \cup rows, !.next = m]
<1>1. /\ new.next = m
      /\ new.pending = st.pending \cup rows
      /\ new.observed = st.observed
      /\ new.best = st.best
  BY DEF CanonicalState
<1> HIDE DEF new
<1>2. /\ st.next \in Nat
      /\ \A e \in st.pending : e.id \in Nat /\ e.id < st.next
      /\ \A o \in st.observed : o.id \in Nat /\ o.id < st.next
      /\ \A e \in rows : e.id \in Nat
  BY IdsFacts DEF Sound, OneFate, CanonicalState, Entry, Observation
<1>3. \A id \in Ids(new.pending) \cup Ids(new.observed) : id < new.next
  BY <1>1, <1>2, IdsFacts
<1>4. \A e, f \in new.pending : e.id = f.id => e = f
  <2>1. \A e \in rows, f \in st.pending : e.id # f.id
    BY <1>2
  <2> QED
    BY <1>1, <2>1 DEF Sound, OneFate
<1>5. \A e \in new.pending, o \in new.observed : e.id # o.id
  <2>1. \A e \in rows, o \in st.observed : e.id # o.id
    BY <1>2
  <2>2. \A e \in st.pending, o \in st.observed : e.id # o.id
    BY IdsFacts DEF Sound, OneFate
  <2> QED
    BY <1>1, <2>1, <2>2
<1>6. Ids(new.pending) \cap Ids(new.observed) = {}
  BY <1>5, IdsFacts
<1>7. OneFate(new)
  BY <1>1, <1>3, <1>4, <1>6 DEF OneFate, Sound
<1>8. Sound(new)
  BY <1>1, <1>7 DEF Sound, Honest
<1>9. Preserves(st, new)
  BY <1>1 DEF Preserves, Covers, Names
<1> QED
  BY <1>8, <1>9 DEF new

LEMMA BatchFacts ==
  ASSUME TypeOK, NEW st \in CanonicalState, NEW n \in 1..MaxBatch,
         NEW choice \in [1..n -> Params]
  PROVE  LET new == Batch(st, n, choice) IN
         /\ \A e \in new : e.id >= st.next /\ e.id < st.next + n
         /\ \A e \in new : e.serial <= serial + n
         /\ \A e, f \in new : e.id = f.id => e = f
         /\ st.next + n \in Nat /\ st.next + n >= st.next
<1>1. st.next \in Nat /\ serial \in Nat /\ n \in Nat
  BY DEF TypeOK, CanonicalState
<1>2. \A k \in 1..n : /\ st.next + k - 1 >= st.next
                      /\ st.next + k - 1 < st.next + n
                      /\ serial + k <= serial + n
  BY <1>1
<1>3. \A j, k \in 1..n : st.next + j - 1 = st.next + k - 1 => j = k
  BY <1>1
<1> DEFINE new == Batch(st, n, choice)
<1>4. \A e \in new : \E k \in 1..n :
        e.id = st.next + k - 1 /\ e.serial = serial + k /\ e = [id |-> st.next + k - 1,
          params |-> choice[k], serial |-> serial + k, seen |-> clock]
  BY DEF Batch
<1>5. \A e, f \in new : e.id = f.id => e = f
  BY <1>3, <1>4
<1> HIDE DEF new
<1>6. \A e \in new : /\ e.id >= st.next /\ e.id < st.next + n
                     /\ e.serial <= serial + n
  BY <1>2, <1>4
<1>7. st.next + n \in Nat /\ st.next + n >= st.next
  BY <1>1
<1> QED
  BY <1>5, <1>6, <1>7 DEF new

\* What a command is about to commit keeps the invariant when it begins.
LEMMA Begin ==
  ASSUME IInv, TypeOK',
         cmd'.save => Sound(cmd'.work) /\ Preserves(state, cmd'.work),
         \A s \in cmd'.gives : Covers(Final', s) /\ s.serial <= serial',
         \A a \in cmd'.acks : Records(Final', a),
         cmd'.wipe # <<>> => ~cmd'.save /\ cmd'.gives = {} /\ cmd'.acks = {},
         serial <= serial',
         UNCHANGED <<state, issued, acked, horizon>>
  PROVE  IInv'
<1>1. Sound(state)' /\ AcknowledgedKept' /\ SuggestionKeepsItsTrial'
  BY DEF IInv, AcknowledgedKept, SuggestionKeepsItsTrial
<1>2. InFlight'
  BY DEF InFlight
<1>3. SerialsDealt'
  <2>1. \A s \in issued \cup cmd'.gives : s.serial \in Nat
    BY DEF IInv, TypeOK, Command, Entry
  <2>2. serial \in Nat /\ serial' \in Nat
    BY DEF IInv, TypeOK
  <2>3. \A s \in issued : s.serial <= serial
    BY DEF IInv, SerialsDealt
  <2> QED
    BY <2>1, <2>2, <2>3 DEF SerialsDealt
<1> QED
  BY <1>1, <1>2, <1>3 DEF IInv

-----------------------------------------------------------------------------
(* One lemma per request: what it is about to commit and to answer.         *)

\* A plan that is about to save `work` and promises nothing yet.
Pristine(plan, work) ==
  /\ plan.work = work /\ plan.save = TRUE /\ plan.wipe = <<>>
  /\ plan.gives = {} /\ plan.acks = {}

LEMMA StartFields ==
  ASSUME NEW op, NEW work
  PROVE  Pristine(Start(op, work), work)
BY DEF Start, Idle, Pristine

LEMMA PlanFields ==
  /\ SuggestPlan.work = Kept
  /\ SuggestPlan.save = TRUE
  /\ SuggestPlan.wipe = <<>>
  /\ SuggestPlan.gives = {}
  /\ SuggestPlan.acks = {}
BY DEF SuggestPlan, Start, Idle

LEMMA KillFacts ==
  ASSUME NEW e, NEW reason
  PROVE  /\ Names(Kill(e, reason), e)
         /\ Kill(e, reason).id = e.id
         /\ Kill(e, reason).by = Kill(e, reason).serial
         /\ Kill(e, reason).status = reason
BY DEF Kill, Names

\* Retiring the stale trials, which every suggest does first.
LEMMA KeptSound ==
  ASSUME IInv
  PROVE  Sound(Kept) /\ Preserves(state, Kept)
<1>1. state \in CanonicalState /\ OneFate(state) /\ Expired \in SUBSET Observation
  BY PlanTypes DEF IInv, Sound, TypeOK
<1>2. Stale(state.pending) \in SUBSET state.pending
  BY DEF Stale
<1>3. /\ \A o \in Expired : \E e \in Stale(state.pending) : Names(o, e)
      /\ \A e \in Stale(state.pending) : \E o \in Expired : Names(o, e)
  BY KillFacts DEF Expired
<1>4. \A o, p \in Expired : o.id = p.id => o = p
  BY <1>1, <1>2, KillFacts DEF Expired, OneFate
<1>5. OneFate(Kept) /\ Preserves(state, Kept)
  BY <1>1, <1>2, <1>3, <1>4, TerminateKeeps DEF Kept
<1>6. Kept.observed = state.observed \cup Expired /\ Kept.best = state.best
  BY <1>1, TerminateFields DEF Kept
<1>7. \A o \in Expired : o.by = o.serial /\ o.status # "ok"
  BY KillFacts DEF Expired
<1>8. Honest(Kept)
  BY <1>6, <1>7 DEF IInv, Sound, Honest
<1>9. Kept.best = Best(Kept.observed)
  <2>1. state.best = Best(state.observed)
    BY DEF IInv, Sound
  <2>2. Best(state.observed \cup Expired) = Best(state.observed)
    BY <1>7, BestIgnoresKilled
  <2> QED
    BY <1>6, <2>1, <2>2
<1> QED
  BY <1>5, <1>8, <1>9 DEF Sound

LEMMA RefusedSound ==
  ASSUME IInv, NEW n \in 1..MaxBatch, SuggestRefused(n)
  PROVE  IInv'
<1>1. TypeOK /\ TypeOK' /\ serial \in Nat
  BY TypeSuggestRefused DEF IInv, TypeOK
<1>2. /\ cmd'.work = Scored(Kept) /\ cmd'.save = TRUE
      /\ cmd'.wipe = <<>> /\ cmd'.gives = {} /\ cmd'.acks = {}
  <2>1. SuggestPlan \in Command
    BY <1>1, PlanTypes DEF SuggestRefused, CanStart
  <2> QED
    BY <2>1, PlanFields DEF SuggestRefused, Command
<1>3. Kept \in CanonicalState
  BY <1>1, PlanTypes
<1>4. Sound(Scored(Kept)) /\ Preserves(state, Scored(Kept))
  BY <1>3, KeptSound, ScoredKeeps DEF Sound
<1> QED
  BY <1>1, <1>2, <1>4, Begin DEF SuggestRefused, disk, world

LEMMA InfeasibleSound ==
  ASSUME IInv, NEW n \in 1..MaxBatch, SuggestInfeasible(n)
  PROVE  IInv'
<1>1. TypeOK /\ TypeOK' /\ serial \in Nat
  BY TypeSuggestInfeasible DEF IInv, TypeOK
<1>2. /\ cmd'.work = Kept /\ cmd'.save = TRUE
      /\ cmd'.wipe = <<>> /\ cmd'.gives = {} /\ cmd'.acks = {}
  <2>1. SuggestPlan \in Command
    BY <1>1, PlanTypes DEF SuggestInfeasible, CanStart
  <2> QED
    BY <2>1, PlanFields DEF SuggestInfeasible, Command
<1> QED
  BY <1>1, <1>2, KeptSound, Begin DEF SuggestInfeasible, disk, world

LEMMA AllocatedSound ==
  ASSUME IInv, NEW n \in 1..MaxBatch, SuggestAllocated(n)
  PROVE  IInv'
<1>1. TypeOK /\ TypeOK' /\ serial \in Nat /\ n \in Nat
  BY TypeSuggestAllocated DEF IInv, TypeOK
<1>2. Kept \in CanonicalState /\ SuggestPlan \in Command
  BY <1>1, PlanTypes DEF SuggestAllocated, CanStart
<1>3. PICK choice \in [1..n -> Params] :
        cmd' = [SuggestPlan EXCEPT
                  !.work = [Kept EXCEPT !.pending = @ \cup Batch(Kept, n, choice),
                                        !.next = @ + n],
                  !.rows = {PendingView(e) : e \in Batch(Kept, n, choice)},
                  !.logs = {[id |-> e.id, serial |-> e.serial] :
                              e \in Batch(Kept, n, choice)},
                  !.gives = Batch(Kept, n, choice)]
  BY DEF SuggestAllocated
<1> DEFINE new == Batch(Kept, n, choice)
           m == Kept.next + n
           work == [Kept EXCEPT !.pending = @ \cup new, !.next = m]
<1>4. /\ new \in SUBSET Entry /\ m \in Nat /\ m >= Kept.next
      /\ \A e \in new : e.id >= Kept.next /\ e.id < m /\ e.serial <= serial + n
      /\ \A e, f \in new : e.id = f.id => e = f
  BY <1>1, <1>2, BatchType, BatchFacts
<1>5. /\ cmd'.work = work /\ cmd'.save = TRUE /\ cmd'.gives = new
      /\ cmd'.wipe = <<>> /\ cmd'.acks = {}
  <2>1. cmd' = [SuggestPlan EXCEPT
                  !.work = work,
                  !.rows = {PendingView(e) : e \in new},
                  !.logs = {[id |-> e.id, serial |-> e.serial] : e \in new},
                  !.gives = new]
    BY <1>3
  <2> HIDE DEF work, new
  <2> QED
    BY <1>2, <2>1, PlanFields DEF Command
<1> HIDE DEF new, m
<1>6. Sound(work) /\ Preserves(Kept, work)
  BY <1>2, <1>4, KeptSound, OpenKeeps
<1>7. Preserves(state, work)
  BY <1>6, KeptSound, PreservesTransitive
<1>8. \A s \in new : Covers(work, s)
  <2>1. work.pending = Kept.pending \cup new
    BY <1>2 DEF CanonicalState
  <2> QED
    BY <2>1 DEF Covers, Names
<1>9. \A s \in cmd'.gives : Covers(Final', s) /\ s.serial <= serial'
  <2>1. Final' = work
    BY <1>5 DEF Final
  <2> HIDE DEF work
  <2> QED
    BY <1>4, <1>5, <1>8, <2>1 DEF SuggestAllocated
<1>10. serial <= serial'
  BY <1>1 DEF SuggestAllocated
<1> HIDE DEF work
<1> QED
  BY <1>1, <1>5, <1>6, <1>7, <1>9, <1>10, Begin DEF SuggestAllocated, disk

\* Recording outcomes for pending trials, as ingest, cancel and retire do.
LEMMA CloseSound ==
  ASSUME IInv, NEW gone \in SUBSET state.pending, NEW out \in SUBSET Observation,
         \A o \in out : \E e \in gone : Names(o, e),
         \A e \in gone : \E o \in out : Names(o, e),
         \A o, p \in out : o.id = p.id => o = p,
         LeasesEnabled => \A o \in out : o.by = o.serial
  PROVE  LET work == Scored(Terminate(state, gone, out))
         IN /\ Sound(work) /\ Preserves(state, work)
            /\ out \subseteq work.observed
<1> DEFINE mid == Terminate(state, gone, out)
<1>1. state \in CanonicalState /\ OneFate(state)
  BY DEF IInv, TypeOK, Sound
<1>2. gone \in SUBSET Entry
  BY <1>1 DEF CanonicalState
<1>3. mid \in CanonicalState
  BY <1>1, <1>2, TerminateType
<1>4. OneFate(mid) /\ Preserves(state, mid)
  BY <1>1, TerminateKeeps
<1>5. mid.observed = state.observed \cup out
  BY <1>1, TerminateFields
<1> HIDE DEF mid
<1>6. Honest(mid)
  BY <1>5 DEF IInv, Sound, Honest
<1>7. Sound(Scored(mid)) /\ Preserves(state, Scored(mid))
  BY <1>3, <1>4, <1>6, ScoredKeeps
<1>8. out \subseteq Scored(mid).observed
  BY <1>3, <1>5, ScoredFields
<1> QED
  BY <1>7, <1>8 DEF mid

LEMMA IngestSound ==
  ASSUME IInv, NEW s \in issued, NEW r \in Submissions, Ingest(s, r)
  PROVE  IInv'
<1>1. TypeOK' /\ state \in CanonicalState /\ serial \in Nat
  BY TypeIngest DEF IInv, TypeOK
<1>2. PICK e \in state.pending :
        /\ HoldsLease(s, e)
        /\ LET o == [id |-> e.id, params |-> e.params, serial |-> e.serial,
                     by |-> s.serial, status |-> r.status, loss |-> r.loss]
           IN cmd' = [Start("ingest", Scored(Terminate(state, {e}, {o}))) EXCEPT
                        !.rows = {TerminalView(o)},
                        !.csv = TRUE,
                        !.tail = {[kind |-> "ingest_applied", id |-> o.id]},
                        !.acks = {AckOf(o)}]
  BY DEF Ingest
<1> DEFINE o == [id |-> e.id, params |-> e.params, serial |-> e.serial,
                 by |-> s.serial, status |-> r.status, loss |-> r.loss]
           work == Scored(Terminate(state, {e}, {o}))
           tail == {[kind |-> "ingest_applied", id |-> o.id]}
<1>3. /\ s \in Entry /\ e \in Entry /\ r \in [status: Statuses, loss: Nat]
  BY <1>1, ConfigAssumption DEF IInv, TypeOK, CanonicalState
<1>4. o \in Observation
  BY <1>3 DEF Entry, Observation
<1>5. Names(o, e) /\ (LeasesEnabled => o.by = o.serial)
  BY <1>2 DEF Names, HoldsLease
<1>6. cmd' = [Start("ingest", work) EXCEPT !.rows = {TerminalView(o)}, !.csv = TRUE,
                                          !.tail = tail, !.acks = {AckOf(o)}]
  BY <1>2
<1> HIDE DEF o, tail
<1>7. Sound(work) /\ Preserves(state, work) /\ o \in work.observed
  <2>1. {e} \in SUBSET state.pending /\ {o} \in SUBSET Observation
    BY <1>4
  <2>2. {o} \subseteq work.observed /\ Sound(work) /\ Preserves(state, work)
    BY <2>1, <1>5, CloseSound
  <2> QED
    BY <2>2
<1>8. work \in CanonicalState
  BY <1>1, <1>3, <1>4, TerminateType, ScoredType
<1> HIDE DEF work
<1>9. Start("ingest", work) \in Command
  BY <1>8, StartType DEF Ingest, CanStart
<1>10. /\ cmd'.work = work /\ cmd'.save = TRUE /\ cmd'.wipe = <<>>
       /\ cmd'.gives = {} /\ cmd'.acks = {AckOf(o)}
  <2>1. Pristine(Start("ingest", work), work)
    BY StartFields
  <2> QED
    BY <1>6, <1>9, <2>1 DEF Command, Pristine
<1>11. Final' = work
  BY <1>10 DEF Final
<1>12. \A a \in cmd'.acks : Records(Final', a)
  BY <1>7, <1>10, <1>11 DEF Records
<1>13. UNCHANGED <<state, issued, acked, horizon, serial>>
  BY DEF Ingest, disk, world
<1> QED
  BY <1>1, <1>7, <1>10, <1>12, <1>13, Begin

LEMMA IngestAgainSound ==
  ASSUME IInv, NEW s \in issued, NEW r \in Submissions, IngestAgain(s, r)
  PROVE  IInv'
<1>1. TypeOK' /\ state \in CanonicalState /\ serial \in Nat
  BY TypeIngestAgain DEF IInv, TypeOK
<1>2. PICK o \in state.observed :
        cmd' = [Start("ingest", state) EXCEPT
                  !.save = FALSE,
                  !.tail = {[kind |-> "ingest_duplicate_noop", id |-> o.id]},
                  !.acks = {AckOf(o)}]
  BY DEF IngestAgain
<1> DEFINE plan == Start("ingest", state)
           tail == {[kind |-> "ingest_duplicate_noop", id |-> o.id]}
           acks == {AckOf(o)}
<1>3. plan \in Command
  BY <1>1, StartType DEF IngestAgain, CanStart
<1>4. /\ cmd'.save = FALSE /\ cmd'.wipe = <<>>
      /\ cmd'.gives = {} /\ cmd'.acks = acks
  <2>1. Pristine(plan, state)
    BY StartFields
  <2>2. cmd' = [plan EXCEPT !.save = FALSE, !.tail = tail, !.acks = acks]
    BY <1>2
  <2> HIDE DEF plan, tail, acks
  <2> QED
    BY <1>3, <2>1, <2>2 DEF Command, Pristine
<1>5. Final' = state
  BY <1>4 DEF Final, IngestAgain, disk
<1>6. \A a \in cmd'.acks : Records(Final', a)
  BY <1>4, <1>5 DEF Records
<1> QED
  BY <1>1, <1>4, <1>6, Begin DEF IngestAgain, disk, world

LEMMA CancelSound ==
  ASSUME IInv, NEW id, Cancel(id)
  PROVE  IInv'
<1>1. TypeOK' /\ state \in CanonicalState /\ serial \in Nat
  BY TypeCancel DEF IInv, TypeOK
<1>2. PICK e \in state.pending :
        cmd' = [Start("cancel", Scored(Terminate(state, {e}, {Kill(e, "canceled")})))
                     EXCEPT !.rows = {TerminalView(Kill(e, "canceled"))},
                            !.csv = TRUE,
                            !.tail = {[kind |-> "trial_canceled", id |-> id]}]
  BY DEF Cancel
<1> DEFINE o == Kill(e, "canceled")
           work == Scored(Terminate(state, {e}, {o}))
           rows == {TerminalView(o)}
           tail == {[kind |-> "trial_canceled", id |-> id]}
<1>3. e \in Entry /\ o \in Observation
  BY <1>1, ViewTypes DEF CanonicalState, Killed
<1>4. Names(o, e) /\ o.by = o.serial
  BY KillFacts
<1>5. cmd' = [Start("cancel", work) EXCEPT !.rows = rows, !.csv = TRUE, !.tail = tail]
  BY <1>2
<1> HIDE DEF o, rows, tail
<1>6. Sound(work) /\ Preserves(state, work)
  <2>1. {e} \in SUBSET state.pending /\ {o} \in SUBSET Observation
    BY <1>3
  <2> QED
    BY <2>1, <1>4, CloseSound
<1>7. work \in CanonicalState
  BY <1>1, <1>3, TerminateType, ScoredType
<1> HIDE DEF work
<1>8. Start("cancel", work) \in Command
  BY <1>7, StartType DEF Cancel, CanStart
<1>9. /\ cmd'.work = work /\ cmd'.save = TRUE /\ cmd'.wipe = <<>>
      /\ cmd'.gives = {} /\ cmd'.acks = {}
  <2>1. Pristine(Start("cancel", work), work)
    BY StartFields
  <2> QED
    BY <1>5, <1>8, <2>1 DEF Command, Pristine
<1>10. UNCHANGED <<state, issued, acked, horizon, serial>>
  BY DEF Cancel, disk, world
<1> QED
  BY <1>1, <1>6, <1>9, <1>10, Begin

LEMMA RetireSound ==
  ASSUME IInv, NEW named \in SUBSET state.pending, NEW withStale \in BOOLEAN,
         Retire(named, withStale)
  PROVE  IInv'
<1> DEFINE old == IF withStale THEN Stale(state.pending) ELSE {}
           gone == named \cup old
           killed == {Kill(e, IF e \in old THEN "stale" ELSE "retired") : e \in gone}
           dead == {TerminalView(o) : o \in killed}
           work == Scored(Terminate(state, gone, killed))
           plan == Start("retire", work)
<1>1. TypeOK' /\ state \in CanonicalState /\ OneFate(state) /\ serial \in Nat
  BY TypeRetire DEF IInv, TypeOK, Sound
<1>2. cmd' = [plan EXCEPT !.dead = dead, !.csv = TRUE]
  BY DEF Retire
<1>3. gone \in SUBSET state.pending /\ gone \in SUBSET Entry
  BY <1>1 DEF Stale, CanonicalState
<1>4. killed \in SUBSET Observation
  BY <1>3, ViewTypes DEF Killed
<1>5. /\ \A o \in killed : \E e \in gone : Names(o, e)
      /\ \A e \in gone : \E o \in killed : Names(o, e)
  BY KillFacts
<1>6. \A o, p \in killed : o.id = p.id => o = p
  <2>1. \A e, f \in gone : e.id = f.id => e = f
    BY <1>1, <1>3 DEF OneFate
  <2> QED
    BY <2>1, KillFacts
<1>7. \A o \in killed : o.by = o.serial
  BY KillFacts
<1> HIDE DEF killed, gone
<1>8. Sound(work) /\ Preserves(state, work)
  BY <1>3, <1>4, <1>5, <1>6, <1>7, CloseSound
<1>9. work \in CanonicalState
  BY <1>1, <1>3, <1>4, TerminateType, ScoredType
<1> HIDE DEF work, dead
<1>10. plan \in Command /\ Pristine(plan, work)
  <2>1. "retire" \in Commands
    BY DEF Retire, CanStart
  <2>2. plan \in Command
    BY <1>9, <2>1, StartType
  <2> QED
    BY <2>2, StartFields
<1> HIDE DEF plan
<1>11. /\ cmd'.work = work /\ cmd'.save = TRUE
       /\ cmd'.wipe = <<>> /\ cmd'.gives = {} /\ cmd'.acks = {}
  BY <1>2, <1>10 DEF Command, Pristine
<1>12. UNCHANGED <<state, issued, acked, horizon, serial>>
  BY DEF Retire, disk, world
<1> QED
  BY <1>1, <1>8, <1>11, <1>12, Begin

LEMMA HeartbeatSound ==
  ASSUME IInv, NEW s \in issued, Heartbeat(s)
  PROVE  IInv'
<1>1. PICK e \in state.pending :
        LET touched == [e EXCEPT !.seen = clock]
        IN cmd' = [Start("heartbeat",
                         [state EXCEPT !.pending = Put(@, touched)]) EXCEPT
                     !.rows = {PendingView(touched)},
                     !.tail = {[kind |-> "heartbeat", id |-> e.id]},
                     !.beat = {[serial |-> e.serial, at |-> clock]}]
  BY DEF Heartbeat
<1> DEFINE touched == [e EXCEPT !.seen = clock]
           work == [state EXCEPT !.pending = Put(@, touched)]
           rows == {PendingView(touched)}
           tail == {[kind |-> "heartbeat", id |-> e.id]}
           beat == {[serial |-> e.serial, at |-> clock]}
           plan == Start("heartbeat", work)
<1>2. /\ TypeOK' /\ state \in CanonicalState /\ e \in Entry
      /\ clock \in Nat /\ serial \in Nat
  BY TypeHeartbeat DEF IInv, TypeOK, CanonicalState
<1>3. touched \in Entry /\ Names(touched, e)
  BY <1>2 DEF Entry, Names
<1>4. cmd' = [plan EXCEPT !.rows = rows, !.tail = tail, !.beat = beat]
  BY <1>1
<1> HIDE DEF touched, rows, tail, beat
<1>5. /\ work.next = state.next /\ work.best = state.best
      /\ work.observed = state.observed /\ work.pending = Put(state.pending, touched)
  BY <1>2 DEF CanonicalState
<1>6. work \in CanonicalState
  BY <1>2, <1>3, PutType DEF CanonicalState
<1> HIDE DEF work
<1>7. \A f \in work.pending : f = touched \/ (f \in state.pending /\ f.id # e.id)
  BY <1>3, <1>5 DEF Put, Names
<1>8. touched \in work.pending
  BY <1>5 DEF Put
<1>9. OneFate(state)
  BY DEF IInv, Sound
<1>10. OneFate(work)
  <2>1. \A f \in work.pending : \E g \in state.pending : f.id = g.id
    BY <1>3, <1>7 DEF Names
  <2>2. \A id \in Ids(work.pending) \cup Ids(work.observed) : id < work.next
    BY <1>5, <1>9, <2>1, IdsFacts DEF OneFate
  <2>3. \A f, g \in work.pending : f.id = g.id => f = g
    BY <1>3, <1>7, <1>9 DEF OneFate, Names
  <2>4. \A f \in work.pending, o \in work.observed : f.id # o.id
    BY <1>5, <1>9, <2>1, IdsFacts DEF OneFate
  <2>5. Ids(work.pending) \cap Ids(work.observed) = {}
    BY <2>4, IdsFacts
  <2> QED
    BY <1>5, <1>9, <2>2, <2>3, <2>5 DEF OneFate
<1>11. Sound(work)
  BY <1>5, <1>10 DEF IInv, Sound, Honest
<1>12. Preserves(state, work)
  <2>1. ASSUME NEW f \in state.pending PROVE Covers(work, f)
    <3>1. CASE f.id = e.id
      <4>1. f = e
        BY <1>9, <3>1 DEF OneFate
      <4> QED
        BY <1>3, <1>8, <4>1 DEF Covers
    <3>2. CASE f.id # e.id
      BY <1>3, <1>5, <3>2 DEF Covers, Put, Names
    <3> QED
      BY <3>1, <3>2
  <2> QED
    BY <1>5, <2>1 DEF Preserves
<1>13. plan \in Command /\ Pristine(plan, work)
  <2>1. "heartbeat" \in Commands
    BY DEF Heartbeat, CanStart
  <2>2. plan \in Command
    BY <1>6, <2>1, StartType
  <2> QED
    BY <2>2, StartFields
<1> HIDE DEF plan
<1>14. /\ cmd'.work = work /\ cmd'.save = TRUE
       /\ cmd'.wipe = <<>> /\ cmd'.gives = {} /\ cmd'.acks = {}
  BY <1>4, <1>13 DEF Command, Pristine
<1>15. UNCHANGED <<state, issued, acked, horizon, serial>>
  BY DEF Heartbeat, disk, world
<1> QED
  BY <1>2, <1>11, <1>12, <1>14, <1>15, Begin

LEMMA ImportSound ==
  ASSUME IInv, NEW n \in 1..MaxBatch, Import(n)
  PROVE  IInv'
<1>1. PICK choice \in [1..n -> Params], result \in [1..n -> Submissions] :
        LET new == Imported(n, choice, result)
            work == [state EXCEPT !.observed = @ \cup new, !.next = @ + n]
        IN cmd' = [Start("import", Scored(work)) EXCEPT
                     !.rows = {TerminalView(o) : o \in new},
                     !.csv = TRUE,
                     !.tail = {[kind |-> "observations_imported", id |-> 0]}]
  BY DEF Import
<1> DEFINE new == Imported(n, choice, result)
           m == state.next + n
           work == [state EXCEPT !.observed = @ \cup new, !.next = m]
           rows == {TerminalView(o) : o \in new}
           tail == {[kind |-> "observations_imported", id |-> 0]}
           plan == Start("import", Scored(work))
<1>2. /\ TypeOK' /\ state \in CanonicalState /\ n \in Nat
      /\ serial \in Nat /\ state.next \in Nat /\ state.pending = {}
  <2>1. TypeOK' /\ n \in Nat
    BY TypeImport DEF IInv
  <2> QED
    BY <2>1 DEF IInv, TypeOK, CanonicalState, Import
<1>3. cmd' = [plan EXCEPT !.rows = rows, !.csv = TRUE, !.tail = tail]
  BY <1>1
<1> HIDE DEF rows, tail
<1>4. /\ new \in SUBSET Observation
      /\ \A o \in new : o.id >= state.next /\ o.id < m /\ o.by = o.serial
      /\ \A o, p \in new : o.id = p.id => o = p
  <2>1. ASSUME NEW k \in 1..n
        PROVE  /\ state.next + k - 1 \in Nat /\ serial + k \in Nat
               /\ state.next + k - 1 >= state.next /\ state.next + k - 1 < m
               /\ choice[k] \in Params
               /\ result[k] \in [status: Statuses, loss: Nat]
    BY <1>2, ConfigAssumption
  <2>2. \A j, k \in 1..n : state.next + j - 1 = state.next + k - 1 => j = k
    BY <1>2
  <2>3. new \in SUBSET Observation
    BY <2>1 DEF Imported, Observation
  <2>4. \A o \in new : \E k \in 1..n :
          /\ o.id = state.next + k - 1 /\ o.by = o.serial
          /\ o = [id |-> state.next + k - 1, params |-> choice[k],
                  serial |-> serial + k, by |-> serial + k,
                  status |-> result[k].status, loss |-> result[k].loss]
    BY DEF Imported
  <2> HIDE DEF new
  <2>5. \A o \in new : o.id >= state.next /\ o.id < m /\ o.by = o.serial
    <3> SUFFICES ASSUME NEW o \in new
                 PROVE  o.id >= state.next /\ o.id < m /\ o.by = o.serial
      OBVIOUS
    <3>1. PICK k \in 1..n : o.id = state.next + k - 1 /\ o.by = o.serial
      BY <2>4
    <3> HIDE DEF m
    <3> QED
      BY <2>1, <3>1
  <2>6. \A o, p \in new : o.id = p.id => o = p
    <3> SUFFICES ASSUME NEW o \in new, NEW p \in new, o.id = p.id
                 PROVE  o = p
      OBVIOUS
    <3> DEFINE row(k) == [id |-> state.next + k - 1, params |-> choice[k],
                          serial |-> serial + k, by |-> serial + k,
                          status |-> result[k].status, loss |-> result[k].loss]
    <3>1. PICK j \in 1..n : o.id = state.next + j - 1 /\ o = row(j)
      BY <2>4
    <3>2. PICK k \in 1..n : p.id = state.next + k - 1 /\ p = row(k)
      BY <2>4
    <3> HIDE DEF row
    <3>3. j = k
      BY <2>2, <3>1, <3>2
    <3> QED
      BY <3>1, <3>2, <3>3
  <2> QED
    BY <2>3, <2>5, <2>6
<1>5. m \in Nat /\ m >= state.next
  BY <1>2
<1> HIDE DEF new, m
<1>6. /\ work.next = m /\ work.pending = {} /\ work.best = state.best
      /\ work.observed = state.observed \cup new
  BY <1>2 DEF CanonicalState
<1>7. work \in CanonicalState
  BY <1>2, <1>4, <1>5 DEF CanonicalState
<1> HIDE DEF work
<1>8. OneFate(work)
  <2>1. \A o \in state.observed : o.id \in Nat /\ o.id < state.next
    BY <1>2, IdsFacts DEF IInv, Sound, OneFate, CanonicalState, Observation
  <2>2. \A o \in new : o.id \in Nat
    BY <1>4 DEF Observation
  <2>3. \A id \in Ids(work.pending) \cup Ids(work.observed) : id < work.next
    BY <1>2, <1>4, <1>5, <1>6, <2>1, <2>2, IdsFacts
  <2>4. \A o \in new, p \in state.observed : o.id # p.id
    BY <1>2, <1>4, <2>1, <2>2
  <2>5. \A o, p \in work.observed : o.id = p.id => o = p
    BY <1>4, <1>6, <2>4 DEF IInv, Sound, OneFate
  <2>6. Ids(work.pending) \cap Ids(work.observed) = {}
    BY <1>6, IdsFacts
  <2> QED
    BY <1>6, <2>3, <2>5, <2>6 DEF OneFate
<1>9. Honest(work) /\ Preserves(state, work)
  BY <1>2, <1>4, <1>6 DEF IInv, Sound, Honest, Preserves
<1>10. Sound(Scored(work)) /\ Preserves(state, Scored(work))
  BY <1>7, <1>8, <1>9, ScoredKeeps
<1>11. plan \in Command /\ Pristine(plan, Scored(work))
  <2>1. "import" \in Commands /\ Scored(work) \in CanonicalState
    BY <1>7, ScoredType DEF Import, CanStart
  <2>2. plan \in Command
    BY <2>1, StartType
  <2> QED
    BY <2>2, StartFields
<1> HIDE DEF plan
<1>12. /\ cmd'.work = Scored(work) /\ cmd'.save = TRUE
       /\ cmd'.wipe = <<>> /\ cmd'.gives = {} /\ cmd'.acks = {}
  BY <1>3, <1>11 DEF Command, Pristine
<1>13. UNCHANGED <<state, issued, acked, horizon>> /\ serial' = serial + n
  BY DEF Import, disk
<1>14. serial <= serial'
  BY <1>2, <1>13
<1> QED
  BY <1>2, <1>10, <1>12, <1>13, <1>14, Begin

LEMMA ResetSound ==
  ASSUME IInv, Reset
  PROVE  IInv'
<1> DEFINE plan == Start("reset", EmptyState)
           tail == {[kind |-> "campaign_reset", id |-> 0]}
<1>1. TypeOK' /\ serial \in Nat
  BY TypeReset DEF IInv, TypeOK
<1>2. plan \in Command /\ Pristine(plan, EmptyState)
  <2>1. EmptyState \in CanonicalState /\ "reset" \in Commands
    BY DEF EmptyState, CanonicalState, Reset, CanStart
  <2>2. plan \in Command
    BY <2>1, StartType
  <2> QED
    BY <2>2, StartFields
<1>3. cmd' = [plan EXCEPT !.save = FALSE, !.wipe = ResetOrder, !.tail = tail]
  BY DEF Reset
<1> HIDE DEF plan, tail
<1>4. ~cmd'.save /\ cmd'.gives = {} /\ cmd'.acks = {}
  BY <1>2, <1>3 DEF Command, Pristine
<1>5. UNCHANGED <<state, issued, acked, horizon, serial>>
  BY DEF Reset, disk
<1> QED
  BY <1>1, <1>4, <1>5, Begin

-----------------------------------------------------------------------------
(* The writes, the reply and the crash.                                     *)

\* Writes that leave the state file and the rest of the plan alone.
LEMMA SideWriteSound ==
  ASSUME IInv, TypeOK',
         UNCHANGED <<state, issued, acked, horizon, serial>>,
         /\ cmd'.work = cmd.work /\ cmd'.save = cmd.save /\ cmd'.wipe = cmd.wipe
         /\ cmd'.gives = cmd.gives /\ cmd'.acks = cmd.acks
  PROVE  IInv'
<1>1. Final' = Final
  BY DEF Final
<1>2. InFlight'
  BY <1>1 DEF IInv, InFlight
<1>3. SerialsDealt'
  BY DEF IInv, SerialsDealt
<1> QED
  BY <1>2, <1>3 DEF IInv, AcknowledgedKept, SuggestionKeepsItsTrial

LEMMA SideWrites ==
  ASSUME IInv,
         AppendDue \/ WriteRetired \/ WriteManifest \/ AppendDecision
         \/ WriteCsv \/ AppendTail
  PROVE  IInv'
<1>1. TypeOK' /\ cmd \in Command
  BY TypeWrites DEF IInv, TypeOK
<1>2. UNCHANGED <<state, issued, acked, horizon, serial>>
  BY DEF AppendDue, WriteRetired, WriteManifest, AppendDecision, WriteCsv,
         AppendTail, world
<1>3. /\ cmd'.work = cmd.work /\ cmd'.save = cmd.save /\ cmd'.wipe = cmd.wipe
      /\ cmd'.gives = cmd.gives /\ cmd'.acks = cmd.acks
  <2>1. \/ \E due : cmd' = [cmd EXCEPT !.due = due]
        \/ \E dead, due : cmd' = [cmd EXCEPT !.dead = dead, !.due = due]
        \/ \E rows : cmd' = [cmd EXCEPT !.rows = rows]
        \/ \E logs, due : cmd' = [cmd EXCEPT !.logs = logs, !.due = due]
        \/ \E csvLeft : cmd' = [cmd EXCEPT !.csv = csvLeft]
        \/ \E tail : cmd' = [cmd EXCEPT !.tail = tail]
    BY DEF AppendDue, WriteRetired, WriteManifest, AppendDecision, WriteCsv, AppendTail
  <2> QED
    BY <1>1, <2>1 DEF Command
<1> QED
  BY <1>1, <1>2, <1>3, SideWriteSound

\* The commit point: what was recorded and handed out before is still there.
LEMMA SaveSound ==
  ASSUME IInv, SaveState
  PROVE  IInv'
<1>1. TypeOK' /\ cmd \in Command /\ state \in CanonicalState
  BY TypeWrites DEF IInv, TypeOK
<1>2. /\ state' = cmd.work
      /\ cmd' = [cmd EXCEPT !.save = FALSE]
      /\ cmd.save
      /\ UNCHANGED <<issued, acked, horizon, serial>>
  BY DEF SaveState, world
<1>3. /\ cmd'.save = FALSE /\ cmd'.wipe = cmd.wipe
      /\ cmd'.gives = cmd.gives /\ cmd'.acks = cmd.acks
  BY <1>1, <1>2 DEF Command
<1>4. Sound(state)' /\ Preserves(state, state')
  BY <1>2 DEF IInv, InFlight
<1>5. AcknowledgedKept'
  BY <1>2, <1>4 DEF IInv, AcknowledgedKept, Records, Preserves
<1>6. SuggestionKeepsItsTrial'
  <2>1. \A s : Covers(state, s) => Covers(state', s)
    BY <1>4 DEF Preserves, Covers, Names
  <2> QED
    BY <1>2, <2>1 DEF IInv, SuggestionKeepsItsTrial
<1>7. Final' = Final
  BY <1>2, <1>3 DEF Final
<1>8. InFlight'
  BY <1>2, <1>3, <1>7 DEF IInv, InFlight
<1>9. SerialsDealt'
  BY <1>2, <1>3 DEF IInv, SerialsDealt
<1> QED
  BY <1>1, <1>4, <1>5, <1>6, <1>8, <1>9 DEF IInv

\* Removing the state file starts a new generation: every suggestion handed
\* out so far belongs to an earlier one.
LEMMA WipeSound ==
  ASSUME IInv, Wipe
  PROVE  IInv'
<1>1. TypeOK' /\ cmd \in Command /\ serial \in Nat
  BY TypeWipe DEF IInv, TypeOK
<1>2. /\ cmd'.work = cmd.work /\ cmd'.save = cmd.save
      /\ cmd'.gives = cmd.gives /\ cmd'.acks = cmd.acks
  <2>1. cmd' = cmd \/ cmd' = [cmd EXCEPT !.wipe = Tail(@)]
    BY DEF Wipe
  <2> QED
    BY <1>1, <2>1 DEF Command
<1>3. cmd.wipe # <<>> /\ ~cmd.save /\ cmd.gives = {} /\ cmd.acks = {}
  BY DEF Wipe, IInv, InFlight
<1>4. UNCHANGED <<issued, serial>>
  BY DEF Wipe
<1>5. \/ state' = EmptyState /\ acked' = {} /\ horizon' = serial
      \/ UNCHANGED <<state, acked, horizon>>
  BY DEF Wipe
<1>6. Sound(EmptyState)
  BY DEF Sound, OneFate, Honest, EmptyState, Ids, Best
<1>7. Sound(state)' /\ AcknowledgedKept'
  BY <1>5, <1>6 DEF IInv, AcknowledgedKept
<1>8. SuggestionKeepsItsTrial'
  <2>1. \A s \in issued : s.serial \in Nat /\ s.serial <= serial
    BY DEF IInv, SerialsDealt, TypeOK, Entry
  <2>2. CASE horizon' = serial
    BY <1>1, <1>4, <2>1, <2>2 DEF SuggestionKeepsItsTrial
  <2>3. CASE UNCHANGED <<state, horizon>>
    BY <1>4, <2>3 DEF IInv, SuggestionKeepsItsTrial
  <2> QED
    BY <1>5, <2>2, <2>3
<1>9. InFlight'
  BY <1>2, <1>3 DEF InFlight
<1>10. SerialsDealt'
  BY <1>2, <1>4 DEF IInv, SerialsDealt
<1> QED
  BY <1>1, <1>7, <1>8, <1>9, <1>10 DEF IInv

LEMMA IdleQuiet ==
  /\ Idle.save = FALSE /\ Idle.wipe = <<>> /\ Idle.gives = {} /\ Idle.acks = {}
BY DEF Idle

LEMMA EndsSound ==
  ASSUME IInv, Reply \/ Crash \/ Tick
  PROVE  IInv'
<1>1. TypeOK'
  BY TypeEnds DEF IInv
<1>2. CASE Reply
  <2>1. /\ cmd' = Idle
        /\ issued' = issued \cup cmd.gives
        /\ acked' = acked \cup cmd.acks
        /\ UNCHANGED <<state, serial, horizon>>
        /\ ~cmd.save
    BY <1>2 DEF Reply, Wiped, Exported, Saved, disk
  <2>2. \A s \in cmd.gives : Covers(state, s)
    BY <2>1 DEF IInv, InFlight, Final
  <2>3. \A a \in cmd.acks : Records(state, a)
    BY <2>1 DEF IInv, InFlight, Final
  <2>4. AcknowledgedKept'
    BY <2>1, <2>3 DEF IInv, AcknowledgedKept
  <2>5. SuggestionKeepsItsTrial'
    BY <2>1, <2>2 DEF IInv, SuggestionKeepsItsTrial
  <2>6. InFlight' /\ SerialsDealt'
    BY <2>1, IdleQuiet DEF IInv, InFlight, SerialsDealt
  <2> QED
    BY <1>1, <2>1, <2>4, <2>5, <2>6 DEF IInv
<1>3. CASE Crash
  <2>1. cmd' = Idle /\ UNCHANGED <<state, serial, horizon, issued, acked>>
    BY <1>3 DEF Crash, disk
  <2>2. InFlight' /\ SerialsDealt'
    BY <2>1, IdleQuiet DEF IInv, InFlight, SerialsDealt
  <2> QED
    BY <1>1, <2>1, <2>2 DEF IInv, AcknowledgedKept, SuggestionKeepsItsTrial
<1>4. CASE Tick
  BY <1>1, <1>4, SideWriteSound DEF Tick, disk
<1> QED
  BY <1>2, <1>3, <1>4

LEMMA InitSound == Init => IInv
<1> SUFFICES ASSUME Init PROVE IInv
  OBVIOUS
<1>1. TypeOK
  BY TypeInit
<1>2. Sound(state)
  BY DEF Init, EmptyState, Sound, OneFate, Honest, Ids, Best
<1>3. AcknowledgedKept /\ SuggestionKeepsItsTrial
  BY DEF Init, AcknowledgedKept, SuggestionKeepsItsTrial
<1>4. InFlight /\ SerialsDealt
  BY IdleQuiet DEF Init, InFlight, SerialsDealt
<1> QED
  BY <1>1, <1>2, <1>3, <1>4 DEF IInv

\* The strengthening is an invariant.
THEOREM Strengthening == Spec => []IInv
<1>1. IInv /\ [Next]_vars => IInv'
  <2> SUFFICES ASSUME IInv, [Next]_vars PROVE IInv'
    OBVIOUS
  <2>1. CASE Request
    BY <2>1, RefusedSound, InfeasibleSound, AllocatedSound, ImportSound,
       IngestSound, IngestAgainSound, HeartbeatSound, CancelSound, RetireSound,
       ResetSound DEF Request
  <2>2. CASE Write
    BY <2>2, SideWrites, SaveSound, WipeSound, EndsSound DEF Write
  <2>3. CASE Crash \/ Tick
    BY <2>3, EndsSound
  <2>4. CASE UNCHANGED vars
    <3>1. TypeOK'
      BY <2>4 DEF IInv, TypeOK, vars, disk, world
    <3> QED
      BY <2>4, <3>1, SideWriteSound DEF vars, disk, world
  <2> QED
    BY <2>1, <2>2, <2>3, <2>4 DEF Next
<1> QED
  BY <1>1, InitSound, PTL DEF Spec

\* No crash, batch or late report gives a trial two fates or reuses its id.
THEOREM OneFateAlways == Spec => []OneFatePerTrial
<1>1. IInv => OneFatePerTrial
  BY DEF IInv, Sound, OneFatePerTrial
<1> QED
  BY <1>1, Strengthening, PTL

\* An outcome reported back as recorded stays recorded as submitted.
THEOREM AcknowledgementsLast == Spec => []AcknowledgedKept
<1>1. IInv => AcknowledgedKept
  BY DEF IInv
<1> QED
  BY <1>1, Strengthening, PTL

\* A suggestion in a worker's hands keeps naming the trial it was printed for.
THEOREM SuggestionsKeepTheirTrials == Spec => []SuggestionKeepsItsTrial
<1>1. IInv => SuggestionKeepsItsTrial
  BY DEF IInv
<1> QED
  BY <1>1, Strengthening, PTL

\* With worker leases only the worker a trial was handed to reports on it.
THEOREM LeasesKeepForeignersOut == Spec => []NoForeignResult
<1>1. IInv => NoForeignResult
  BY DEF IInv, Sound, Honest, NoForeignResult
<1> QED
  BY <1>1, Strengthening, PTL

\* The incumbent in the state file is the best of its observations.
THEOREM IncumbentIsCurrent == Spec => []BestIsCurrent
<1>1. IInv => BestIsCurrent
  BY DEF IInv, Sound, BestIsCurrent
<1> QED
  BY <1>1, Strengthening, PTL

-----------------------------------------------------------------------------
(***************************************************************************)
(* The controller's files agree with one another, the budget holds,        *)
(* heartbeats protect their trials, and each replacement of bo_state.json  *)
(* is a step of TrialLedger.                                               *)
(*                                                                         *)
(* All four arguments start from what a request may plan at all: whatever  *)
(* the command, the state it is about to save drops some pending trials,   *)
(* adds outcomes and pending trials, and owes a manifest for each row it   *)
(* adds.  Change says so once; one lemma per command shows that it does.   *)
(***************************************************************************)

(* What a request plans.                                                    *)

Matches(gone, out) ==
  /\ \A o \in out : \E e \in gone : Names(o, e)
  /\ \A e \in gone : \E o \in out : Names(o, e)

\* The manifests the running command has yet to write.
Left == cmd.dead \cup cmd.rows

\* The plan just made takes the trials `gone` out of the pending ones, adds
\* the outcomes `out` and the pending trials `new`.
Change(gone, out, new) ==
  /\ cmd'.op # "none" /\ cmd'.save = TRUE /\ cmd'.wipe = <<>> /\ cmd'.due = {}
  /\ gone \in SUBSET state.pending
  /\ out \in SUBSET Observation /\ new \in SUBSET Entry
  /\ cmd'.work.pending = (state.pending \ gone) \cup new
  /\ cmd'.work.observed = state.observed \cup out
  /\ Left' = {TerminalView(o) : o \in out} \cup {PendingView(e) : e \in new}
  /\ cmd'.csv \/ out = {}

\* The rows a plan adds belong to trials it took away or are new trials, and
\* no two belong to the same trial.
Traceable(gone, out, new) ==
  /\ \A r \in out \cup new :
       \/ \E e \in gone : Names(r, e)
       \/ r.id >= state.next /\ r.serial \in serial + 1 .. serial'
  /\ \A o, p \in out : o.id = p.id => o = p
  /\ \A e, f \in new : e.id = f.id => e = f
  /\ \A o \in out, e \in new : o.id # e.id
  /\ \A e \in new : [id |-> e.id, serial |-> e.serial] \in cmd'.logs
                      \/ \E f \in gone : Names(e, f)

\* What a plan does to the ages of pending trials.
Dated(gone, out, new) ==
  /\ \A e \in new : e.seen = clock
  /\ \A e, f \in new : e.serial = f.serial => e = f
  /\ \A o \in out : o.status = "stale" =>
       o.serial > serial \/ \E e \in Stale(state.pending) : o.serial = e.serial
  /\ \A b \in cmd'.beat : b.at = clock /\ \E e \in new : b.serial = e.serial

\* The rows take the n next ids.
Takes(rows, n) ==
  /\ n \in Nat /\ n >= 1
  /\ Ids(rows) = state.next .. state.next + n - 1
  /\ cmd'.work.next = state.next + n

Settling(gone, out, new) ==
  Matches(gone, out) /\ new = {} /\ cmd'.work.next = state.next

Allocating(gone, out, new) ==
  /\ Matches(gone, out) /\ \A o \in out : o.status = "stale"
  /\ \E n \in Nat :
       /\ Takes(new, n)
       /\ ~(Cardinality(state.pending \ gone) + n > MaxPending)
       /\ ~(Cardinality(state.observed \cup out) + Cardinality(state.pending \ gone) + n
              > MaxTrials)

Touching(gone, out, new) ==
  /\ out = {} /\ cmd'.work.next = state.next
  /\ \E e \in state.pending : gone = {e} /\ new = {[e EXCEPT !.seen = clock]}

Recording(gone, out, new) ==
  state.pending = {} /\ gone = {} /\ new = {} /\ \E n \in Nat : Takes(out, n)

Kinds(gone, out, new) ==
  \/ Settling(gone, out, new) \/ Allocating(gone, out, new)
  \/ Touching(gone, out, new) \/ Recording(gone, out, new)

Plans(gone, out, new) ==
  /\ Change(gone, out, new) /\ Traceable(gone, out, new)
  /\ Dated(gone, out, new) /\ Kinds(gone, out, new)

Makes == \E gone, out, new : Plans(gone, out, new)

\* The plan a command starts from: state to save and nothing else to do.
Fields(plan, op, work) ==
  /\ Pristine(plan, work) /\ plan.op = op
  /\ plan.dead = {} /\ plan.rows = {} /\ plan.logs = {} /\ plan.due = {}
  /\ plan.csv = FALSE /\ plan.tail = {} /\ plan.beat = {}

LEMMA StartFull ==
  ASSUME NEW op, NEW work
  PROVE  Fields(Start(op, work), op, work)
BY DEF Start, Idle, Fields, Pristine

\* ingest, cancel, retire and the retirement part of suggest.
LEMMA ClosePlans ==
  ASSUME IInv, NEW gone \in SUBSET state.pending, NEW out \in SUBSET Observation,
         Matches(gone, out), \A o, p \in out : o.id = p.id => o = p,
         \A o \in out : o.status = "stale" =>
           \E e \in Stale(state.pending) : o.serial = e.serial,
         \/ cmd'.work = Terminate(state, gone, out)
         \/ cmd'.work = Scored(Terminate(state, gone, out)),
         cmd'.save = TRUE, cmd'.wipe = <<>>, cmd'.due = {}, cmd'.beat = {},
         Left' = {TerminalView(o) : o \in out},
         cmd'.csv \/ out = {}, cmd'.op # "none"
  PROVE  Makes
<1>0. /\ cmd'.work.next = state.next
      /\ cmd'.work.pending = state.pending \ gone
      /\ cmd'.work.observed = state.observed \cup out
  <2> DEFINE mid == Terminate(state, gone, out)
  <2>1. state \in CanonicalState /\ gone \in SUBSET Entry
    BY DEF IInv, TypeOK, CanonicalState
  <2>2. mid \in CanonicalState
    BY <2>1, TerminateType
  <2>3. /\ mid.next = state.next /\ mid.pending = state.pending \ gone
        /\ mid.observed = state.observed \cup out
    BY <2>1, TerminateFields
  <2>4. cmd'.work = mid \/ cmd'.work = Scored(mid)
    OBVIOUS
  <2> HIDE DEF mid
  <2> QED
    BY <2>2, <2>3, <2>4, ScoredFields
<1>1. Change(gone, out, {})
  BY <1>0 DEF Change
<1>2. Traceable(gone, out, {})
  BY DEF Traceable, Matches
<1>3. Dated(gone, out, {})
  BY DEF Dated
<1>4. Kinds(gone, out, {})
  BY <1>0 DEF Kinds, Settling
<1> QED
  BY <1>1, <1>2, <1>3, <1>4 DEF Plans, Makes

LEMMA IngestPlans ==
  ASSUME IInv, NEW s \in issued, NEW r \in Submissions, Ingest(s, r)
  PROVE  Makes
<1>1. state \in CanonicalState
  BY DEF IInv, TypeOK
<1>2. PICK e \in state.pending :
        LET o == [id |-> e.id, params |-> e.params, serial |-> e.serial,
                  by |-> s.serial, status |-> r.status, loss |-> r.loss]
        IN cmd' = [Start("ingest", Scored(Terminate(state, {e}, {o}))) EXCEPT
                     !.rows = {TerminalView(o)},
                     !.csv = TRUE,
                     !.tail = {[kind |-> "ingest_applied", id |-> o.id]},
                     !.acks = {AckOf(o)}]
  BY DEF Ingest
<1> DEFINE o == [id |-> e.id, params |-> e.params, serial |-> e.serial,
                 by |-> s.serial, status |-> r.status, loss |-> r.loss]
           work == Scored(Terminate(state, {e}, {o}))
           rows == {TerminalView(o)}
           tail == {[kind |-> "ingest_applied", id |-> o.id]}
           acks == {AckOf(o)}
           plan == Start("ingest", work)
<1>3. /\ s \in Entry /\ e \in Entry
      /\ r \in [status: Statuses, loss: Nat] /\ r.status # "stale"
  BY <1>1, ConfigAssumption DEF IInv, TypeOK, CanonicalState
<1>4. o \in Observation /\ Names(o, e) /\ o.status # "stale"
  BY <1>3 DEF Entry, Observation, Names
<1>5. cmd' = [plan EXCEPT !.rows = rows, !.csv = TRUE, !.tail = tail, !.acks = acks]
  BY <1>2
<1> HIDE DEF o, tail, acks
<1>6. work \in CanonicalState
  <2>1. {e} \in SUBSET Entry /\ {o} \in SUBSET Observation
    BY <1>3, <1>4
  <2> QED
    BY <1>1, <2>1, TerminateType, ScoredType
<1> HIDE DEF work
<1>7. plan \in Command /\ Fields(plan, "ingest", work)
  BY <1>6, StartType, StartFull DEF Ingest, CanStart
<1> HIDE DEF plan
<1>8. /\ cmd'.work = work /\ cmd'.save = TRUE /\ cmd'.wipe = <<>>
      /\ cmd'.due = {} /\ cmd'.beat = {} /\ cmd'.dead = {} /\ cmd'.rows = rows /\ cmd'.csv = TRUE /\ cmd'.op # "none"
  BY <1>5, <1>7 DEF Command, Fields, Pristine
<1>9. Left' = {TerminalView(p) : p \in {o}}
  BY <1>8 DEF Left
<1>10. {o} \in SUBSET Observation /\ {e} \in SUBSET state.pending /\ Matches({e}, {o})
  BY <1>4 DEF Matches
<1>11. \A p \in {o} : p.status # "stale"
  BY <1>4
<1> QED
  BY <1>8, <1>9, <1>10, <1>11, ClosePlans DEF work

LEMMA CancelPlans ==
  ASSUME IInv, NEW id, Cancel(id)
  PROVE  Makes
<1>1. state \in CanonicalState
  BY DEF IInv, TypeOK
<1>2. PICK e \in state.pending :
        cmd' = [Start("cancel", Scored(Terminate(state, {e}, {Kill(e, "canceled")})))
                     EXCEPT !.rows = {TerminalView(Kill(e, "canceled"))},
                            !.csv = TRUE,
                            !.tail = {[kind |-> "trial_canceled", id |-> id]}]
  BY DEF Cancel
<1> DEFINE o == Kill(e, "canceled")
           work == Scored(Terminate(state, {e}, {o}))
           rows == {TerminalView(o)}
           tail == {[kind |-> "trial_canceled", id |-> id]}
           plan == Start("cancel", work)
<1>3. e \in Entry /\ o \in Observation
  BY <1>1, ViewTypes DEF CanonicalState, Killed
<1>4. Names(o, e) /\ o.status # "stale"
  BY KillFacts
<1>5. cmd' = [plan EXCEPT !.rows = rows, !.csv = TRUE, !.tail = tail]
  BY <1>2
<1> HIDE DEF o, tail
<1>6. work \in CanonicalState
  <2>1. {e} \in SUBSET Entry /\ {o} \in SUBSET Observation
    BY <1>3
  <2> QED
    BY <1>1, <2>1, TerminateType, ScoredType
<1> HIDE DEF work
<1>7. plan \in Command /\ Fields(plan, "cancel", work)
  BY <1>6, StartType, StartFull DEF Cancel, CanStart
<1> HIDE DEF plan
<1>8. /\ cmd'.work = work /\ cmd'.save = TRUE /\ cmd'.wipe = <<>>
      /\ cmd'.due = {} /\ cmd'.beat = {} /\ cmd'.dead = {} /\ cmd'.rows = rows /\ cmd'.csv = TRUE /\ cmd'.op # "none"
  BY <1>5, <1>7 DEF Command, Fields, Pristine
<1>9. Left' = {TerminalView(p) : p \in {o}}
  BY <1>8 DEF Left
<1>10. {o} \in SUBSET Observation /\ {e} \in SUBSET state.pending /\ Matches({e}, {o})
  BY <1>3, <1>4 DEF Matches
<1>11. \A p \in {o} : p.status # "stale"
  BY <1>4
<1> QED
  BY <1>8, <1>9, <1>10, <1>11, ClosePlans DEF work

LEMMA RetirePlans ==
  ASSUME IInv, NEW named \in SUBSET state.pending, NEW withStale \in BOOLEAN,
         Retire(named, withStale)
  PROVE  Makes
<1> DEFINE old == IF withStale THEN Stale(state.pending) ELSE {}
           gone == named \cup old
           killed == {Kill(e, IF e \in old THEN "stale" ELSE "retired") : e \in gone}
           dead == {TerminalView(o) : o \in killed}
           work == Scored(Terminate(state, gone, killed))
           plan == Start("retire", work)
<1>1. state \in CanonicalState /\ OneFate(state)
  BY DEF IInv, TypeOK, Sound
<1>2. cmd' = [plan EXCEPT !.dead = dead, !.csv = TRUE]
  BY DEF Retire
<1>3. gone \in SUBSET state.pending /\ gone \in SUBSET Entry
  BY <1>1 DEF Stale, CanonicalState
<1>4. killed \in SUBSET Observation
  BY <1>3, ViewTypes DEF Killed
<1>5. Matches(gone, killed)
  BY KillFacts DEF Matches
<1>6. \A o, p \in killed : o.id = p.id => o = p
  <2>1. \A e, f \in gone : e.id = f.id => e = f
    BY <1>1, <1>3 DEF OneFate
  <2> QED
    BY <2>1, KillFacts
<1>7. \A o \in killed : o.status = "stale" =>
        \E e \in Stale(state.pending) : o.serial = e.serial
  <2> SUFFICES ASSUME NEW e \in gone,
                      Kill(e, IF e \in old THEN "stale" ELSE "retired").status = "stale"
               PROVE  \E f \in Stale(state.pending) : 
                        Kill(e, IF e \in old THEN "stale" ELSE "retired").serial = f.serial
    OBVIOUS
  <2>1. e \in Stale(state.pending)
    BY KillFacts
  <2> QED
    BY <2>1, KillFacts DEF Names
<1> HIDE DEF killed, gone
<1>8. work \in CanonicalState
  BY <1>1, <1>3, <1>4, TerminateType, ScoredType
<1> HIDE DEF work
<1>9. plan \in Command /\ Fields(plan, "retire", work)
  BY <1>8, StartType, StartFull DEF Retire, CanStart
<1> HIDE DEF plan
<1>10. /\ cmd'.work = work /\ cmd'.save = TRUE /\ cmd'.wipe = <<>>
       /\ cmd'.due = {} /\ cmd'.beat = {} /\ cmd'.dead = dead /\ cmd'.rows = {} /\ cmd'.csv = TRUE /\ cmd'.op # "none"
  BY <1>2, <1>9 DEF Command, Fields, Pristine
<1>11. Left' = dead
  BY <1>10 DEF Left
<1> QED
  BY <1>3, <1>4, <1>5, <1>6, <1>7, <1>10, <1>11, ClosePlans DEF work, dead

\* The trials every suggest retires first, and the state without them.
LEMMA KeptFacts ==
  ASSUME IInv
  PROVE  /\ Kept \in CanonicalState /\ Kept.next = state.next
         /\ Kept.pending = state.pending \ Stale(state.pending)
         /\ Kept.observed = state.observed \cup Expired
         /\ Expired \in SUBSET Observation
         /\ Stale(state.pending) \in SUBSET state.pending
         /\ Matches(Stale(state.pending), Expired)
         /\ \A o, p \in Expired : o.id = p.id => o = p
         /\ \A o \in Expired :
              o.status = "stale" /\ \E e \in Stale(state.pending) : o.serial = e.serial
<1>1. /\ TypeOK /\ state \in CanonicalState /\ OneFate(state)
      /\ Expired \in SUBSET Observation /\ Kept \in CanonicalState
  BY PlanTypes DEF IInv, Sound, TypeOK
<1>2. Stale(state.pending) \in SUBSET state.pending
  BY DEF Stale
<1>3. Matches(Stale(state.pending), Expired)
  BY KillFacts DEF Expired, Matches
<1>4. \A o, p \in Expired : o.id = p.id => o = p
  BY <1>1, <1>2, KillFacts DEF Expired, OneFate
<1>5. /\ Kept.next = state.next
      /\ Kept.pending = state.pending \ Stale(state.pending)
      /\ Kept.observed = state.observed \cup Expired
  BY <1>1, TerminateFields DEF Kept
<1>6. \A o \in Expired :
        o.status = "stale" /\ \E e \in Stale(state.pending) : o.serial = e.serial
  BY KillFacts DEF Expired, Names
<1> QED
  BY <1>1, <1>2, <1>3, <1>4, <1>5, <1>6

LEMMA SuggestFields ==
  ASSUME "suggest" \in Commands, IInv
  PROVE  /\ SuggestPlan \in Command /\ Pristine(SuggestPlan, Kept)
         /\ SuggestPlan.dead = {TerminalView(o) : o \in Expired}
         /\ SuggestPlan.rows = {} /\ SuggestPlan.logs = {} /\ SuggestPlan.due = {}
         /\ SuggestPlan.csv = (Expired # {}) /\ SuggestPlan.beat = {} /\ SuggestPlan.op # "none"
<1> DEFINE plan == Start("suggest", Kept)
           dead == {TerminalView(o) : o \in Expired}
           owes == Expired # {}
<1>1. TypeOK
  BY DEF IInv
<1>2. plan \in Command /\ Fields(plan, "suggest", Kept) /\ SuggestPlan \in Command
  BY <1>1, PlanTypes, StartType, StartFull
<1>3. SuggestPlan = [plan EXCEPT !.dead = dead, !.csv = owes]
  BY DEF SuggestPlan
<1> HIDE DEF plan, dead, owes
<1>4. /\ Pristine(SuggestPlan, Kept) /\ SuggestPlan.dead = dead
      /\ SuggestPlan.rows = {} /\ SuggestPlan.logs = {} /\ SuggestPlan.due = {}
      /\ SuggestPlan.csv = owes /\ SuggestPlan.beat = {} /\ SuggestPlan.op # "none"
  BY <1>2, <1>3 DEF Command, Fields, Pristine
<1> QED
  BY <1>2, <1>4 DEF dead, owes

LEMMA RefusedPlans ==
  ASSUME IInv, NEW n \in 1..MaxBatch, SuggestRefused(n)
  PROVE  Makes
<1> DEFINE work == Scored(Kept)
<1>1. "suggest" \in Commands /\ cmd' = [SuggestPlan EXCEPT !.work = work]
  BY DEF SuggestRefused, CanStart
<1>2. work = Scored(Terminate(state, Stale(state.pending), Expired))
  BY DEF Kept
<1> HIDE DEF work
<1>3. /\ cmd'.work = work /\ cmd'.save = TRUE /\ cmd'.wipe = <<>>
      /\ cmd'.due = {} /\ cmd'.beat = {} /\ cmd'.dead = {TerminalView(o) : o \in Expired} /\ cmd'.rows = {}
      /\ cmd'.csv = (Expired # {}) /\ cmd'.op # "none"
  BY <1>1, SuggestFields DEF Command, Pristine
<1>4. Left' = {TerminalView(o) : o \in Expired}
  BY <1>3 DEF Left
<1> QED
  BY <1>2, <1>3, <1>4, KeptFacts, ClosePlans

LEMMA InfeasiblePlans ==
  ASSUME IInv, NEW n \in 1..MaxBatch, SuggestInfeasible(n)
  PROVE  Makes
<1>1. PICK k \in 0..n - 1 :
        cmd' = [SuggestPlan EXCEPT !.logs = {[id |-> Kept.next + k, serial |-> 0]}]
  BY DEF SuggestInfeasible
<1>2. "suggest" \in Commands
  BY DEF SuggestInfeasible, CanStart
<1>3. /\ cmd'.work = Kept /\ cmd'.save = TRUE /\ cmd'.wipe = <<>>
      /\ cmd'.due = {} /\ cmd'.beat = {} /\ cmd'.dead = {TerminalView(o) : o \in Expired} /\ cmd'.rows = {}
      /\ cmd'.csv = (Expired # {}) /\ cmd'.op # "none"
  BY <1>1, <1>2, SuggestFields DEF Command, Pristine
<1>4. Left' = {TerminalView(o) : o \in Expired}
  BY <1>3 DEF Left
<1>5. Kept = Terminate(state, Stale(state.pending), Expired)
  BY DEF Kept
<1>6. /\ Stale(state.pending) \in SUBSET state.pending /\ Expired \in SUBSET Observation
      /\ Matches(Stale(state.pending), Expired)
      /\ \A o, p \in Expired : o.id = p.id => o = p
      /\ \A o \in Expired :
           o.status = "stale" => \E e \in Stale(state.pending) : o.serial = e.serial
  BY KeptFacts
<1>7. cmd'.csv \/ Expired = {}
  BY <1>3
<1> QED
  BY <1>3, <1>4, <1>5, <1>6, <1>7, ClosePlans

\* What a batch of n suggestions looks like.
LEMMA BatchRows ==
  ASSUME IInv, NEW n \in 1..MaxBatch, NEW choice \in [1..n -> Params]
  PROVE  LET new == Batch(Kept, n, choice) IN
         /\ new \in SUBSET Entry
         /\ Ids(new) = state.next .. state.next + n - 1
         /\ \A e \in new : /\ e.id >= state.next /\ e.serial \in serial + 1 .. serial + n
                           /\ e.seen = clock
         /\ \A e, f \in new : e.id = f.id \/ e.serial = f.serial => e = f
<1>1. /\ TypeOK /\ state.next \in Nat /\ serial \in Nat /\ n \in Nat
      /\ Kept \in CanonicalState /\ Kept.next = state.next
  BY KeptFacts DEF IInv, TypeOK, CanonicalState
<1> DEFINE new == Batch(Kept, n, choice)
           row(k) == [id |-> state.next + k - 1, params |-> choice[k],
                      serial |-> serial + k, seen |-> clock]
<1>2. new = {row(k) : k \in 1..n}
  BY <1>1 DEF Batch
<1>3. \A k \in 1..n : /\ row(k).id = state.next + k - 1
                      /\ row(k).serial = serial + k /\ row(k).seen = clock
  OBVIOUS
<1> HIDE DEF row
<1>4. new \in SUBSET Entry
  BY <1>1, BatchType
<1>5. Ids(new) = state.next .. state.next + n - 1
  <2>1. Ids(new) = {state.next + k - 1 : k \in 1..n}
    <3> HIDE DEF new
    <3>1. \A k \in 1..n : row(k) \in new /\ row(k).id = state.next + k - 1
      BY <1>2, <1>3
    <3>2. \A k \in 1..n : state.next + k - 1 \in Ids(new)
      BY <3>1 DEF Ids
    <3>3. \A r \in new : \E k \in 1..n : r = row(k)
      BY <1>2
    <3>4. \A r \in new : \E k \in 1..n : r.id = state.next + k - 1
      BY <3>1, <3>3
    <3>5. \A i \in Ids(new) : \E k \in 1..n : i = state.next + k - 1
      BY <3>4 DEF Ids
    <3> QED
      BY <3>2, <3>5
  <2>2. ASSUME NEW i \in state.next .. state.next + n - 1
        PROVE  i - state.next + 1 \in 1..n /\ i = state.next + (i - state.next + 1) - 1
    BY <1>1
  <2>3. \A k \in 1..n : state.next + k - 1 \in state.next .. state.next + n - 1
    BY <1>1
  <2> QED
    BY <2>1, <2>2, <2>3
<1>6. \A e \in new : /\ e.id >= state.next /\ e.serial \in serial + 1 .. serial + n
                     /\ e.seen = clock
  <2>1. \A k \in 1..n : /\ state.next + k - 1 >= state.next
                        /\ serial + k \in serial + 1 .. serial + n
    BY <1>1
  <2> QED
    BY <1>2, <1>3, <2>1
<1>7. \A e, f \in new : e.id = f.id \/ e.serial = f.serial => e = f
  <2>1. \A j, k \in 1..n :
          state.next + j - 1 = state.next + k - 1 \/ serial + j = serial + k => j = k
    BY <1>1
  <2> QED
    BY <1>2, <1>3, <2>1
<1> QED
  BY <1>4, <1>5, <1>6, <1>7 DEF new

LEMMA AllocatedPlans ==
  ASSUME IInv, NEW n \in 1..MaxBatch, SuggestAllocated(n)
  PROVE  Makes
<1>1. PICK choice \in [1..n -> Params] :
        cmd' = [SuggestPlan EXCEPT
                  !.work = [Kept EXCEPT !.pending = @ \cup Batch(Kept, n, choice),
                                        !.next = @ + n],
                  !.rows = {PendingView(e) : e \in Batch(Kept, n, choice)},
                  !.logs = {[id |-> e.id, serial |-> e.serial] :
                              e \in Batch(Kept, n, choice)},
                  !.gives = Batch(Kept, n, choice)]
  BY DEF SuggestAllocated
<1> DEFINE new == Batch(Kept, n, choice)
           gone == Stale(state.pending)
           work == [Kept EXCEPT !.pending = @ \cup new, !.next = @ + n]
           dead == {TerminalView(o) : o \in Expired}
           rows == {PendingView(e) : e \in new}
           logs == {[id |-> e.id, serial |-> e.serial] : e \in new}
<1>2. /\ "suggest" \in Commands /\ serial' = serial + n /\ ~Refused(Kept, n)
      /\ cmd' = [SuggestPlan EXCEPT !.work = work, !.rows = rows, !.logs = logs,
                                    !.gives = new]
  BY <1>1 DEF SuggestAllocated, CanStart
<1>3. /\ new \in SUBSET Entry /\ Ids(new) = state.next .. state.next + n - 1
      /\ \A e \in new : /\ e.id >= state.next /\ e.serial \in serial + 1 .. serial'
                        /\ e.seen = clock
      /\ \A e, f \in new : e.id = f.id \/ e.serial = f.serial => e = f
  BY <1>2, BatchRows
<1> HIDE DEF new
<1>4. /\ Kept.next = state.next /\ Kept.pending = state.pending \ gone
      /\ Kept.observed = state.observed \cup Expired
      /\ gone \in SUBSET state.pending /\ Expired \in SUBSET Observation
      /\ Matches(gone, Expired) /\ Kept \in CanonicalState
      /\ \A o, p \in Expired : o.id = p.id => o = p
      /\ \A o \in Expired : o.status = "stale" /\ \E e \in gone : o.serial = e.serial
  BY KeptFacts
<1>5. /\ work.pending = (state.pending \ gone) \cup new
      /\ work.observed = state.observed \cup Expired
      /\ work.next = state.next + n
  BY <1>4 DEF CanonicalState
<1>6. \A e \in new : [id |-> e.id, serial |-> e.serial] \in logs
  OBVIOUS
<1> HIDE DEF work, rows, logs, gone
<1>7. /\ SuggestPlan \in Command /\ Pristine(SuggestPlan, Kept)
      /\ SuggestPlan.dead = dead /\ SuggestPlan.due = {} /\ SuggestPlan.beat = {}
      /\ SuggestPlan.csv = (Expired # {}) /\ SuggestPlan.op # "none"
  BY <1>2, SuggestFields
<1> HIDE DEF dead
<1>8. /\ cmd'.work = work /\ cmd'.save = TRUE /\ cmd'.wipe = <<>> /\ cmd'.due = {}
      /\ cmd'.beat = {} /\ cmd'.dead = dead /\ cmd'.rows = rows /\ cmd'.logs = logs
      /\ cmd'.csv = (Expired # {}) /\ cmd'.op # "none"
  BY <1>2, <1>7 DEF Command, Pristine
<1>9. Left' = {TerminalView(o) : o \in Expired} \cup {PendingView(e) : e \in new}
  BY <1>8 DEF Left, dead, rows
<1>10. Change(gone, Expired, new)
  BY <1>3, <1>4, <1>5, <1>8, <1>9 DEF Change
<1>11. Traceable(gone, Expired, new)
  <2>1. \A o \in Expired, e \in new : o.id # e.id
    <3>1. \A f \in state.pending : f.id < state.next /\ f.id \in Nat /\ state.next \in Nat
      BY IdsFacts DEF IInv, Sound, OneFate, TypeOK, CanonicalState, Entry
    <3>2. \A e \in new : e.id >= state.next /\ e.id \in Nat
      BY <1>3 DEF Entry
    <3>3. \A o \in Expired : \E f \in state.pending : o.id = f.id
      BY <1>4 DEF Matches, Names
    <3> QED
      BY <3>1, <3>2, <3>3
  <2> QED
    BY <2>1, <1>3, <1>4, <1>6, <1>8 DEF Traceable, Matches
<1>12. Dated(gone, Expired, new)
  BY <1>3, <1>4, <1>8 DEF Dated, gone
<1>13. Kinds(gone, Expired, new)
  <2>1. n \in Nat /\ n >= 1
    OBVIOUS
  <2>2. Takes(new, n)
    BY <2>1, <1>3, <1>5, <1>8 DEF Takes
  <2> QED
    BY <2>1, <2>2, <1>2, <1>4 DEF Kinds, Allocating, Refused
<1> QED
  BY <1>10, <1>11, <1>12, <1>13 DEF Plans, Makes

LEMMA HeartbeatPlans ==
  ASSUME IInv, NEW s \in issued, Heartbeat(s)
  PROVE  Makes
<1>1. PICK e \in state.pending :
        LET touched == [e EXCEPT !.seen = clock]
        IN cmd' = [Start("heartbeat",
                         [state EXCEPT !.pending = Put(@, touched)]) EXCEPT
                     !.rows = {PendingView(touched)},
                     !.tail = {[kind |-> "heartbeat", id |-> e.id]},
                     !.beat = {[serial |-> e.serial, at |-> clock]}]
  BY DEF Heartbeat
<1> DEFINE touched == [e EXCEPT !.seen = clock]
           work == [state EXCEPT !.pending = Put(@, touched)]
           rows == {PendingView(touched)}
           tail == {[kind |-> "heartbeat", id |-> e.id]}
           beat == {[serial |-> e.serial, at |-> clock]}
           plan == Start("heartbeat", work)
<1>2. /\ state \in CanonicalState /\ e \in Entry /\ clock \in Nat /\ OneFate(state)
  BY DEF IInv, Sound, TypeOK, CanonicalState
<1>3. touched \in Entry /\ Names(touched, e) /\ touched.seen = clock
  BY <1>2 DEF Entry, Names
<1>4. cmd' = [plan EXCEPT !.rows = rows, !.tail = tail, !.beat = beat]
  BY <1>1
<1> HIDE DEF touched, tail
<1>6. /\ work.next = state.next /\ work.observed = state.observed
      /\ work.pending = Put(state.pending, touched)
  BY <1>2 DEF CanonicalState
<1>7. work \in CanonicalState
  BY <1>2, <1>3, PutType DEF CanonicalState
<1> HIDE DEF work
<1>8. Put(state.pending, touched) = (state.pending \ {e}) \cup {touched}
  BY <1>2, <1>3 DEF Put, Names, OneFate
<1>9. plan \in Command /\ Fields(plan, "heartbeat", work)
  BY <1>7, StartType, StartFull DEF Heartbeat, CanStart
<1> HIDE DEF plan
<1>10. /\ cmd'.work = work /\ cmd'.save = TRUE /\ cmd'.wipe = <<>> /\ cmd'.due = {}
       /\ cmd'.beat = beat /\ cmd'.dead = {} /\ cmd'.rows = rows /\ cmd'.op # "none"
  BY <1>4, <1>9 DEF Command, Fields, Pristine
<1>11. Left' = {TerminalView(o) : o \in {}} \cup {PendingView(f) : f \in {touched}}
  BY <1>10 DEF Left
<1>12. Change({e}, {}, {touched})
  <2>1. {touched} \in SUBSET Entry /\ {e} \in SUBSET state.pending
    BY <1>3
  <2>2. cmd'.work.pending = (state.pending \ {e}) \cup {touched}
    BY <1>6, <1>8, <1>10
  <2>3. cmd'.work.observed = state.observed \cup {}
    BY <1>6, <1>10
  <2> QED
    BY <1>10, <1>11, <2>1, <2>2, <2>3 DEF Change
<1>13. Traceable({e}, {}, {touched})
  BY <1>3 DEF Traceable
<1>14. Dated({e}, {}, {touched})
  BY <1>3, <1>10 DEF Dated, Names
<1>15. Kinds({e}, {}, {touched})
  BY <1>6, <1>10 DEF Kinds, Touching, touched
<1> QED
  BY <1>12, <1>13, <1>14, <1>15 DEF Plans, Makes

LEMMA ImportPlans ==
  ASSUME IInv, NEW n \in 1..MaxBatch, Import(n)
  PROVE  Makes
<1>1. PICK choice \in [1..n -> Params], result \in [1..n -> Submissions] :
        LET new == Imported(n, choice, result)
            work == [state EXCEPT !.observed = @ \cup new, !.next = @ + n]
        IN cmd' = [Start("import", Scored(work)) EXCEPT
                     !.rows = {TerminalView(o) : o \in new},
                     !.csv = TRUE,
                     !.tail = {[kind |-> "observations_imported", id |-> 0]}]
  BY DEF Import
<1> DEFINE out == Imported(n, choice, result)
           row(k) == [id |-> state.next + k - 1, params |-> choice[k],
                      serial |-> serial + k, by |-> serial + k,
                      status |-> result[k].status, loss |-> result[k].loss]
           work == [state EXCEPT !.observed = @ \cup out, !.next = @ + n]
           rows == {TerminalView(o) : o \in out}
           tail == {[kind |-> "observations_imported", id |-> 0]}
           plan == Start("import", Scored(work))
<1>2. /\ state \in CanonicalState /\ n \in Nat /\ n >= 1
      /\ serial \in Nat /\ state.next \in Nat
      /\ state.pending = {} /\ serial' = serial + n
  BY DEF IInv, TypeOK, CanonicalState, Import
<1>3. cmd' = [plan EXCEPT !.rows = rows, !.csv = TRUE, !.tail = tail]
  BY <1>1
<1>4. out = {row(k) : k \in 1..n}
  BY DEF Imported
<1>5. \A k \in 1..n : row(k).id = state.next + k - 1 /\ row(k).serial = serial + k
  OBVIOUS
<1>6. out \in SUBSET Observation
  <2>1. ASSUME NEW k \in 1..n
        PROVE  /\ state.next + k - 1 \in Nat /\ serial + k \in Nat
               /\ choice[k] \in Params /\ result[k] \in [status: Statuses, loss: Nat]
    BY <1>2, ConfigAssumption
  <2> QED
    BY <1>4, <2>1 DEF Observation
<1> HIDE DEF row, out, tail
<1>7. Ids(out) = state.next .. state.next + n - 1
  <2>0. /\ \A o \in out : \E k \in 1..n : o.id = state.next + k - 1
        /\ \A k \in 1..n : \E o \in out : o.id = state.next + k - 1
    BY <1>4, <1>5
  <2>1. Ids(out) = {state.next + k - 1 : k \in 1..n}
    BY <2>0 DEF Ids
  <2>2. ASSUME NEW i \in state.next .. state.next + n - 1
        PROVE  i - state.next + 1 \in 1..n /\ i = state.next + (i - state.next + 1) - 1
    BY <1>2
  <2>3. \A k \in 1..n : state.next + k - 1 \in state.next .. state.next + n - 1
    BY <1>2
  <2> QED
    BY <2>1, <2>2, <2>3
<1>8. \A o \in out : o.id >= state.next /\ o.serial \in serial + 1 .. serial'
  <2>1. \A k \in 1..n : /\ state.next + k - 1 >= state.next
                        /\ serial + k \in serial + 1 .. serial + n
    BY <1>2
  <2> QED
    BY <1>2, <1>4, <1>5, <2>1
<1>9. \A o, p \in out : o.id = p.id => o = p
  <2>1. \A j, k \in 1..n : state.next + j - 1 = state.next + k - 1 => j = k
    BY <1>2
  <2>2. \A o \in out : \E k \in 1..n : o = row(k)
    BY <1>4
  <2>3. ASSUME NEW o \in out, NEW p \in out, o.id = p.id
        PROVE  o = p
    <3>1. PICK j \in 1..n : o = row(j)
      BY <2>2
    <3>2. PICK k \in 1..n : p = row(k)
      BY <2>2
    <3>3. state.next + j - 1 = state.next + k - 1
      BY <1>5, <2>3, <3>1, <3>2
    <3>4. j = k
      BY <2>1, <3>3
    <3> QED
      BY <3>1, <3>2, <3>4
  <2> QED
    BY <2>3
<1>10. /\ work.pending = {} /\ work.observed = state.observed \cup out
       /\ work.next = state.next + n
  BY <1>2 DEF CanonicalState
<1>11. work \in CanonicalState
  <2>1. state.next + n \in Nat /\ state.observed \cup out \in SUBSET Observation
    BY <1>2, <1>6 DEF CanonicalState
  <2> QED
    BY <1>2, <2>1 DEF CanonicalState
<1> HIDE DEF work, rows
<1>12. plan \in Command /\ Fields(plan, "import", Scored(work))
  BY <1>11, ScoredType, StartType, StartFull DEF Import, CanStart
<1> HIDE DEF plan
<1>13. /\ cmd'.work = Scored(work) /\ cmd'.save = TRUE /\ cmd'.wipe = <<>>
       /\ cmd'.due = {} /\ cmd'.beat = {} /\ cmd'.dead = {} /\ cmd'.rows = rows
       /\ cmd'.csv = TRUE /\ cmd'.op # "none"
  BY <1>3, <1>12 DEF Command, Fields, Pristine
<1>14. /\ cmd'.work.pending = {} /\ cmd'.work.observed = state.observed \cup out
       /\ cmd'.work.next = state.next + n
  BY <1>10, <1>11, <1>13, ScoredFields
<1>15. Left' = {TerminalView(o) : o \in out} \cup {PendingView(f) : f \in {}}
  BY <1>13 DEF Left, rows
<1>16. Change({}, out, {})
  BY <1>2, <1>6, <1>13, <1>14, <1>15 DEF Change
<1>17. Traceable({}, out, {})
  BY <1>8, <1>9 DEF Traceable
<1>18. Dated({}, out, {})
  <2>1. \A o \in out : o.serial > serial
    BY <1>2, <1>8
  <2> QED
    BY <2>1, <1>13 DEF Dated
<1>19. Kinds({}, out, {})
  BY <1>2, <1>7, <1>14 DEF Kinds, Recording, Takes
<1> QED
  BY <1>16, <1>17, <1>18, <1>19 DEF Plans, Makes

\* A plan that saves nothing: an outcome reported again, or a reset.
Bare ==
  /\ cmd'.op # "none" /\ cmd'.save = FALSE /\ cmd'.csv = FALSE
  /\ Left' = {} /\ cmd'.logs = {} /\ cmd'.due = {} /\ cmd'.beat = {}
  /\ cmd'.wipe \in {<<>>, ResetOrder}

LEMMA BarePlans ==
  ASSUME IInv,
         Reset \/ \E s \in issued, r \in Submissions : IngestAgain(s, r)
  PROVE  Bare
<1>1. CASE Reset
  <2> DEFINE plan == Start("reset", EmptyState)
             tail == {[kind |-> "campaign_reset", id |-> 0]}
  <2>1. cmd' = [plan EXCEPT !.save = FALSE, !.wipe = ResetOrder, !.tail = tail]
    BY <1>1 DEF Reset
  <2>2. EmptyState \in CanonicalState /\ "reset" \in Commands
    BY <1>1 DEF EmptyState, CanonicalState, Reset, CanStart
  <2>3. plan \in Command /\ Fields(plan, "reset", EmptyState)
    BY <2>2, StartType, StartFull
  <2> HIDE DEF plan, tail
  <2> QED
    BY <2>1, <2>3 DEF Command, Fields, Pristine, Bare, Left
<1>2. ASSUME NEW s \in issued, NEW r \in Submissions, IngestAgain(s, r) PROVE Bare
  <2>1. PICK o \in state.observed :
          cmd' = [Start("ingest", state) EXCEPT
                    !.save = FALSE,
                    !.tail = {[kind |-> "ingest_duplicate_noop", id |-> o.id]},
                    !.acks = {AckOf(o)}]
    BY <1>2 DEF IngestAgain
  <2> DEFINE plan == Start("ingest", state)
             tail == {[kind |-> "ingest_duplicate_noop", id |-> o.id]}
             acks == {AckOf(o)}
  <2>2. cmd' = [plan EXCEPT !.save = FALSE, !.tail = tail, !.acks = acks]
    BY <2>1
  <2>3. state \in CanonicalState /\ "ingest" \in Commands
    BY <1>2 DEF IInv, TypeOK, IngestAgain, CanStart
  <2>4. plan \in Command /\ Fields(plan, "ingest", state)
    BY <2>3, StartType, StartFull
  <2> HIDE DEF plan, tail, acks
  <2> QED
    BY <2>2, <2>4 DEF Command, Fields, Pristine, Bare, Left
<1> QED
  BY <1>1, <1>2

\* A request changes no file: it takes the lock and makes its plan.
LEMMA RequestPlans ==
  ASSUME IInv, Request
  PROVE  /\ ~Busy
         /\ UNCHANGED <<disk, clock, issued, beats, horizon, crashes>>
         /\ serial <= serial'
         /\ Makes \/ Bare
<1>1. serial \in Nat
  BY DEF IInv, TypeOK
<1>2. ASSUME NEW n \in 1..MaxBatch,
             SuggestRefused(n) \/ SuggestInfeasible(n) \/ SuggestAllocated(n) \/ Import(n)
      PROVE  /\ ~Busy /\ UNCHANGED <<disk, clock, issued, beats, horizon, crashes>>
             /\ serial <= serial' /\ Makes
  <2>1. Makes
    BY <1>2, RefusedPlans, InfeasiblePlans, AllocatedPlans, ImportPlans
  <2>2. ~Busy /\ UNCHANGED <<disk, clock, issued, beats, horizon, crashes>>
    BY <1>2 DEF SuggestRefused, SuggestInfeasible, SuggestAllocated, Import, CanStart, world
  <2>3. serial' = serial \/ serial' = serial + n
    BY <1>2 DEF SuggestRefused, SuggestInfeasible, SuggestAllocated, Import, world
  <2> QED
    BY <1>1, <2>1, <2>2, <2>3
<1>3. ASSUME NEW s \in issued, NEW r \in Submissions, Ingest(s, r) \/ IngestAgain(s, r)
      PROVE  /\ ~Busy /\ UNCHANGED <<disk, clock, issued, beats, horizon, crashes>>
             /\ serial <= serial' /\ (Makes \/ Bare)
  <2>1. Makes \/ Bare
    BY <1>3, IngestPlans, BarePlans
  <2>2. ~Busy /\ UNCHANGED <<disk, clock, issued, beats, horizon, crashes>>
    BY <1>3 DEF Ingest, IngestAgain, CanStart, world
  <2>3. serial' = serial
    BY <1>3 DEF Ingest, IngestAgain, world
  <2> QED
    BY <1>1, <2>1, <2>2, <2>3
<1>4. ASSUME NEW s \in issued, Heartbeat(s)
      PROVE  /\ ~Busy /\ UNCHANGED <<disk, clock, issued, beats, horizon, crashes>>
             /\ serial <= serial' /\ Makes
  <2>1. Makes
    BY <1>4, HeartbeatPlans
  <2> QED
    BY <1>1, <1>4, <2>1 DEF Heartbeat, CanStart, world
<1>5. ASSUME NEW id, Cancel(id)
      PROVE  /\ ~Busy /\ UNCHANGED <<disk, clock, issued, beats, horizon, crashes>>
             /\ serial <= serial' /\ Makes
  <2>1. Makes
    BY <1>5, CancelPlans
  <2> QED
    BY <1>1, <1>5, <2>1 DEF Cancel, CanStart, world
<1>6. ASSUME NEW named \in SUBSET state.pending, NEW withStale \in BOOLEAN,
             Retire(named, withStale)
      PROVE  /\ ~Busy /\ UNCHANGED <<disk, clock, issued, beats, horizon, crashes>>
             /\ serial <= serial' /\ Makes
  <2>1. Makes
    BY <1>6, RetirePlans
  <2> QED
    BY <1>1, <1>6, <2>1 DEF Retire, CanStart, world, disk
<1>7. CASE Reset
  <2>1. Bare
    BY <1>7, BarePlans
  <2>2. /\ ~Busy /\ serial' = serial
        /\ UNCHANGED <<disk, clock, issued, beats, horizon, crashes>>
    BY <1>7 DEF Reset, CanStart
  <2> QED
    BY <1>1, <2>1, <2>2
<1> QED
  BY <1>2, <1>3, <1>4, <1>5, <1>6, <1>7 DEF Request

-----------------------------------------------------------------------------
(* The files.  That they agree is not inductive: it says nothing of what    *)
(* the running command has written ahead of the state it is about to save.  *)
(* Planned says that once its manifests and log rows are written the state  *)
(* to come is covered, and that writing them uncovers nothing of the state  *)
(* as it is; CsvDue says what the csv still misses.                         *)

Dealt(rows) == \A r \in rows : r.serial \in 1..serial

\* Rows stand for every trial of the state.
Covered(st, rows) ==
  /\ \A e \in st.pending : \E m \in rows : m.id = e.id /\ m.serial = e.serial
  /\ \A o \in st.observed : TerminalView(o) \in rows

\* The manifests as they will be when the running command has written its own.
Written == {m \in manifests : m.id \notin Ids(Left)} \cup Left

\* Each pending trial's log row is written or planned, and so is its event.
Traced(st) ==
  \A e \in st.pending :
    \/ [id |-> e.id, serial |-> e.serial] \in cmd.logs
    \/ /\ [id |-> e.id, serial |-> e.serial] \in decisions
       /\ [kind |-> "suggestion_created", id |-> e.id] \in events \cup cmd.due

Planned == cmd.save =>
  /\ Covered(cmd.work, Written)
  /\ \A r, q \in Left : r.id = q.id => r = q
  /\ \A r \in Left : /\ r.id \notin Ids(state.observed)
                     /\ \A e \in state.pending : e.id = r.id => e.serial = r.serial
  /\ Traced(cmd.work)
  /\ cmd.csv \/ cmd.work.observed = state.observed
  /\ Dealt(cmd.work.pending) /\ Dealt(cmd.work.observed)

\* Once the state is saved only the csv, the events and the reply are left.
Done == ~cmd.save =>
  /\ Left = {} /\ cmd.logs = {} /\ cmd.due = {}
  /\ cmd.csv => cmd.work = state

\* What a reset has left to remove when the state is gone.
AfterState == <<"csv", "decisions", "events", "manifests">>

Wiping ==
  /\ cmd.wipe \in {ResetOrder, AfterState, <<"decisions", "events", "manifests">>,
                   <<"events", "manifests">>, <<"manifests">>, <<>>}
  /\ cmd.wipe # <<>> =>
       ~cmd.save /\ ~cmd.csv /\ (cmd.wipe = ResetOrder \/ state = EmptyState)

CsvSound == \A o \in csv : o.serial > horizon => o \in state.observed

CsvDue == crashes = 0 =>
  csv = state.observed \/ (cmd.csv /\ ~cmd.save) \/ cmd.wipe = AfterState

FInv ==
  /\ ~Busy => cmd = Idle
  /\ Dealt(state.pending) /\ Dealt(state.observed) /\ Dealt(csv)
  /\ Covered(state, manifests) /\ AuditPrecedesState /\ CsvSound
  /\ Planned /\ Done /\ Wiping /\ CsvDue

LEMMA FilesFollow ==
  ASSUME FInv
  PROVE  FilesAgree
<1>1. ManifestsCoverState
  BY DEF FInv, Covered, ManifestsCoverState
<1>2. ~Busy /\ crashes = 0 => csv = state.observed
  <2> SUFFICES ASSUME ~Busy, crashes = 0 PROVE csv = state.observed
    OBVIOUS
  <2>1. cmd = Idle /\ Idle.csv = FALSE /\ Idle.wipe = <<>>
    BY DEF FInv, Idle
  <2>2. AfterState # <<>>
    BY DEF AfterState
  <2> QED
    BY <2>1, <2>2 DEF FInv, CsvDue
<1> QED
  BY <1>1, <1>2 DEF FInv, CsvSound, CsvTracksState, FilesAgree

LEMMA IdleFields ==
  /\ Idle.op = "none" /\ Idle.save = FALSE /\ Idle.csv = FALSE /\ Idle.wipe = <<>>
  /\ Idle.dead = {} /\ Idle.rows = {} /\ Idle.logs = {} /\ Idle.due = {}
  /\ Idle.beat = {}
BY DEF Idle

LEMMA FilesInit == Init => FInv
<1> SUFFICES ASSUME Init PROVE FInv
  OBVIOUS
<1>1. Wiping /\ Planned /\ Done /\ CsvDue
  BY IdleFields DEF Init, Wiping, Planned, Done, CsvDue, Left, EmptyState
<1> QED
  BY <1>1 DEF Init, FInv, Dealt, Covered, AuditPrecedesState, CsvSound, EmptyState

\* The ids of what a plan adds: none is that of an observed trial, and one that
\* is that of a pending trial belongs to that very trial.
LEMMA AddedIds ==
  ASSUME IInv, NEW gone, NEW out, NEW new,
         Change(gone, out, new), Traceable(gone, out, new)
  PROVE  /\ \A r \in Left' : r.id \notin Ids(state.observed)
         /\ \A r \in Left' : \A e \in state.pending : e.id = r.id => e.serial = r.serial
         /\ \A r, q \in Left' : r.id = q.id => r = q
<1>1. /\ state.next \in Nat /\ OneFate(state)
      /\ \A e \in state.pending : e.id \in Nat /\ e.id < state.next
      /\ \A o \in state.observed : o.id \in Nat /\ o.id < state.next
  BY IdsFacts DEF IInv, Sound, OneFate, TypeOK, CanonicalState, Entry, Observation
<1>2. \A r \in out \cup new : r.id \in Nat
  BY DEF Change, Entry, Observation
<1>3. \A e \in state.pending, o \in state.observed : e.id # o.id
  BY <1>1, IdsFacts DEF OneFate
<1>4. \A q \in out \cup new :
        /\ q.id \notin Ids(state.observed)
        /\ \A e \in state.pending : e.id = q.id => e.serial = q.serial
  <2> SUFFICES ASSUME NEW q \in out \cup new
               PROVE  /\ q.id \notin Ids(state.observed)
                      /\ \A e \in state.pending : e.id = q.id => e.serial = q.serial
    OBVIOUS
  <2>1. CASE \E f \in gone : Names(q, f)
    <3>1. PICK f \in state.pending : Names(q, f)
      BY <2>1 DEF Change
    <3> QED
      BY <3>1, <1>1, <1>3, IdsFacts DEF Names, OneFate
  <2>2. CASE q.id >= state.next
    BY <2>2, <1>1, <1>2, IdsFacts
  <2> QED
    BY <2>1, <2>2 DEF Traceable
<1>5. \A r \in Left' : \/ \E o \in out : r = TerminalView(o)
                      \/ \E e \in new : r = PendingView(e)
  BY DEF Change
<1>6. /\ \A o : TerminalView(o).id = o.id /\ TerminalView(o).serial = o.serial
      /\ \A e : PendingView(e).id = e.id /\ PendingView(e).serial = e.serial
  BY DEF TerminalView, PendingView
<1>7. \A r \in Left' : \E q \in out \cup new : r.id = q.id /\ r.serial = q.serial
  BY <1>5, <1>6
<1>8. \A r, q \in Left' : r.id = q.id => r = q
  BY <1>5, <1>6 DEF Traceable
<1> QED
  BY <1>4, <1>7, <1>8

LEMMA FilesPlanned ==
  ASSUME IInv, FInv, TypeOK', Makes, ~Busy, serial <= serial',
         UNCHANGED <<disk, horizon, crashes>>
  PROVE  FInv'
<1>1. PICK gone, out, new : Change(gone, out, new) /\ Traceable(gone, out, new)
  BY DEF Makes, Plans
<1>2. /\ UNCHANGED <<state, manifests, csv, decisions, events>>
      /\ cmd'.op # "none" /\ cmd'.save /\ cmd'.wipe = <<>> /\ cmd'.due = {}
  BY <1>1 DEF disk, Change
<1>3. Left' = {TerminalView(o) : o \in out} \cup {PendingView(e) : e \in new}
  BY <1>1 DEF Change
<1>4. /\ \A r \in Left' : r.id \notin Ids(state.observed)
      /\ \A r \in Left' : \A e \in state.pending : e.id = r.id => e.serial = r.serial
      /\ \A r, q \in Left' : r.id = q.id => r = q
  BY <1>1, AddedIds
<1>5. serial \in Nat /\ serial' \in Nat
  BY DEF IInv, TypeOK
<1>6. \A rows : Dealt(rows) => Dealt(rows)'
  BY <1>5 DEF Dealt
<1>7. Covered(cmd.work, Written)'
  <2>1. \A e \in new : PendingView(e).id = e.id /\ PendingView(e).serial = e.serial
    BY DEF PendingView
  <2>2. \A o : TerminalView(o).id = o.id
    BY DEF TerminalView
  <2>3. Written' = {m \in manifests : m.id \notin Ids(Left')} \cup Left'
    BY <1>2 DEF Written
  <2>4. \A e \in state.pending : \E m \in Written' : m.id = e.id /\ m.serial = e.serial
    <3> SUFFICES ASSUME NEW e \in state.pending
                 PROVE  \E m \in Written' : m.id = e.id /\ m.serial = e.serial
      OBVIOUS
    <3>1. PICK m \in manifests : m.id = e.id /\ m.serial = e.serial
      BY DEF FInv, Covered
    <3>2. CASE m.id \in Ids(Left')
      <4>1. PICK r \in Left' : r.id = m.id
        BY <3>2, IdsFacts
      <4> QED
        BY <1>4, <2>3, <3>1, <4>1
    <3> QED
      BY <2>3, <3>1, <3>2
  <2>5. \A e \in new : \E m \in Written' : m.id = e.id /\ m.serial = e.serial
    BY <1>3, <2>1, <2>3
  <2>6. \A o \in state.observed : TerminalView(o) \in Written'
    <3> SUFFICES ASSUME NEW o \in state.observed PROVE TerminalView(o) \in Written'
      OBVIOUS
    <3>1. TerminalView(o) \in manifests
      BY DEF FInv, Covered
    <3>2. o.id \notin Ids(Left')
      BY <1>4, IdsFacts
    <3> QED
      BY <2>2, <2>3, <3>1, <3>2
  <2>7. \A o \in out : TerminalView(o) \in Written'
    BY <1>3, <2>3
  <2> QED
    BY <1>1, <2>4, <2>5, <2>6, <2>7 DEF Change, Covered
<1>8. Traced(cmd.work)'
  <2>1. \A e \in state.pending :
          /\ [id |-> e.id, serial |-> e.serial] \in decisions
          /\ [kind |-> "suggestion_created", id |-> e.id] \in events
    BY DEF FInv, AuditPrecedesState
  <2>2. \A e \in new : \/ [id |-> e.id, serial |-> e.serial] \in cmd'.logs
                       \/ \E f \in state.pending : f.id = e.id /\ f.serial = e.serial
    BY <1>1 DEF Change, Traceable, Names
  <2>3. \A e \in cmd'.work.pending : e \in state.pending \/ e \in new
    BY <1>1 DEF Change
  <2> QED
    BY <1>2, <2>1, <2>2, <2>3 DEF Traced
<1>9. Dealt(cmd.work.pending)' /\ Dealt(cmd.work.observed)'
  <2>1. \A r \in state.pending \cup state.observed : r.serial \in 1..serial'
    BY <1>6 DEF FInv, Dealt
  <2>2. \A r \in out \cup new : r.serial \in 1..serial'
    <3> SUFFICES ASSUME NEW r \in out \cup new PROVE r.serial \in 1..serial'
      OBVIOUS
    <3>1. CASE \E e \in gone : Names(r, e)
      BY <1>1, <2>1, <3>1 DEF Change, Names
    <3>2. CASE r.serial \in serial + 1 .. serial'
      BY <1>5, <3>2
    <3> QED
      BY <1>1, <3>1, <3>2 DEF Traceable
  <2> QED
    BY <1>1, <2>1, <2>2 DEF Change, Dealt
<1>10. cmd'.csv \/ cmd'.work.observed = state'.observed
  BY <1>1, <1>2 DEF Change
<1>11. Planned'
  BY <1>2, <1>4, <1>7, <1>8, <1>9, <1>10 DEF Planned
<1>12. Done' /\ Wiping' /\ Busy'
  BY <1>2 DEF Done, Wiping, Busy
<1>13. CsvDue'
  <2>1. crashes = 0 => csv = state.observed
    BY FilesFollow DEF FilesAgree, CsvTracksState
  <2> QED
    BY <1>2, <2>1 DEF CsvDue
<1>14. Dealt(state.pending)' /\ Dealt(state.observed)' /\ Dealt(csv)'
  BY <1>2, <1>6 DEF FInv
<1>15. Covered(state, manifests)' /\ AuditPrecedesState' /\ CsvSound'
  BY <1>2 DEF FInv, Covered, AuditPrecedesState, CsvSound
<1> QED
  BY <1>11, <1>12, <1>13, <1>14, <1>15 DEF FInv

LEMMA FilesBare ==
  ASSUME IInv, FInv, TypeOK', Bare, ~Busy, serial <= serial',
         UNCHANGED <<disk, horizon, crashes>>
  PROVE  FInv'
<1>1. UNCHANGED <<state, manifests, csv, decisions, events>>
  BY DEF disk
<1>2. serial \in Nat /\ serial' \in Nat
  BY DEF IInv, TypeOK
<1>3. Dealt(state.pending)' /\ Dealt(state.observed)' /\ Dealt(csv)'
  BY <1>1, <1>2 DEF FInv, Dealt
<1>4. Covered(state, manifests)' /\ AuditPrecedesState' /\ CsvSound'
  BY <1>1 DEF FInv, Covered, AuditPrecedesState, CsvSound
<1>5. Planned' /\ Done' /\ Wiping' /\ Busy'
  BY DEF Bare, Planned, Done, Wiping, Busy
<1>6. CsvDue'
  <2>1. crashes = 0 => csv = state.observed
    BY FilesFollow DEF FilesAgree, CsvTracksState
  <2> QED
    BY <1>1, <2>1 DEF CsvDue
<1> QED
  BY <1>3, <1>4, <1>5, <1>6 DEF FInv

\* Writing one of the manifests the command owes changes nothing in what they
\* will be in the end.
LEMMA WrittenStays ==
  ASSUME \A r, q \in Left : r.id = q.id => r = q,
         NEW row \in Left, manifests' = Put(manifests, row),
         Left' \subseteq Left, Left \ {row} \subseteq Left'
  PROVE  Written' = Written
<1>1. Written' = {m \in manifests' : m.id \notin Ids(Left')} \cup Left'
  BY DEF Written
<1>2. ASSUME NEW m \in Written PROVE m \in Written'
  <2>1. CASE m \in Left
    <3>1. CASE m \in Left'
      BY <1>1, <3>1
    <3>2. CASE m \notin Left'
      <4>1. m = row /\ m \in manifests'
        BY <2>1, <3>2 DEF Put
      <4>2. \A q \in Left' : q.id # m.id
        BY <3>2, <4>1
      <4> QED
        BY <1>1, <4>1, <4>2, IdsFacts
    <3> QED
      BY <3>1, <3>2
  <2>2. CASE m \in manifests /\ m.id \notin Ids(Left)
    <3>1. m.id # row.id /\ \A q \in Left' : q.id # m.id
      BY <2>2, IdsFacts
    <3>2. m \in manifests'
      BY <2>2, <3>1 DEF Put
    <3> QED
      BY <1>1, <3>1, <3>2, IdsFacts
  <2> QED
    BY <2>1, <2>2 DEF Written
<1>3. ASSUME NEW m \in Written' PROVE m \in Written
  <2>1. CASE m \in Left'
    BY <2>1 DEF Written
  <2>2. CASE m \in manifests' /\ m.id \notin Ids(Left')
    <3>1. CASE m = row
      BY <3>1 DEF Written
    <3>2. CASE m \in manifests /\ m.id # row.id
      <4>1. \A q \in Left : q.id # m.id
        BY <2>2, <3>2, IdsFacts
      <4> QED
        BY <3>2, <4>1, IdsFacts DEF Written
    <3> QED
      BY <2>2, <3>1, <3>2 DEF Put
  <2> QED
    BY <1>1, <2>1, <2>2
<1> QED
  BY <1>2, <1>3

\* A manifest the command owes uncovers nothing of the state as it is.
LEMMA PutCovers ==
  ASSUME NEW st, Covered(st, manifests), NEW row,
         row.id \notin Ids(st.observed),
         \A e \in st.pending : e.id = row.id => e.serial = row.serial
  PROVE  Covered(st, Put(manifests, row))
<1>1. \A e \in st.pending :
        \E m \in Put(manifests, row) : m.id = e.id /\ m.serial = e.serial
  <2> SUFFICES ASSUME NEW e \in st.pending
               PROVE  \E m \in Put(manifests, row) : m.id = e.id /\ m.serial = e.serial
    OBVIOUS
  <2>1. PICK m \in manifests : m.id = e.id /\ m.serial = e.serial
    BY DEF Covered
  <2>2. row \in Put(manifests, row) /\ (m.id # row.id => m \in Put(manifests, row))
    BY DEF Put
  <2> QED
    BY <2>1, <2>2
<1>2. \A o \in st.observed : TerminalView(o) \in Put(manifests, row)
  <2>1. \A o \in st.observed : TerminalView(o).id # row.id
    BY IdsFacts DEF TerminalView
  <2> QED
    BY <2>1 DEF Covered, Put
<1> QED
  BY <1>1, <1>2 DEF Covered

LEMMA FilesManifest ==
  ASSUME IInv, FInv, WriteRetired \/ WriteManifest
  PROVE  FInv'
<1>0. cmd \in Command
  BY DEF IInv, TypeOK
<1>1. PICK row \in Left :
        /\ manifests' = Put(manifests, row)
        /\ Left' \subseteq Left /\ Left \ {row} \subseteq Left'
        /\ cmd'.op = cmd.op /\ cmd'.work = cmd.work /\ cmd'.save = cmd.save
        /\ cmd'.csv = cmd.csv /\ cmd'.wipe = cmd.wipe /\ cmd'.logs = cmd.logs
  <2>1. CASE WriteRetired
    <3>1. PICK row \in cmd.dead :
            /\ manifests' = Put(manifests, row)
            /\ cmd' = [cmd EXCEPT !.dead = @ \ {row},
                                  !.due = {[kind |-> "trial_retired", id |-> row.id]}]
      BY <2>1 DEF WriteRetired
    <3>2. /\ cmd'.dead = cmd.dead \ {row} /\ cmd'.rows = cmd.rows
          /\ cmd'.op = cmd.op /\ cmd'.work = cmd.work /\ cmd'.save = cmd.save
          /\ cmd'.csv = cmd.csv /\ cmd'.wipe = cmd.wipe /\ cmd'.logs = cmd.logs
      BY <1>0, <3>1 DEF Command
    <3> QED
      BY <3>1, <3>2 DEF Left
  <2>2. CASE WriteManifest
    <3>1. PICK row \in cmd.rows :
            manifests' = Put(manifests, row) /\ cmd' = [cmd EXCEPT !.rows = @ \ {row}]
      BY <2>2 DEF WriteManifest, First
    <3>2. /\ cmd'.dead = cmd.dead /\ cmd'.rows = cmd.rows \ {row}
          /\ cmd'.op = cmd.op /\ cmd'.work = cmd.work /\ cmd'.save = cmd.save
          /\ cmd'.csv = cmd.csv /\ cmd'.wipe = cmd.wipe /\ cmd'.logs = cmd.logs
      BY <1>0, <3>1 DEF Command
    <3> QED
      BY <3>1, <3>2 DEF Left
  <2> QED
    BY <2>1, <2>2
<1>2. /\ Busy /\ cmd.due = {}
      /\ UNCHANGED <<state, csv, decisions, events, horizon, serial, crashes>>
  BY DEF WriteRetired, WriteManifest, Settled, Retired, world
<1>3. cmd.save
  BY DEF FInv, Done
<1>4. /\ \A r, q \in Left : r.id = q.id => r = q
      /\ \A r \in Left : /\ r.id \notin Ids(state.observed)
                         /\ \A e \in state.pending : e.id = r.id => e.serial = r.serial
  BY <1>3 DEF FInv, Planned
<1>5. Written' = Written
  BY <1>1, <1>4, WrittenStays
<1>6. Covered(state, manifests)'
  BY <1>1, <1>2, <1>4, PutCovers DEF FInv, Covered
<1>7. Traced(cmd.work)'
  BY <1>1, <1>2, <1>3 DEF FInv, Planned, Traced
<1>8. Planned'
  <2>1. Covered(cmd.work, Written)'
    BY <1>1, <1>3, <1>5 DEF FInv, Planned, Covered
  <2>2. /\ \A r, q \in Left' : r.id = q.id => r = q
        /\ \A r \in Left' : /\ r.id \notin Ids(state'.observed)
                            /\ \A e \in state'.pending : e.id = r.id => e.serial = r.serial
    BY <1>1, <1>2, <1>4
  <2>3. /\ cmd'.csv \/ cmd'.work.observed = state'.observed
        /\ Dealt(cmd.work.pending)' /\ Dealt(cmd.work.observed)'
    BY <1>1, <1>2, <1>3 DEF FInv, Planned, Dealt
  <2> QED
    BY <1>7, <2>1, <2>2, <2>3 DEF Planned
<1>9. Done' /\ Wiping' /\ CsvDue' /\ Busy'
  BY <1>1, <1>2, <1>3 DEF FInv, Done, Wiping, CsvDue, Busy
<1>10. /\ Dealt(state.pending)' /\ Dealt(state.observed)' /\ Dealt(csv)'
       /\ AuditPrecedesState' /\ CsvSound'
  BY <1>2 DEF FInv, Dealt, AuditPrecedesState, CsvSound
<1> QED
  BY <1>6, <1>8, <1>9, <1>10 DEF FInv

\* Log rows and events only ever add to what is traced.
LEMMA FilesLogs ==
  ASSUME IInv, FInv, AppendDue \/ AppendDecision \/ AppendTail
  PROVE  FInv'
<1>0. cmd \in Command
  BY DEF IInv, TypeOK
<1>1. /\ cmd'.op = cmd.op /\ cmd'.work = cmd.work /\ cmd'.save = cmd.save
      /\ cmd'.csv = cmd.csv /\ cmd'.wipe = cmd.wipe /\ Left' = Left
  <2>1. \/ \E due : cmd' = [cmd EXCEPT !.due = due]
        \/ \E logs, due : cmd' = [cmd EXCEPT !.logs = logs, !.due = due]
        \/ \E tail : cmd' = [cmd EXCEPT !.tail = tail]
    BY DEF AppendDue, AppendDecision, AppendTail
  <2>2. cmd'.dead = cmd.dead /\ cmd'.rows = cmd.rows
    BY <1>0, <2>1 DEF Command
  <2> QED
    BY <1>0, <2>1, <2>2 DEF Command, Left
<1>2. /\ Busy /\ UNCHANGED <<state, manifests, csv, horizon, serial, crashes>>
      /\ decisions \subseteq decisions' /\ events \subseteq events'
  BY DEF AppendDue, AppendDecision, AppendTail, world
<1>3. Written' = Written
  BY <1>1, <1>2 DEF Written
<1>4. ASSUME cmd.save PROVE Traced(cmd.work)'
  <2>1. Traced(cmd.work) /\ Dealt(cmd.work.pending)
    BY <1>4 DEF FInv, Planned
  <2>2. CASE AppendDue
    <3>1. cmd'.logs = cmd.logs /\ cmd'.due = {} /\ events' = events \cup cmd.due
      BY <1>0, <2>2 DEF AppendDue, Command
    <3> QED
      BY <1>1, <1>2, <2>1, <3>1 DEF Traced
  <2>3. CASE AppendDecision
    <3>1. PICK row \in cmd.logs :
            /\ decisions' = decisions \cup {row}
            /\ cmd' = [cmd EXCEPT
                         !.logs = @ \ {row},
                         !.due = IF row.serial = 0 THEN {}
                                 ELSE {[kind |-> "suggestion_created", id |-> row.id]}]
      BY <2>3 DEF AppendDecision, First
    <3>2. /\ cmd.due = {} /\ cmd'.logs = cmd.logs \ {row}
          /\ row.serial # 0 => cmd'.due = {[kind |-> "suggestion_created", id |-> row.id]}
      BY <1>0, <2>3, <3>1 DEF AppendDecision, Manifested, Retired, Settled, Command
    <3> SUFFICES ASSUME NEW e \in cmd.work.pending
                 PROVE  \/ [id |-> e.id, serial |-> e.serial] \in cmd'.logs
                        \/ /\ [id |-> e.id, serial |-> e.serial] \in decisions'
                           /\ [kind |-> "suggestion_created", id |-> e.id]
                                \in events' \cup cmd'.due
      BY <1>1 DEF Traced
    <3>3. CASE row = [id |-> e.id, serial |-> e.serial]
      <4>1. e.serial # 0
        <5>1. e.serial \in 1..serial /\ serial \in Nat
          BY <2>1 DEF Dealt, IInv, TypeOK
        <5> QED
          BY <5>1
      <4> QED
        BY <3>1, <3>2, <3>3, <4>1
    <3>4. CASE row # [id |-> e.id, serial |-> e.serial]
      BY <1>2, <2>1, <3>2, <3>4 DEF Traced
    <3> QED
      BY <3>3, <3>4
  <2>4. CASE AppendTail
    <3>1. cmd'.logs = cmd.logs /\ cmd'.due = cmd.due
      BY <1>0, <2>4 DEF AppendTail, Command
    <3> QED
      BY <1>1, <1>2, <2>1, <3>1 DEF Traced
  <2> QED
    BY <2>2, <2>3, <2>4
<1>5. Planned'
  <2> SUFFICES ASSUME cmd'.save PROVE Planned'
    BY DEF Planned
  <2>1. Planned /\ cmd.save
    BY <1>1 DEF FInv
  <2>2. Covered(cmd.work, Written)' /\ Dealt(cmd.work.pending)' /\ Dealt(cmd.work.observed)'
    BY <1>1, <1>2, <1>3, <2>1 DEF Planned, Covered, Dealt
  <2> QED
    BY <1>1, <1>2, <1>4, <2>1, <2>2 DEF Planned
<1>6. Done'
  <2> SUFFICES ASSUME ~cmd.save PROVE cmd'.logs = {} /\ cmd'.due = {}
    BY <1>1, <1>2 DEF FInv, Done
  <2>1. cmd.logs = {} /\ cmd.due = {}
    BY DEF FInv, Done
  <2>2. AppendTail
    BY <2>1 DEF AppendDue, AppendDecision, Settled, First
  <2> QED
    BY <1>0, <2>1, <2>2 DEF AppendTail, Command
<1>7. Wiping' /\ CsvDue' /\ Busy'
  BY <1>1, <1>2 DEF FInv, Wiping, CsvDue, Busy
<1>8. /\ Dealt(state.pending)' /\ Dealt(state.observed)' /\ Dealt(csv)'
      /\ Covered(state, manifests)' /\ AuditPrecedesState' /\ CsvSound'
  BY <1>2 DEF FInv, Dealt, Covered, AuditPrecedesState, CsvSound
<1> QED
  BY <1>5, <1>6, <1>7, <1>8 DEF FInv

\* The commit point: everything the new state needs is already on disk.
LEMMA FilesSave ==
  ASSUME IInv, FInv, SaveState
  PROVE  FInv'
<1>1. cmd \in Command
  BY DEF IInv, TypeOK
<1>2. /\ Busy /\ cmd.save /\ Left = {} /\ cmd.logs = {} /\ cmd.due = {}
      /\ state' = cmd.work /\ cmd' = [cmd EXCEPT !.save = FALSE]
      /\ UNCHANGED <<manifests, csv, decisions, events, horizon, serial, crashes>>
  BY DEF SaveState, Logged, Manifested, Retired, Settled, Left, world
<1>3. /\ cmd'.op = cmd.op /\ cmd'.save = FALSE /\ cmd'.work = cmd.work
      /\ cmd'.csv = cmd.csv /\ cmd'.wipe = cmd.wipe
      /\ Left' = {} /\ cmd'.logs = {} /\ cmd'.due = {}
  BY <1>1, <1>2 DEF Command, Left
<1>4. Planned /\ cmd.wipe = <<>>
  BY <1>2 DEF FInv, Wiping
<1>5. Written = manifests
  BY <1>2, IdsFacts DEF Written
<1>6. Covered(state, manifests)'
  BY <1>2, <1>4, <1>5 DEF Planned, Covered
<1>7. AuditPrecedesState'
  BY <1>2, <1>4 DEF Planned, Traced, AuditPrecedesState
<1>8. state.observed \subseteq state'.observed
  BY <1>2 DEF IInv, InFlight, Preserves
<1>9. CsvSound'
  BY <1>2, <1>8 DEF FInv, CsvSound
<1>10. Dealt(state.pending)' /\ Dealt(state.observed)' /\ Dealt(csv)'
  BY <1>2, <1>4 DEF FInv, Planned, Dealt
<1>11. Planned' /\ Done' /\ Wiping' /\ Busy'
  BY <1>2, <1>3, <1>4 DEF Planned, Done, Wiping, Busy
<1>12. CsvDue'
  <2>1. AfterState # <<>>
    BY DEF AfterState
  <2>2. crashes = 0 => csv = state.observed
    BY <1>2, <1>4, <2>1 DEF FInv, CsvDue
  <2>3. cmd.csv \/ cmd.work.observed = state.observed
    BY <1>2, <1>4 DEF Planned
  <2> QED
    BY <1>2, <1>3, <2>2, <2>3 DEF CsvDue
<1> QED
  BY <1>6, <1>7, <1>9, <1>10, <1>11, <1>12 DEF FInv

LEMMA FilesCsv ==
  ASSUME IInv, FInv, WriteCsv
  PROVE  FInv'
<1>1. cmd \in Command
  BY DEF IInv, TypeOK
<1>2. /\ Busy /\ ~cmd.save /\ cmd.csv /\ csv' = cmd.work.observed
      /\ cmd' = [cmd EXCEPT !.csv = FALSE]
      /\ UNCHANGED <<state, manifests, decisions, events, horizon, serial, crashes>>
  BY DEF WriteCsv, Saved, world
<1>3. /\ cmd'.op = cmd.op /\ cmd'.save = FALSE /\ cmd'.csv = FALSE
      /\ cmd'.wipe = cmd.wipe /\ cmd'.logs = cmd.logs /\ cmd'.due = cmd.due
      /\ cmd'.dead = cmd.dead /\ cmd'.rows = cmd.rows
  BY <1>1, <1>2 DEF Command
<1>4. csv' = state.observed /\ cmd.wipe = <<>>
  BY <1>2 DEF FInv, Done, Wiping
<1>5. Dealt(state.pending)' /\ Dealt(state.observed)' /\ Dealt(csv)' /\ CsvSound'
  BY <1>2, <1>4 DEF FInv, Dealt, CsvSound
<1>6. Covered(state, manifests)' /\ AuditPrecedesState'
  BY <1>2 DEF FInv, Covered, AuditPrecedesState
<1>7. Planned' /\ Done' /\ Wiping' /\ CsvDue' /\ Busy'
  BY <1>2, <1>3, <1>4 DEF FInv, Planned, Done, Wiping, CsvDue, Busy, Left
<1> QED
  BY <1>5, <1>6, <1>7 DEF FInv

\* A reset removes the state first, and without a state nothing is missing.
LEMMA FilesWipe ==
  ASSUME IInv, FInv, Wipe
  PROVE  FInv'
<1>1. cmd \in Command /\ serial \in Nat
  BY DEF IInv, TypeOK
<1>2. /\ Busy /\ cmd.wipe # <<>> /\ ~cmd.save /\ ~cmd.csv
      /\ cmd.wipe = ResetOrder \/ state = EmptyState
  BY DEF Wipe, FInv, Wiping
<1>3. /\ cmd'.op = cmd.op /\ cmd'.work = cmd.work /\ cmd'.save = cmd.save
      /\ cmd'.csv = cmd.csv /\ cmd'.logs = cmd.logs /\ cmd'.due = cmd.due
      /\ Left' = Left
  <2>1. cmd' = cmd \/ cmd' = [cmd EXCEPT !.wipe = Tail(@)]
    BY DEF Wipe
  <2> QED
    BY <1>1, <2>1 DEF Command, Left
<1>4. state' = EmptyState /\ UNCHANGED <<serial, crashes>>
  <2>1. Head(ResetOrder) = "state"
    BY DEF ResetOrder
  <2> QED
    BY <1>2, <2>1 DEF Wipe
<1>5. cmd'.wipe = cmd.wipe \/ cmd'.wipe = Tail(cmd.wipe)
  <2>1. cmd' = cmd \/ cmd' = [cmd EXCEPT !.wipe = Tail(@)]
    BY DEF Wipe
  <2> QED
    BY <1>1, <2>1 DEF Command
<1>6. cmd'.wipe = cmd.wipe => Head(cmd.wipe) = "manifests"
  <2>1. Tail(cmd.wipe) # cmd.wipe
    <3>1. cmd.wipe \in Seq(Files)
      BY <1>1 DEF Command
    <3>2. Len(cmd.wipe) \in Nat /\ Len(cmd.wipe) # 0
      BY <1>2, <3>1
    <3>3. Len(Tail(cmd.wipe)) = Len(cmd.wipe) - 1
      BY <1>2, <3>1
    <3>4. Tail(cmd.wipe) = cmd.wipe => Len(Tail(cmd.wipe)) = Len(cmd.wipe)
      BY Zenon
    <3>5. Len(cmd.wipe) # Len(cmd.wipe) - 1
      BY <3>2
    <3> QED
      BY <3>3, <3>4, <3>5, Zenon
  <2>2. cmd' = cmd => Head(cmd.wipe) = "manifests"
    <3>1. cmd' = [cmd EXCEPT !.wipe = Tail(@)] => cmd'.wipe = Tail(cmd.wipe)
      BY <1>1 DEF Command
    <3> QED
      BY <2>1, <3>1 DEF Wipe
  <2>3. cmd' = [cmd EXCEPT !.wipe = Tail(@)] => cmd'.wipe = Tail(cmd.wipe)
    BY <1>1 DEF Command
  <2>4. cmd' = cmd \/ cmd' = [cmd EXCEPT !.wipe = Tail(@)]
    BY DEF Wipe
  <2> QED
    BY <2>1, <2>2, <2>3, <2>4
<1>7. Wiping'
  <2>1. Tail(ResetOrder) = AfterState
    BY DEF ResetOrder, AfterState
  <2>2. Tail(AfterState) = <<"decisions", "events", "manifests">>
    BY DEF AfterState
  <2>3. Tail(<<"decisions", "events", "manifests">>) = <<"events", "manifests">>
    OBVIOUS
  <2>4. Tail(<<"events", "manifests">>) = <<"manifests">>
    OBVIOUS
  <2>5. Tail(<<"manifests">>) = <<>>
    OBVIOUS
  <2>6. cmd'.wipe \in {ResetOrder, AfterState, <<"decisions", "events", "manifests">>,
                      <<"events", "manifests">>, <<"manifests">>, <<>>}
    BY <1>2, <1>5, <2>1, <2>2, <2>3, <2>4, <2>5 DEF FInv, Wiping
  <2> QED
    BY <1>2, <1>3, <1>4, <2>6 DEF Wiping
<1>8. CsvDue'
  <2> SUFFICES ASSUME crashes = 0, cmd'.wipe # AfterState PROVE csv' = {}
    BY <1>4 DEF CsvDue, EmptyState
  <2>1. CASE cmd.wipe = AfterState
    <3>1. Head(AfterState) = "csv"
      BY DEF AfterState
    <3> QED
      BY <2>1, <3>1 DEF Wipe
  <2>2. CASE cmd.wipe = ResetOrder
    <3>1. Tail(ResetOrder) = AfterState /\ Head(ResetOrder) = "state"
      BY DEF ResetOrder, AfterState
    <3> QED
      BY <1>5, <1>6, <2>2, <3>1
  <2>3. CASE cmd.wipe # AfterState /\ cmd.wipe # ResetOrder
    <3>1. csv = {}
      BY <1>2, <2>3 DEF FInv, CsvDue, EmptyState
    <3> QED
      BY <3>1 DEF Wipe
  <2> QED
    BY <2>1, <2>2, <2>3
<1>9. CsvSound' /\ Dealt(csv)'
  <2>0. Head(ResetOrder) = "state"
    BY DEF ResetOrder
  <2>1. csv' \subseteq csv
    <3>1. csv' = {} \/ csv' = csv
      BY DEF Wipe
    <3> QED
      BY <3>1
  <2>3. horizon' = serial \/ (state = EmptyState /\ horizon' = horizon)
    BY <1>2, <2>0 DEF Wipe
  <2>2. \A o \in csv : o.serial \in 1..serial
    BY DEF FInv, Dealt
  <2>4. \A o \in csv : ~(o.serial > serial)
    BY <1>1, <2>2
  <2> QED
    BY <1>4, <2>1, <2>2, <2>3, <2>4 DEF FInv, CsvSound, Dealt
<1>10. /\ Dealt(state.pending)' /\ Dealt(state.observed)'
       /\ Covered(state, manifests)' /\ AuditPrecedesState'
  BY <1>4 DEF EmptyState, Dealt, Covered, AuditPrecedesState
<1>11. Planned' /\ Done' /\ Busy'
  BY <1>2, <1>3 DEF FInv, Planned, Done, Busy
<1> QED
  BY <1>7, <1>8, <1>9, <1>10, <1>11 DEF FInv

LEMMA FilesEnds ==
  ASSUME IInv, FInv, Reply \/ Crash \/ Tick \/ UNCHANGED vars
  PROVE  FInv'
<1>1. /\ UNCHANGED <<state, manifests, csv, decisions, events, serial, horizon>>
      /\ cmd' = Idle \/ (cmd' = cmd /\ crashes' = crashes)
  BY DEF Reply, Crash, Tick, vars, disk, world
<1>2. /\ Dealt(state.pending)' /\ Dealt(state.observed)' /\ Dealt(csv)'
      /\ Covered(state, manifests)' /\ AuditPrecedesState' /\ CsvSound'
  BY <1>1 DEF FInv, Dealt, Covered, AuditPrecedesState, CsvSound
<1>3. CASE cmd' = Idle
  <2>1. Planned' /\ Done' /\ Wiping'
    BY <1>3, IdleFields DEF Planned, Done, Wiping, Left
  <2>2. CsvDue'
    <3>1. CASE Crash
      <4>1. crashes \in Nat /\ crashes' = crashes + 1
        BY <3>1 DEF IInv, TypeOK, Crash
      <4> QED
        BY <4>1 DEF CsvDue
    <3>2. CASE Reply
      <4>1. ~cmd.csv /\ cmd.wipe = <<>> /\ crashes' = crashes
        BY <3>2 DEF Reply, Wiped, Exported
      <4>2. AfterState # <<>>
        BY DEF AfterState
      <4> QED
        BY <1>1, <4>1, <4>2 DEF FInv, CsvDue
    <3>3. CASE Tick \/ UNCHANGED vars
      <4>1. cmd' = cmd /\ crashes' = crashes
        BY <3>3 DEF Tick, vars, world
      <4> QED
        BY <1>1, <4>1 DEF FInv, CsvDue
    <3> QED
      BY <3>1, <3>2, <3>3
  <2> QED
    BY <1>2, <1>3, <2>1, <2>2 DEF FInv
<1>4. CASE cmd' = cmd /\ crashes' = crashes
  <2>1. Written' = Written
    BY <1>1, <1>4 DEF Written, Left
  <2>2. Planned'
    BY <1>1, <1>4, <2>1 DEF FInv, Planned, Covered, Traced, Dealt, Left
  <2>3. Done' /\ Wiping' /\ CsvDue' /\ (~Busy => cmd = Idle)'
    BY <1>1, <1>4 DEF FInv, Done, Wiping, CsvDue, Busy, Left
  <2> QED
    BY <1>2, <2>2, <2>3 DEF FInv
<1> QED
  BY <1>1, <1>3, <1>4

LEMMA FilesStep == IInv /\ IInv' /\ FInv /\ [Next]_vars => FInv'
<1> SUFFICES ASSUME IInv, IInv', FInv, [Next]_vars PROVE FInv'
  OBVIOUS
<1>1. CASE Request
  <2>1. TypeOK'
    BY DEF IInv
  <2> QED
    BY <1>1, <2>1, RequestPlans, FilesPlanned, FilesBare
<1>2. CASE Write
  BY <1>2, FilesManifest, FilesLogs, FilesSave, FilesCsv, FilesWipe, FilesEnds DEF Write
<1>3. CASE Crash \/ Tick \/ UNCHANGED vars
  BY <1>3, FilesEnds
<1> QED
  BY <1>1, <1>2, <1>3 DEF Next

\* The strengthening is an invariant.
THEOREM FilesInvariant == Spec => [](IInv /\ FInv)
<1>1. Init => FInv
  BY FilesInit
<1>2. IInv /\ IInv' /\ FInv /\ [Next]_vars => FInv'
  BY FilesStep
<1> QED
  BY <1>1, <1>2, Strengthening, PTL DEF Spec

\* Whatever a crash leaves half written, manifests and logs never fall behind
\* bo_state.json, observations.csv never runs ahead of it, and without a crash
\* the csv has caught up whenever the lock is free.
THEOREM FilesAlwaysAgree == Spec => []FilesAgree
<1>1. FInv => FilesAgree
  BY FilesFollow
<1> QED
  BY <1>1, FilesInvariant, PTL

-----------------------------------------------------------------------------
(* The budget: it holds of the state and of the state to come.              *)

Bounded(st) ==
  /\ IsFiniteSet(st.pending) /\ IsFiniteSet(st.observed)
  /\ Cardinality(st.pending) <= MaxPending
  /\ st.pending # {} =>
       Cardinality(st.observed) + Cardinality(st.pending) <= MaxTrials

Budgeted == Bounded(state) /\ (cmd.save => Bounded(cmd.work))

\* Rows of different trials, each with its id among the keys, are no more than
\* the keys.
LEMMA NoMoreThanKeys ==
  ASSUME NEW rows, NEW keys, IsFiniteSet(keys), Ids(rows) \subseteq keys,
         \A r, q \in rows : r.id = q.id => r = q
  PROVE  IsFiniteSet(rows) /\ Cardinality(rows) <= Cardinality(keys)
<1> DEFINE key == [r \in rows |-> r.id]
<1>1. \A r \in rows : r.id \in keys
  BY DEF Ids
<1>2. key \in [rows -> keys]
  BY <1>1
<1>3. \A r, q \in DOMAIN key : key[r] = key[q] => r = q
  OBVIOUS
<1>4. key \in Injection(rows, keys)
  BY <1>2, <1>3 DEF Injection, IsInjective
<1> HIDE DEF key
<1> QED
  BY <1>4, FS_Injection

\* The ids of n consecutive allocations are n.
LEMMA NextIds ==
  ASSUME NEW a \in Nat, NEW n \in Nat
  PROVE  IsFiniteSet(a .. a + n - 1) /\ Cardinality(a .. a + n - 1) = n
<1>1. a \in Int /\ a + n - 1 \in Int
  OBVIOUS
<1>2. PICK b \in Int : b = a + n - 1
  BY <1>1
<1>3. /\ IsFiniteSet(a .. b)
      /\ Cardinality(a .. b) = IF a > b THEN 0 ELSE b - a + 1
  BY <1>1, FS_Interval
<1> QED
  BY <1>2, <1>3

\* One outcome for each trial: no more outcomes than trials.
LEMMA NoMoreThanGone ==
  ASSUME NEW gone, NEW out, IsFiniteSet(gone), Matches(gone, out),
         \A o, p \in out : o.id = p.id => o = p
  PROVE  IsFiniteSet(out) /\ Cardinality(out) <= Cardinality(gone)
<1> DEFINE trial == [o \in out |-> CHOOSE e \in gone : Names(o, e)]
<1>1. \A o \in out : trial[o] \in gone /\ Names(o, trial[o])
  BY DEF Matches
<1>2. \A o, p \in DOMAIN trial : trial[o] = trial[p] => o = p
  BY <1>1 DEF Names
<1>3. trial \in [out -> gone]
  BY <1>1
<1> HIDE DEF trial
<1>4. trial \in Injection(out, gone)
  BY <1>2, <1>3 DEF Injection, IsInjective
<1> QED
  BY <1>4, FS_Injection

\* Every plan keeps to the budget the state keeps to.
LEMMA PlanBounded ==
  ASSUME IInv, Bounded(state), Makes
  PROVE  Bounded(cmd.work)'
<1>1. PICK gone, out, new : Change(gone, out, new) /\ Traceable(gone, out, new)
                            /\ Kinds(gone, out, new)
  BY DEF Makes, Plans
<1> DEFINE P == state.pending
           O == state.observed
           K == P \ gone
<1>2. /\ gone \subseteq P /\ cmd'.work.pending = K \cup new
      /\ cmd'.work.observed = O \cup out
      /\ \A o, p \in out : o.id = p.id => o = p
      /\ \A e, f \in new : e.id = f.id => e = f
  BY <1>1 DEF Change, Traceable
<1>3. /\ IsFiniteSet(P) /\ IsFiniteSet(O) /\ Cardinality(P) <= MaxPending
      /\ P # {} => Cardinality(O) + Cardinality(P) <= MaxTrials
  BY DEF Bounded
<1>4. MaxPending \in Nat /\ MaxTrials \in Nat /\ state.next \in Nat
  BY ConfigAssumption DEF IInv, TypeOK, CanonicalState
<1> HIDE DEF P, O, K
<1>5. /\ IsFiniteSet(gone) /\ IsFiniteSet(K)
      /\ Cardinality(P) \in Nat /\ Cardinality(O) \in Nat
      /\ Cardinality(gone) \in Nat /\ Cardinality(K) \in Nat
      /\ Cardinality(K) = Cardinality(P) - Cardinality(gone)
  <2>1. IsFiniteSet(gone) /\ Cardinality(gone) \in Nat /\ Cardinality(P) \in Nat
    <3>1. gone \in SUBSET P
      BY <1>2 DEF P
    <3>2. IsFiniteSet(gone)
      BY <1>3, <3>1, FS_Subset
    <3> QED
      BY <1>3, <3>2, FS_CardinalityType
  <2>2. P \cap gone = gone
    BY <1>2
  <2>3. IsFiniteSet(K) /\ Cardinality(K) = Cardinality(P) - Cardinality(gone)
    BY <1>3, <2>2, FS_Difference DEF K
  <2> QED
    BY <1>3, <2>1, <2>3, FS_CardinalityType
<1>6. ASSUME NEW S, NEW T, IsFiniteSet(S), IsFiniteSet(T)
      PROVE  /\ IsFiniteSet(S \cup T) /\ Cardinality(S \cup T) \in Nat
             /\ Cardinality(S) \in Nat /\ Cardinality(T) \in Nat
             /\ Cardinality(S \cup T) <= Cardinality(S) + Cardinality(T)
  <2>1. IsFiniteSet(S \cap T)
    BY <1>6, FS_Intersection
  <2>2. Cardinality(S) \in Nat /\ Cardinality(T) \in Nat
    BY <1>6, FS_CardinalityType
  <2>3. Cardinality(S \cap T) \in Nat
    BY <2>1, FS_CardinalityType
  <2>4. /\ IsFiniteSet(S \cup T)
        /\ Cardinality(S \cup T) = Cardinality(S) + Cardinality(T) - Cardinality(S \cap T)
    BY <1>6, FS_Union
  <2>5. Cardinality(S \cup T) \in Nat
    BY <2>4, FS_CardinalityType
  <2> QED
    BY <2>2, <2>3, <2>4, <2>5
<1>7. CASE Settling(gone, out, new)
  <2>1. IsFiniteSet(out) /\ Cardinality(out) <= Cardinality(gone)
    BY <1>2, <1>5, <1>7, NoMoreThanGone DEF Settling
  <2>2. cmd'.work.pending = K
    BY <1>2, <1>7 DEF Settling
  <2>3. /\ IsFiniteSet(O \cup out) /\ Cardinality(O \cup out) \in Nat
        /\ Cardinality(out) \in Nat
        /\ Cardinality(O \cup out) <= Cardinality(O) + Cardinality(out)
    BY <1>3, <1>6, <2>1
  <2>4. K # {} => P # {}
    BY DEF K
  <2>5. Cardinality(K) <= MaxPending
    BY <1>3, <1>4, <1>5
  <2>6. K # {} => Cardinality(O \cup out) + Cardinality(K) <= MaxTrials
    BY <1>3, <1>4, <1>5, <2>1, <2>3, <2>4
  <2> QED
    BY <1>2, <1>5, <2>2, <2>3, <2>5, <2>6 DEF Bounded
<1>8. CASE Allocating(gone, out, new)
  <2>1. IsFiniteSet(out)
    BY <1>2, <1>5, <1>8, NoMoreThanGone DEF Allocating
  <2>2. PICK n \in Nat :
          /\ Ids(new) = state.next .. state.next + n - 1
          /\ ~(Cardinality(K) + n > MaxPending)
          /\ ~(Cardinality(O \cup out) + Cardinality(K) + n > MaxTrials)
    BY <1>8 DEF Allocating, Takes, P, O, K
  <2>3. IsFiniteSet(new) /\ Cardinality(new) <= n /\ Cardinality(new) \in Nat
    <3> DEFINE ids == state.next .. state.next + n - 1
    <3>1. IsFiniteSet(ids) /\ Cardinality(ids) = n
      BY <1>4, <2>2, NextIds
    <3>2. Ids(new) \subseteq ids
      BY <2>2
    <3> HIDE DEF ids
    <3> QED
      BY <1>2, <3>1, <3>2, NoMoreThanKeys, FS_CardinalityType
  <2>4. /\ IsFiniteSet(O \cup out) /\ Cardinality(O \cup out) \in Nat
        /\ IsFiniteSet(K \cup new) /\ Cardinality(K \cup new) \in Nat
        /\ Cardinality(K \cup new) <= Cardinality(K) + Cardinality(new)
    BY <1>3, <1>5, <1>6, <2>1, <2>3
  <2>5. Cardinality(K \cup new) <= MaxPending
    BY <1>4, <1>5, <2>2, <2>3, <2>4
  <2>6. Cardinality(O \cup out) + Cardinality(K \cup new) <= MaxTrials
    <3>1. \A k, w, m, o, b \in Nat :
            m <= k + w /\ w <= n /\ ~(o + k + n > b) => o + m <= b
      OBVIOUS
    <3>2. Cardinality(K) \in Nat
      BY <1>5
    <3> QED
      BY <1>4, <2>2, <2>3, <2>4, <3>1, <3>2
  <2> QED
    BY <1>2, <2>4, <2>5, <2>6 DEF Bounded
<1>9. CASE Touching(gone, out, new)
  <2>1. PICK e \in P : gone = {e} /\ new = {[e EXCEPT !.seen = clock]} /\ out = {}
    BY <1>9 DEF Touching, P
  <2>2. /\ Cardinality(gone) = 1 /\ Cardinality(new) = 1 /\ IsFiniteSet(new)
    BY <2>1, FS_Singleton
  <2>3. /\ IsFiniteSet(K \cup new) /\ Cardinality(K \cup new) \in Nat
        /\ Cardinality(K \cup new) <= Cardinality(K) + Cardinality(new)
    BY <1>5, <1>6, <2>2
  <2>4. Cardinality(K \cup new) <= Cardinality(P) /\ P # {}
    BY <1>5, <2>1, <2>2, <2>3
  <2>5. Cardinality(K \cup new) <= MaxPending
    BY <1>3, <1>4, <1>5, <2>3, <2>4
  <2>6. Cardinality(O) + Cardinality(K \cup new) <= MaxTrials
    BY <1>3, <1>4, <1>5, <2>3, <2>4
  <2>7. cmd'.work.observed = O
    BY <1>2, <2>1
  <2> QED
    BY <1>2, <1>3, <2>3, <2>5, <2>6, <2>7 DEF Bounded
<1>10. CASE Recording(gone, out, new)
  <2>1. cmd'.work.pending = {}
    BY <1>2, <1>10 DEF Recording, P, K
  <2>2. PICK n \in Nat : Ids(out) = state.next .. state.next + n - 1
    BY <1>10 DEF Recording, Takes
  <2>3. IsFiniteSet(out)
    <3> DEFINE ids == state.next .. state.next + n - 1
    <3>1. IsFiniteSet(ids)
      BY <1>4, <2>2, NextIds
    <3>2. Ids(out) \subseteq ids
      BY <2>2
    <3> HIDE DEF ids
    <3> QED
      BY <1>2, <3>1, <3>2, NoMoreThanKeys
  <2>4. IsFiniteSet(O \cup out)
    BY <1>3, <1>6, <2>3
  <2>5. /\ IsFiniteSet(cmd'.work.pending)
        /\ Cardinality(cmd'.work.pending) = 0
    BY <2>1, FS_EmptySet
  <2>6. IsFiniteSet(cmd'.work.observed)
    BY <1>2, <2>4
  <2> QED
    BY <1>4, <2>1, <2>5, <2>6 DEF Bounded
<1> QED
  BY <1>1, <1>7, <1>8, <1>9, <1>10 DEF Kinds

LEMMA EmptyBounded == Bounded(EmptyState)
<1>1. IsFiniteSet({}) /\ Cardinality({}) = 0 /\ MaxPending \in Nat
  BY FS_EmptySet, ConfigAssumption
<1> QED
  BY <1>1 DEF Bounded, EmptyState

LEMMA BudgetStep == IInv /\ Budgeted /\ [Next]_vars => Budgeted'
<1> SUFFICES ASSUME IInv, Budgeted, [Next]_vars PROVE Budgeted'
  OBVIOUS
<1>1. CASE Request
  <2>1. UNCHANGED state /\ (Makes \/ Bare)
    BY <1>1, RequestPlans DEF disk
  <2>2. Bounded(state)'
    BY <2>1 DEF Budgeted, Bounded
  <2>3. Makes => Bounded(cmd.work)'
    BY PlanBounded DEF Budgeted
  <2> QED
    BY <2>1, <2>2, <2>3 DEF Budgeted, Bare
<1>2. CASE SaveState
  <2>1. cmd \in Command /\ state' = cmd.work /\ cmd.save
        /\ cmd' = [cmd EXCEPT !.save = FALSE]
    BY <1>2 DEF SaveState, IInv, TypeOK
  <2>2. cmd'.save = FALSE
    BY <2>1 DEF Command
  <2> QED
    BY <2>1, <2>2 DEF Budgeted, Bounded
<1>3. CASE Wipe
  <2>1. cmd \in Command /\ (cmd' = cmd \/ cmd' = [cmd EXCEPT !.wipe = Tail(@)])
    BY <1>3 DEF Wipe, IInv, TypeOK
  <2>2. cmd'.save = cmd.save /\ cmd'.work = cmd.work
    BY <2>1 DEF Command
  <2>3. state' = EmptyState \/ state' = state
    BY <1>3 DEF Wipe
  <2>4. Bounded(state)'
    BY <2>3, EmptyBounded DEF Budgeted, Bounded
  <2> QED
    BY <2>2, <2>4 DEF Budgeted, Bounded
<1>4. CASE \/ AppendDue \/ WriteRetired \/ WriteManifest \/ AppendDecision
           \/ WriteCsv \/ AppendTail
  <2>1. UNCHANGED state /\ cmd \in Command
    BY <1>4 DEF AppendDue, WriteRetired, WriteManifest, AppendDecision, WriteCsv,
                AppendTail, IInv, TypeOK
  <2>2. \/ \E due : cmd' = [cmd EXCEPT !.due = due]
        \/ \E dead, due : cmd' = [cmd EXCEPT !.dead = dead, !.due = due]
        \/ \E rows : cmd' = [cmd EXCEPT !.rows = rows]
        \/ \E logs, due : cmd' = [cmd EXCEPT !.logs = logs, !.due = due]
        \/ \E csvLeft : cmd' = [cmd EXCEPT !.csv = csvLeft]
        \/ \E tail : cmd' = [cmd EXCEPT !.tail = tail]
    BY <1>4 DEF AppendDue, WriteRetired, WriteManifest, AppendDecision, WriteCsv,
                AppendTail
  <2>3. cmd'.save = cmd.save /\ cmd'.work = cmd.work
    BY <2>1, <2>2 DEF Command
  <2> QED
    BY <2>1, <2>3 DEF Budgeted, Bounded
<1>5. CASE Reply \/ Crash
  <2>1. UNCHANGED state /\ cmd' = Idle
    BY <1>5 DEF Reply, Crash, disk
  <2> QED
    BY <2>1, IdleFields DEF Budgeted, Bounded
<1>6. CASE Tick \/ UNCHANGED vars
  BY <1>6 DEF Tick, vars, disk, Budgeted, Bounded
<1> QED
  BY <1>1, <1>2, <1>3, <1>4, <1>5, <1>6 DEF Next, Write

\* Pending trials never exceed max_pending_trials, and observed and pending
\* ones together never exceed max_trials while any is pending: no batch, no
\* retirement and no crash between two writes takes the state past either.
THEOREM BudgetAlwaysHeld == Spec => []BudgetHeld
<1>1. Init => Budgeted
  BY EmptyBounded, IdleFields DEF Init, Budgeted
<1>2. IInv /\ Budgeted /\ [Next]_vars => Budgeted'
  BY BudgetStep
<1>3. Budgeted => BudgetHeld
  BY DEF Budgeted, Bounded, BudgetHeld
<1> QED
  BY <1>1, <1>2, <1>3, Strengthening, PTL DEF Spec

-----------------------------------------------------------------------------
(* Every step is one of five: a plan is made, it is committed, a file other *)
(* than the state changes, a reset removes a file, the lock is let go.      *)

Commits ==
  /\ cmd.save /\ cmd'.save = FALSE /\ state' = cmd.work
  /\ cmd'.wipe = cmd.wipe /\ cmd'.beat = cmd.beat
  /\ UNCHANGED <<beats, clock, serial>>

Aside ==
  /\ cmd'.work = cmd.work /\ cmd'.save = cmd.save /\ cmd'.wipe = cmd.wipe
  /\ cmd'.beat = cmd.beat
  /\ UNCHANGED <<state, beats, serial>>
  /\ clock' = clock \/ (clock' = clock + 1 /\ ~Busy)

Removes ==
  /\ cmd.wipe # <<>> /\ ~cmd.save
  /\ cmd'.work = cmd.work /\ cmd'.save = cmd.save /\ cmd'.beat = cmd.beat
  /\ state' = state \/ state' = EmptyState
  /\ UNCHANGED <<beats, clock, serial>>

LetsGo ==
  /\ cmd' = Idle /\ UNCHANGED <<state, clock, serial>>
  /\ beats' = beats \/ (beats' = beats \cup cmd.beat /\ ~cmd.save)

LEMMA StepKinds ==
  ASSUME IInv, [Next]_vars
  PROVE  Request \/ Commits \/ Aside \/ Removes \/ LetsGo
<1>1. cmd \in Command
  BY DEF IInv, TypeOK
<1>2. CASE SaveState
  <2>1. /\ cmd' = [cmd EXCEPT !.save = FALSE] /\ cmd.save /\ state' = cmd.work
        /\ UNCHANGED <<beats, clock, serial>>
    BY <1>2 DEF SaveState, world
  <2>2. cmd'.save = FALSE /\ cmd'.wipe = cmd.wipe /\ cmd'.beat = cmd.beat
    BY <1>1, <2>1 DEF Command
  <2> QED
    BY <2>1, <2>2 DEF Commits
<1>3. CASE Wipe
  <2>1. cmd' = cmd \/ cmd' = [cmd EXCEPT !.wipe = Tail(@)]
    BY <1>3 DEF Wipe
  <2>2. cmd'.work = cmd.work /\ cmd'.save = cmd.save /\ cmd'.beat = cmd.beat
    BY <1>1, <2>1 DEF Command
  <2>3. /\ cmd.wipe # <<>> /\ (state' = state \/ state' = EmptyState)
        /\ UNCHANGED <<beats, clock, serial>>
    BY <1>3 DEF Wipe
  <2> QED
    BY <2>2, <2>3 DEF Removes, IInv, InFlight
<1>4. CASE \/ AppendDue \/ WriteRetired \/ WriteManifest \/ AppendDecision
           \/ WriteCsv \/ AppendTail
  <2>1. UNCHANGED <<state, beats, clock, serial>>
    BY <1>4 DEF AppendDue, WriteRetired, WriteManifest, AppendDecision, WriteCsv,
                AppendTail, world
  <2>2. \/ \E due : cmd' = [cmd EXCEPT !.due = due]
        \/ \E dead, due : cmd' = [cmd EXCEPT !.dead = dead, !.due = due]
        \/ \E rows : cmd' = [cmd EXCEPT !.rows = rows]
        \/ \E logs, due : cmd' = [cmd EXCEPT !.logs = logs, !.due = due]
        \/ \E csvLeft : cmd' = [cmd EXCEPT !.csv = csvLeft]
        \/ \E tail : cmd' = [cmd EXCEPT !.tail = tail]
    BY <1>4 DEF AppendDue, WriteRetired, WriteManifest, AppendDecision, WriteCsv,
                AppendTail
  <2>3. /\ cmd'.save = cmd.save /\ cmd'.work = cmd.work
        /\ cmd'.wipe = cmd.wipe /\ cmd'.beat = cmd.beat
    BY <1>1, <2>2 DEF Command
  <2> QED
    BY <2>1, <2>3 DEF Aside
<1>5. CASE Reply
  BY <1>5 DEF Reply, LetsGo, Wiped, Exported, Saved, disk
<1>6. CASE Crash
  BY <1>6 DEF Crash, LetsGo, disk
<1>7. CASE Tick \/ UNCHANGED vars
  BY <1>7 DEF Tick, vars, disk, world, Aside
<1> QED
  BY <1>2, <1>3, <1>4, <1>5, <1>6, <1>7 DEF Next, Write

-----------------------------------------------------------------------------
(* Heartbeats.  A trial is retired when the plan is committed, by the ages  *)
(* read when it was made.  Protecting ties the three together: the pending  *)
(* row is at least as young as every heartbeat its worker was told of, in   *)
(* the state and in the state to come, and what the plan is about to retire *)
(* as stale is older than all of them.                                      *)

OneEach(st) == \A e, f \in st.pending : e.serial = f.serial => e = f

Young(st, bs) == \A e \in st.pending, b \in bs : e.serial = b.serial => b.at <= e.seen

Overdue(o) == \A b \in beats : b.serial = o.serial => clock > b.at + MaxAge

Protecting ==
  /\ OneEach(state) /\ Young(state, beats)
  /\ \A b \in beats \cup cmd.beat : b.at <= clock /\ b.serial <= serial
  /\ cmd.save => OneEach(cmd.work) /\ Young(cmd.work, beats)
  /\ Young(Final, cmd.beat)
  /\ cmd.save => \A o \in cmd.work.observed \ state.observed :
                   o.status = "stale" => Overdue(o)
  /\ cmd.wipe # <<>> => cmd.beat = {}

LEMMA ProtectingInit == Init => Protecting
<1> SUFFICES ASSUME Init PROVE Protecting
  OBVIOUS
<1> QED
  BY IdleFields DEF Init, Protecting, OneEach, Young, Final, EmptyState

\* A plan keeps the ages it read, and retires only what has outlived them.
LEMMA ProtectingPlanned ==
  ASSUME IInv, FInv, Protecting, Makes, serial <= serial', TypeOK',
         UNCHANGED <<state, beats, clock>>
  PROVE  Protecting'
<1>1. PICK gone, out, new : /\ Change(gone, out, new) /\ Traceable(gone, out, new)
                            /\ Dated(gone, out, new)
  BY DEF Makes, Plans
<1> DEFINE P == state.pending
           W == cmd'.work
<1>2. /\ cmd'.save = TRUE /\ cmd'.wipe = <<>> /\ gone \in SUBSET P
      /\ W.pending = (P \ gone) \cup new /\ W.observed = state.observed \cup out
      /\ new \in SUBSET Entry
  BY <1>1 DEF Change
<1>3. /\ clock \in Nat /\ serial \in Nat /\ serial' \in Nat /\ MaxAge \in Nat
      /\ \A e \in P : e.seen \in Nat /\ e.serial \in Nat /\ e.serial <= serial
      /\ \A b \in beats \cup cmd'.beat : b.at \in Nat /\ b.serial \in Nat
  <2>1. /\ clock \in Nat /\ serial \in Nat /\ serial' \in Nat /\ MaxAge \in Nat
        /\ P \in SUBSET Entry
    BY ConfigAssumption DEF IInv, TypeOK, CanonicalState
  <2>2. beats \in SUBSET [serial: Nat, at: Nat] /\ cmd'.beat \in SUBSET [serial: Nat, at: Nat]
    BY DEF IInv, TypeOK, Command
  <2>3. Dealt(P)
    BY DEF FInv
  <2> QED
    BY <2>1, <2>2, <2>3 DEF Entry, Dealt
<1>4. \A e \in new : \/ \E f \in gone : e.serial = f.serial
                     \/ e.serial > serial /\ e.serial <= serial' /\ e.serial \in Nat
  BY <1>1, <1>3 DEF Traceable, Names
<1>5. OneEach(W)
  <2>1. ASSUME NEW e \in P \ gone, NEW f \in new, e.serial = f.serial PROVE FALSE
    <3>1. CASE \E g \in gone : f.serial = g.serial
      BY <1>2, <2>1, <3>1 DEF Protecting, OneEach
    <3> QED
      BY <1>3, <1>4, <2>1, <3>1
  <2>2. \A e, f \in new : e.serial = f.serial => e = f
    BY <1>1 DEF Dated
  <2>3. \A e, f \in P \ gone : e.serial = f.serial => e = f
    BY DEF Protecting, OneEach
  <2> QED
    BY <1>2, <2>1, <2>2, <2>3 DEF OneEach
<1>6. /\ \A b \in beats : b.at <= clock /\ b.serial <= serial
      /\ \A b \in cmd'.beat : b.at = clock /\ \E e \in new : b.serial = e.serial
      /\ \A e \in new : e.seen = clock
  BY <1>1 DEF Protecting, Dated
<1>7. \A b \in beats \cup cmd'.beat : b.at <= clock /\ b.serial <= serial'
  <2>1. ASSUME NEW b \in cmd'.beat PROVE b.at <= clock /\ b.serial <= serial'
    <3>1. PICK e \in new : b.serial = e.serial
      BY <1>6
    <3>2. e.serial <= serial'
      BY <1>2, <1>3, <1>4
    <3> QED
      BY <1>3, <1>6, <3>1, <3>2
  <2>2. ASSUME NEW b \in beats PROVE b.at <= clock /\ b.serial <= serial'
    BY <1>3, <1>6
  <2> QED
    BY <2>1, <2>2
<1>8. Young(W, beats)
  BY <1>2, <1>6 DEF Protecting, Young
<1>9. Young(W, cmd'.beat)
  <2> SUFFICES ASSUME NEW e \in W.pending, NEW b \in cmd'.beat, e.serial = b.serial
               PROVE  b.at <= e.seen
    BY DEF Young
  <2>1. PICK f \in new : b.serial = f.serial
    BY <1>6
  <2>2. e = f
    BY <1>2, <1>5, <2>1 DEF OneEach
  <2> QED
    BY <1>3, <1>6, <2>2
<1>10. \A o \in W.observed \ state.observed : o.status = "stale" => Overdue(o)
  <2> SUFFICES ASSUME NEW o \in out, o.status = "stale", NEW b \in beats,
                      b.serial = o.serial
               PROVE  clock > b.at + MaxAge
    BY <1>2 DEF Overdue
  <2>1. o.serial > serial \/ \E e \in Stale(P) : o.serial = e.serial
    BY <1>1 DEF Dated
  <2>2. PICK e \in Stale(P) : o.serial = e.serial
    BY <1>3, <1>6, <2>1
  <2>3. e \in P /\ clock > e.seen + MaxAge
    BY <2>2 DEF Stale
  <2>4. b.at <= e.seen
    BY <2>2, <2>3 DEF Protecting, Young
  <2> QED
    BY <1>3, <2>3, <2>4
<1>11. Final' = W
  BY <1>2 DEF Final
<1>12. OneEach(state)' /\ Young(state, beats)'
  BY DEF Protecting, OneEach, Young
<1>13. \A o \in W.observed \ state'.observed : o.status = "stale" => Overdue(o)'
  BY <1>10 DEF Overdue
<1> HIDE DEF W
<1>14. OneEach(cmd.work)' /\ Young(cmd.work, beats)' /\ Young(Final, cmd.beat)'
  BY <1>5, <1>8, <1>9, <1>11 DEF W, OneEach, Young
<1> QED
  BY <1>2, <1>7, <1>12, <1>13, <1>14 DEF W, Protecting

LEMMA ProtectingStep ==
  IInv /\ IInv' /\ FInv /\ Protecting /\ [Next]_vars => Protecting'
<1> SUFFICES ASSUME IInv, IInv', FInv, Protecting, [Next]_vars PROVE Protecting'
  OBVIOUS
<1>1. CASE Request
  <2>1. /\ UNCHANGED <<state, beats, clock>> /\ serial <= serial' /\ (Makes \/ Bare)
    BY <1>1, RequestPlans DEF disk
  <2>2. TypeOK'
    BY DEF IInv
  <2>3. CASE Bare
    <3>1. cmd'.save = FALSE /\ cmd'.beat = {}
      BY <2>3 DEF Bare
    <3>2. \A b \in beats : b.serial \in Nat /\ serial \in Nat /\ serial' \in Nat
      BY DEF IInv, TypeOK
    <3>3. \A b \in beats : b.at <= clock /\ b.serial <= serial'
      BY <2>1, <3>2 DEF Protecting
    <3> QED
      BY <2>1, <3>1, <3>3 DEF Protecting, OneEach, Young
  <2> QED
    BY <2>1, <2>2, <2>3, ProtectingPlanned
<1>2. CASE Commits
  <2>1. OneEach(state)' /\ Young(state, beats)'
    BY <1>2 DEF Commits, Protecting, OneEach, Young
  <2>2. Young(Final, cmd.beat)'
    BY <1>2 DEF Commits, Protecting, Final, Young
  <2> QED
    BY <1>2, <2>1, <2>2 DEF Commits, Protecting
<1>3. CASE Aside
  <2>1. Young(Final, cmd.beat)' /\ OneEach(state)' /\ Young(state, beats)'
    BY <1>3 DEF Aside, Protecting, Final, Young, OneEach
  <2>2. \A b \in beats' \cup cmd'.beat : b.at <= clock' /\ b.serial <= serial'
    <3>1. /\ clock \in Nat /\ \A b \in beats \cup cmd.beat : b.at \in Nat
      BY DEF IInv, TypeOK, Command
    <3>2. beats' = beats /\ cmd'.beat = cmd.beat /\ serial' = serial
          /\ (clock' = clock \/ clock' = clock + 1)
      BY <1>3 DEF Aside
    <3> QED
      BY <3>1, <3>2 DEF Protecting
  <2>3. cmd'.save => OneEach(cmd.work)' /\ Young(cmd.work, beats)'
    BY <1>3 DEF Aside, Protecting, OneEach, Young
  <2>4. cmd'.save => \A o \in cmd'.work.observed \ state'.observed :
                       o.status = "stale" => Overdue(o)'
    <3> SUFFICES ASSUME cmd'.save
                 PROVE  \A o \in cmd'.work.observed \ state'.observed :
                          o.status = "stale" => Overdue(o)'
      OBVIOUS
    <3>1. cmd.save /\ cmd'.work = cmd.work /\ state' = state /\ beats' = beats
      BY <1>3 DEF Aside
    <3>2. clock' = clock
      BY <1>3, <3>1, IdleFields DEF Aside, FInv
    <3> QED
      BY <3>1, <3>2 DEF Protecting, Overdue
  <2>5. cmd'.wipe # <<>> => cmd'.beat = {}
    BY <1>3 DEF Aside, Protecting
  <2> QED
    BY <2>1, <2>2, <2>3, <2>4, <2>5 DEF Protecting
<1>4. CASE Removes
  <2>1. /\ cmd'.beat = {} /\ ~cmd'.save /\ beats' = beats /\ clock' = clock
        /\ serial' = serial /\ (state' = state \/ state' = EmptyState)
    BY <1>4 DEF Removes, Protecting
  <2>2. OneEach(state)' /\ Young(state, beats)'
    BY <2>1 DEF Protecting, OneEach, Young, EmptyState
  <2>3. Young(Final, cmd.beat)'
    BY <2>1 DEF Young
  <2> QED
    BY <2>1, <2>2, <2>3 DEF Protecting
<1>5. CASE LetsGo
  <2>1. /\ cmd'.beat = {} /\ cmd'.save = FALSE /\ cmd'.wipe = <<>>
        /\ UNCHANGED <<state, clock, serial>>
    BY <1>5, IdleFields DEF LetsGo
  <2>2. Young(state, beats)'
    <3>1. CASE beats' = beats
      BY <2>1, <3>1 DEF Protecting, Young
    <3>2. CASE beats' = beats \cup cmd.beat /\ ~cmd.save
      <4>1. Young(state, cmd.beat)
        BY <3>2 DEF Protecting, Final
      <4> QED
        BY <2>1, <3>2, <4>1 DEF Protecting, Young
    <3> QED
      BY <1>5, <3>1, <3>2 DEF LetsGo
  <2>3. \A b \in beats' : b.at <= clock /\ b.serial <= serial
    BY <1>5 DEF LetsGo, Protecting
  <2>4. OneEach(state)' /\ Young(Final, cmd.beat)'
    BY <2>1 DEF Protecting, OneEach, Young
  <2> QED
    BY <2>1, <2>2, <2>3, <2>4 DEF Protecting
<1> QED
  BY <1>1, <1>2, <1>3, <1>4, <1>5, StepKinds

\* A suggest or a retire --stale never retires a trial within MaxAge of the last
\* heartbeat its worker was told is recorded, though the age it reads, the
\* reply to the worker and the commit are three different steps.
THEOREM HeartbeatsProtect == Spec => HeartbeatProtects
<1>1. Init => Protecting
  BY ProtectingInit
<1>2. IInv /\ IInv' /\ FInv /\ Protecting /\ [Next]_vars => Protecting'
  BY ProtectingStep
<1>3. IInv /\ Protecting /\ [Next]_vars =>
        [\A o \in state'.observed \ state.observed : o.status = "stale" =>
           \A b \in beats : b.serial = o.serial => clock > b.at + MaxAge]_vars
  <2> SUFFICES ASSUME IInv, Protecting, [Next]_vars,
                      NEW o \in state'.observed \ state.observed, o.status = "stale"
               PROVE  Overdue(o)
    BY DEF Overdue
  <2>1. CASE Request
    BY <2>1, RequestPlans DEF disk
  <2>2. CASE Commits
    BY <2>2 DEF Commits, Protecting
  <2>3. CASE Aside \/ Removes \/ LetsGo
    BY <2>3 DEF Aside, Removes, LetsGo, EmptyState
  <2> QED
    BY <2>1, <2>2, <2>3, StepKinds
<1> QED
  BY <1>1, <1>2, <1>3, FilesInvariant, PTL DEF Spec, HeartbeatProtects

-----------------------------------------------------------------------------
(* The ledger.  bo_state.json under the refinement mapping, and what it     *)
(* means that a state is one ledger move (or none) away from the file:      *)
(* while a plan waits to be committed its state to come is.                 *)

TrialIn(e) == [id |-> e.id, params |-> e.params, serial |-> e.serial]
Opens(st) == {TrialIn(e) : e \in st.pending}
Closes(st) == {TerminalView(o) : o \in st.observed}

Alone(rows) == \A r, q \in rows : r.id = q.id => r = q

Resolving(st) ==
  /\ Closes(state) \subseteq Closes(st)
  /\ {TrialIn(c) : c \in Closes(st) \ Closes(state)} = Opens(state) \ Opens(st)
  /\ Alone(Closes(st) \ Closes(state))

Taking(rows, st) ==
  /\ rows # {} /\ st.next >= state.next
  /\ {r.id : r \in rows} = state.next .. st.next - 1
  /\ Alone(rows)

Moves(st) ==
  \/ st.next = state.next /\ Opens(st) = Opens(state) /\ Closes(st) = Closes(state)
  \/ /\ Resolving(st) /\ Closes(st) \ Closes(state) # {}
     /\ Opens(st) \subseteq Opens(state) /\ st.next = state.next
  \/ /\ Resolving(st) /\ \A c \in Closes(st) \ Closes(state) : c.status = "stale"
     /\ Taking(Opens(st) \ Opens(state), st)
  \/ /\ Opens(state) = {} /\ Opens(st) = {} /\ Closes(state) \subseteq Closes(st)
     /\ Taking(Closes(st) \ Closes(state), st)

Moving == cmd.save => Moves(cmd.work)

LEMMA ViewFields ==
  ASSUME NEW e, NEW o
  PROVE  /\ TrialIn(e).id = e.id /\ TrialIn(e).params = e.params
         /\ TrialIn(e).serial = e.serial
         /\ TerminalView(o).id = o.id /\ TerminalView(o).status = o.status
         /\ TrialIn(TerminalView(o)) = TrialIn(o)
BY DEF TrialIn, TerminalView

LEMMA SameTrial ==
  ASSUME NEW r, NEW s
  PROVE  Names(r, s) <=> TrialIn(r) = TrialIn(s)
BY ViewFields DEF Names, TrialIn

\* The views of the rows a plan drops and adds, when no two trials share an id.
LEMMA ViewsOfRows ==
  ASSUME IInv, NEW gone, NEW out, NEW new,
         Change(gone, out, new), Traceable(gone, out, new)
  PROVE  /\ Closes(cmd'.work) = Closes(state) \cup {TerminalView(o) : o \in out}
         /\ Closes(cmd'.work) \ Closes(state) = {TerminalView(o) : o \in out}
         /\ Alone({TerminalView(o) : o \in out})
         /\ Opens(cmd'.work) = {TrialIn(e) : e \in (state.pending \ gone) \cup new}
         /\ \A e, f \in state.pending : TrialIn(e) = TrialIn(f) => e = f
<1> DEFINE closed == {TerminalView(o) : o \in out}
<1>1. /\ cmd'.work.pending = (state.pending \ gone) \cup new
      /\ cmd'.work.observed = state.observed \cup out /\ gone \in SUBSET state.pending
  BY DEF Change
<1>2. OneFate(state) /\ state.next \in Nat
  BY DEF IInv, Sound, TypeOK, CanonicalState
<1>3. \A o \in out : o.id \notin Ids(state.observed)
  <2> SUFFICES ASSUME NEW o \in out PROVE o.id \notin Ids(state.observed)
    OBVIOUS
  <2>1. CASE \E e \in gone : Names(o, e)
    BY <1>1, <1>2, <2>1, IdsFacts DEF OneFate, Names
  <2>2. CASE o.id >= state.next
    <3>1. \A id \in Ids(state.observed) : id < state.next
      BY <1>2 DEF OneFate
    <3>2. \A p \in state.observed : p.id \in Nat
      BY DEF IInv, TypeOK, CanonicalState, Observation
    <3> QED
      BY <1>2, <2>2, <3>1, <3>2, IdsFacts
  <2> QED
    BY <2>1, <2>2 DEF Traceable
<1>4. Closes(cmd'.work) = Closes(state) \cup closed
  BY <1>1 DEF Closes
<1>5. \A c \in closed : c \notin Closes(state)
  BY <1>3, ViewFields, IdsFacts DEF Closes
<1>6. Alone(closed)
  BY ViewFields DEF Traceable, Alone
<1>7. \A e, f \in state.pending : TrialIn(e) = TrialIn(f) => e = f
  BY <1>2, ViewFields DEF OneFate
<1>8. Opens(cmd'.work) = {TrialIn(e) : e \in (state.pending \ gone) \cup new}
  BY <1>1 DEF Opens
<1> QED
  BY <1>4, <1>5, <1>6, <1>7, <1>8

\* Outcomes for the trials that leave, and new trials with ids of their own.
LEMMA ResolvesWhatLeaves ==
  ASSUME IInv, NEW gone, NEW out, NEW new,
         Change(gone, out, new), Traceable(gone, out, new), Matches(gone, out),
         \A e \in new : e.id >= state.next
  PROVE  /\ Resolving(cmd'.work)
         /\ Opens(cmd'.work) \ Opens(state) = {TrialIn(e) : e \in new}
<1> DEFINE closed == {TerminalView(o) : o \in out}
           left == {TrialIn(e) : e \in gone}
           fresh == {TrialIn(e) : e \in new}
<1>1. /\ Closes(cmd'.work) = Closes(state) \cup closed
      /\ Closes(cmd'.work) \ Closes(state) = closed /\ Alone(closed)
      /\ Opens(cmd'.work) = {TrialIn(e) : e \in (state.pending \ gone) \cup new}
      /\ \A e, f \in state.pending : TrialIn(e) = TrialIn(f) => e = f
      /\ gone \in SUBSET state.pending
  BY ViewsOfRows DEF Change
<1>2. \A e \in new, f \in state.pending : TrialIn(e) # TrialIn(f)
  <2>1. \A f \in state.pending : f.id < state.next /\ f.id \in Nat /\ state.next \in Nat
    BY IdsFacts DEF IInv, Sound, OneFate, TypeOK, CanonicalState, Entry
  <2>2. \A e \in new, f \in state.pending : e.id # f.id
    BY <2>1
  <2> QED
    BY <2>2, ViewFields
<1>3. Opens(state) \ Opens(cmd'.work) = left
  BY <1>1, <1>2 DEF Opens
<1>4. Opens(cmd'.work) \ Opens(state) = fresh
  BY <1>1, <1>2 DEF Opens
<1>5. {TrialIn(c) : c \in closed} = left
  BY ViewFields, SameTrial DEF Matches
<1> QED
  BY <1>1, <1>3, <1>4, <1>5 DEF Resolving

LEMMA PlanMoves ==
  ASSUME IInv, Makes
  PROVE  Moves(cmd'.work)
<1>1. PICK gone, out, new : Change(gone, out, new) /\ Traceable(gone, out, new)
                            /\ Kinds(gone, out, new)
  BY DEF Makes, Plans
<1> DEFINE closed == {TerminalView(o) : o \in out}
           W == cmd'.work
<1>2. /\ W.pending = (state.pending \ gone) \cup new
      /\ W.observed = state.observed \cup out /\ gone \in SUBSET state.pending
  BY <1>1 DEF Change
<1>3. /\ Closes(W) = Closes(state) \cup closed /\ Closes(W) \ Closes(state) = closed
      /\ Alone(closed)
  BY <1>1, ViewsOfRows
<1> HIDE DEF closed, W
<1>4. ASSUME NEW rows, NEW n \in Nat, n >= 1, Ids(rows) = state.next .. state.next + n - 1,
             W.next = state.next + n
      PROVE  /\ rows # {} /\ W.next >= state.next
             /\ Ids(rows) = state.next .. W.next - 1
  <2>1. state.next \in Nat
    BY DEF IInv, TypeOK, CanonicalState
  <2>2. state.next \in Ids(rows)
    BY <1>4, <2>1
  <2>3. rows # {}
    BY <2>2, IdsFacts
  <2>4. state.next + n >= state.next
    BY <2>1, <1>4
  <2>5. state.next .. W.next - 1 = state.next .. state.next + n - 1
    BY <1>4, <2>1
  <2> QED
    <3>1. W.next >= state.next
      BY <1>4, <2>4
    <3>2. Ids(rows) = state.next .. W.next - 1
      BY <1>4, <2>5
    <3> QED
      BY <2>3, <3>1, <3>2
<1>5. CASE Settling(gone, out, new)
  <2>1. W.next = state.next /\ new = {} /\ Matches(gone, out)
    BY <1>5 DEF Settling, W
  <2>2. Resolving(W) /\ Opens(W) \subseteq Opens(state)
    BY <1>1, <2>1, ResolvesWhatLeaves DEF W
  <2>3. CASE out = {}
    <3>1. W.pending = state.pending /\ W.observed = state.observed
      BY <1>2, <2>1, <2>3 DEF Matches
    <3> QED
      BY <2>1, <3>1 DEF Moves, Opens, Closes, W
  <2>4. CASE out # {}
    BY <1>3, <2>1, <2>2, <2>4 DEF Moves, closed, W
  <2> QED
    BY <2>3, <2>4
<1>6. CASE Allocating(gone, out, new)
  <2>1. PICK n \in Nat : Takes(new, n)
    BY <1>6 DEF Allocating
  <2>2. /\ new # {} /\ W.next >= state.next /\ Ids(new) = state.next .. W.next - 1
    BY <1>4, <2>1 DEF Takes, W
  <2>3. \A e \in new : e.id >= state.next
    <3>1. \A e \in new : e.id \in state.next .. W.next - 1
      BY <2>2, IdsFacts
    <3> QED
      BY <3>1
  <2>4. /\ Resolving(W)
        /\ Opens(W) \ Opens(state) = {TrialIn(e) : e \in new}
    BY <1>1, <1>6, <2>3, ResolvesWhatLeaves DEF Allocating, W
  <2>5. Taking({TrialIn(e) : e \in new}, W)
    <3> DEFINE fresh == {TrialIn(e) : e \in new}
    <3>1. fresh # {}
      BY <2>2
    <3>2. {r.id : r \in fresh} = Ids(new)
      BY ViewFields DEF Ids
    <3>3. Alone(fresh)
      BY <1>1, ViewFields DEF Traceable, Alone
    <3> QED
      BY <2>2, <3>1, <3>2, <3>3 DEF Taking
  <2>6. \A c \in closed : c.status = "stale"
    BY <1>6, ViewFields DEF Allocating, closed
  <2> QED
    BY <1>3, <2>4, <2>5, <2>6 DEF Moves, W
<1>7. CASE Touching(gone, out, new)
  <2>1. PICK e \in state.pending : gone = {e} /\ new = {[e EXCEPT !.seen = clock]}
    BY <1>7 DEF Touching
  <2>2. out = {} /\ W.next = state.next
    BY <1>7 DEF Touching, W
  <2>3. e \in Entry
    BY DEF IInv, TypeOK, CanonicalState
  <2>4. TrialIn([e EXCEPT !.seen = clock]) = TrialIn(e)
    BY <2>3 DEF TrialIn, Entry
  <2>5. Opens(W) = Opens(state)
    BY <1>2, <2>1, <2>4 DEF Opens
  <2>6. Closes(W) = Closes(state)
    BY <1>2, <2>2 DEF Closes
  <2> QED
    BY <2>2, <2>5, <2>6 DEF Moves, W
<1>8. CASE Recording(gone, out, new)
  <2>1. PICK n \in Nat : Takes(out, n)
    BY <1>8 DEF Recording
  <2>2. /\ out # {} /\ W.next >= state.next /\ Ids(out) = state.next .. W.next - 1
    BY <1>4, <2>1 DEF Takes, W
  <2>3. Opens(state) = {} /\ Opens(W) = {}
    BY <1>2, <1>8 DEF Recording, Opens
  <2>4. Taking(closed, W)
    <3>1. {r.id : r \in closed} = Ids(out) /\ closed # {}
      BY <2>2, ViewFields DEF Ids, closed
    <3> QED
      BY <1>3, <2>2, <3>1 DEF Taking
  <2> QED
    BY <1>3, <2>3, <2>4 DEF Moves, W
<1> QED
  BY <1>1, <1>5, <1>6, <1>7, <1>8 DEF Kinds

LEMMA MovingStep == IInv /\ FInv /\ Moving /\ [Next]_vars => Moving'
<1> SUFFICES ASSUME IInv, FInv, Moving, [Next]_vars PROVE Moving'
  OBVIOUS
<1>1. CASE Request
  <2>1. state' = state /\ (Makes \/ Bare)
    BY <1>1, RequestPlans DEF disk
  <2>2. CASE Makes
    <3>1. Moves(cmd'.work)
      BY <2>2, PlanMoves
    <3> QED
      BY <2>1, <3>1 DEF Moving, Moves, Resolving, Taking, Opens, Closes
  <2>3. CASE Bare
    BY <2>3 DEF Bare, Moving
  <2> QED
    BY <2>1, <2>2, <2>3
<1>2. CASE Commits
  BY <1>2 DEF Commits, Moving
<1>3. CASE Aside
  <2>1. cmd'.work = cmd.work /\ cmd'.save = cmd.save /\ state' = state
    BY <1>3 DEF Aside
  <2> QED
    BY <2>1 DEF Moving, Moves, Resolving, Taking, Opens, Closes
<1>4. CASE Removes
  BY <1>4 DEF Removes, Moving
<1>5. CASE LetsGo
  BY <1>5, IdleFields DEF LetsGo, Moving
<1> QED
  BY <1>1, <1>2, <1>3, <1>4, <1>5, StepKinds

\* A move to the next state is a ledger step.
LEMMA MovesRefine ==
  ASSUME Moves(state')
  PROVE  [Ledger!Next]_(Ledger!ledger)
<1> DEFINE open == Opens(state)
           closed == Closes(state)
<1>1. /\ open = {[id |-> e.id, params |-> e.params, serial |-> e.serial] :
                   e \in state.pending}
      /\ closed = {TerminalView(o) : o \in state.observed}
      /\ open' = {[id |-> e.id, params |-> e.params, serial |-> e.serial] :
                   e \in state'.pending}
      /\ closed' = {TerminalView(o) : o \in state'.observed}
      /\ open' = Opens(state') /\ closed' = Closes(state')
  BY DEF Opens, Closes, TrialIn
<1>2. CASE /\ state'.next = state.next /\ Opens(state') = Opens(state)
           /\ Closes(state') = Closes(state)
  BY <1>1, <1>2 DEF Ledger!ledger
<1>3. CASE /\ Resolving(state') /\ Closes(state') \ Closes(state) # {}
           /\ Opens(state') \subseteq Opens(state) /\ state'.next = state.next
  <2>1. Ledger!Settle
    BY <1>1, <1>3 DEF Ledger!Settle, Ledger!Settled, Ledger!Resolves, Ledger!TrialOf,
                      Ledger!Gone, Ledger!Distinct, Ledger!Fresh, Resolving, TrialIn, Alone
  <2> QED
    BY <2>1 DEF Ledger!Next
<1>4. CASE /\ Resolving(state')
           /\ \A c \in Closes(state') \ Closes(state) : c.status = "stale"
           /\ Taking(Opens(state') \ Opens(state), state')
  <2>1. Ledger!Allocate
    BY <1>1, <1>4 DEF Ledger!Allocate, Ledger!Settled, Ledger!Resolves, Ledger!TrialOf,
                      Ledger!Gone, Ledger!Distinct, Ledger!Fresh, Ledger!TakesNextIds,
                      Ledger!IdsOf, Resolving, TrialIn, Alone, Taking
  <2> QED
    BY <2>1 DEF Ledger!Next
<1>5. CASE /\ Opens(state) = {} /\ Opens(state') = {}
           /\ Closes(state) \subseteq Closes(state')
           /\ Taking(Closes(state') \ Closes(state), state')
  <2>1. Ledger!Record
    BY <1>1, <1>5 DEF Ledger!Record, Ledger!Settled, Ledger!Distinct,
                      Ledger!TakesNextIds, Ledger!IdsOf, Alone, Taking
  <2> QED
    BY <2>1 DEF Ledger!Next
<1> QED
  BY <1>2, <1>3, <1>4, <1>5 DEF Moves

\* bo_state.json implements the trial ledger: through every interleaving of
\* commands, late workers, crashes and resets each replacement of the file
\* deals out the next ids, resolves open trials once, or clears the ledger.
THEOREM StateIsALedger == Spec => StateIsLedger
<1>1. Init => Ledger!Init /\ Moving
  BY IdleFields DEF Init, Ledger!Init, EmptyState, Moving
<1>2. IInv /\ FInv /\ Moving /\ [Next]_vars => Moving'
  BY MovingStep
<1>3. IInv /\ FInv /\ Moving /\ [Next]_vars => [Ledger!Next]_(Ledger!ledger)
  <2> SUFFICES ASSUME IInv, FInv, Moving, [Next]_vars
               PROVE  [Ledger!Next]_(Ledger!ledger)
    OBVIOUS
  <2>1. CASE Commits
    BY <2>1, MovesRefine DEF Commits, Moving
  <2>2. CASE state' = state
    BY <2>2 DEF Ledger!ledger
  <2>3. CASE state' = EmptyState
    BY <2>3 DEF Ledger!Next, Ledger!Clear, EmptyState
  <2>4. Commits \/ state' = state \/ state' = EmptyState
    <3>1. Request => state' = state
      BY RequestPlans DEF disk
    <3> QED
      BY <3>1, StepKinds DEF Aside, Removes, LetsGo
  <2> QED
    BY <2>1, <2>2, <2>3, <2>4
<1> QED
  BY <1>1, <1>2, <1>3, FilesInvariant, PTL DEF Spec, StateIsLedger, Ledger!Spec
=============================================================================
