----------------------------- MODULE Controller -----------------------------
(***************************************************************************)
(* The file-backed campaign controller of templates/bo_client/run_bo.py    *)
(* (legacy backend) and templates/_shared/controller_operations.py.        *)
(*                                                                         *)
(* A campaign is a handful of files.  bo_state.json is canonical; the      *)
(* trial manifests, observations.csv, the acquisition log and the event    *)
(* log are written beside it.  Every mutating command takes the campaign's *)
(* file lock, loads the state, computes its successor in memory and then   *)
(* writes the files one after another; the process may die between any two *)
(* of those writes, and what is on disk is all the next command sees.      *)
(*                                                                         *)
(* One command runs at a time: that is what the lock is for, and module    *)
(* CampaignLock says when the lock delivers it.  Everything outside the    *)
(* controller is free: workers keep the suggestions they were handed and   *)
(* report on them at any time, more than once and in any order, and a      *)
(* reply may never reach the client (a crash before Reply).                *)
(***************************************************************************)
EXTENDS Naturals, FiniteSets, Sequences

CONSTANTS
  Params,         \* parameter assignments the search space offers
  Submissions,    \* outcomes a worker may report: [status, loss]
  MaxTrials,      \* bo_config.max_trials
  MaxPending,     \* bo_config.max_pending_trials
  MaxAge,         \* bo_config.max_pending_age_seconds, in clock ticks; 0: none
  LeasesEnabled,  \* bo_config.worker_leases.enabled
  Commands,       \* the commands clients use
  MaxBatch,       \* bound: suggestions or imported rows of one command
  MaxSerial,      \* bound: trials ever allocated, over all generations
  MaxClock,       \* bound: clock ticks
  MaxCrashes,     \* bound: processes that die while holding the lock
  MaxResets       \* bound: campaign resets

Killed == {"canceled", "retired", "stale"}
  \* status "killed" with the terminal_reason the command gives it
Statuses == {"ok", "failed"} \cup Killed

ASSUME ConfigAssumption ==
  \* "stale" is the controller's own verdict, never a worker's.
  /\ Submissions \subseteq [status: Statuses \ {"stale"}, loss: Nat]
  /\ MaxTrials \in Nat /\ MaxPending \in Nat /\ MaxAge \in Nat
  /\ LeasesEnabled \in BOOLEAN
  /\ MaxBatch \in Nat /\ MaxSerial \in Nat /\ MaxClock \in Nat
  /\ MaxCrashes \in Nat /\ MaxResets \in Nat

VARIABLES
  state,      \* bo_state.json
  manifests,  \* state/trials/trial_<id>/manifest.json, one row per id
  csv,        \* observations.csv
  decisions,  \* acquisition_log.jsonl
  events,     \* event_log.jsonl, the lifecycle events
  cmd,        \* the command that holds the lock and what it has left to write
  clock,      \* time.time()
  serial,     \* trials allocated so far: the source of suggested_at and leases
  issued,     \* suggestions printed to clients, never forgotten by workers
  acked,      \* outcomes whose submitter was told they are recorded
  beats,      \* heartbeats whose sender was told they are recorded
  horizon,    \* history: serials up to here belong to campaigns since reset
  crashes, resets

disk == <<state, manifests, csv, decisions, events>>
world == <<clock, serial, issued, acked, beats, horizon, crashes, resets>>
vars == <<disk, cmd, world>>

-----------------------------------------------------------------------------
(* Rows.  `serial` stands for what makes an allocation unique: suggested_at *)
(* and, with leases, the random lease_token.  `seen` is the later of        *)
(* suggested_at and last_heartbeat_at.  `by` records which suggestion the   *)
(* submitter of an observation was working on; the code does not store it.  *)

Entry == [id: Nat, params: Params, serial: Nat, seen: Nat]
Observation == [id: Nat, params: Params, serial: Nat, by: Nat,
                status: Statuses, loss: Nat]
Manifest == [id: Nat, params: Params, serial: Nat,
             status: Statuses \cup {"pending"}, loss: Nat]
Ack == [id: Nat, params: Params, status: Statuses, loss: Nat]
Decision == [id: Nat, serial: Nat]     \* serial 0: no feasible candidate
EventKinds == {"suggestion_created", "ingest_applied", "ingest_duplicate_noop",
               "trial_canceled", "trial_retired", "heartbeat",
               "observations_imported", "campaign_reset"}
Event == [kind: EventKinds, id: Nat]   \* id 0: an event of the campaign

Files == {"state", "csv", "decisions", "events", "manifests"}

EmptyState == [next |-> 1, pending |-> {}, observed |-> {}, best |-> {}]

Ids(rows) == {r.id : r \in rows}

\* Save one JSON file per trial: the row replaces that trial's earlier one.
Put(rows, row) == {r \in rows : r.id # row.id} \cup {row}

\* Mutation: strict comparison, so no row is ever first.
First_Strict(rows) == {r \in rows : \A s \in rows : r.id < s.id}
First(rows) == {r \in rows : \A s \in rows : r.id <= s.id}

PendingView(e) == [id |-> e.id, params |-> e.params, serial |-> e.serial,
                   status |-> "pending", loss |-> 0]
TerminalView(o) == [id |-> o.id, params |-> o.params, serial |-> o.serial,
                    status |-> o.status, loss |-> o.loss]
AckOf(o) == [id |-> o.id, params |-> o.params, status |-> o.status, loss |-> o.loss]

\* The trial of the smallest (loss, id) among the ok observations, if any.
Best(observed) ==
  LET ok == {o \in observed : o.status = "ok"}
  IN Ids({o \in ok : \A p \in ok : o.loss < p.loss \/ (o.loss = p.loss /\ o.id <= p.id)})

\* Mutation: the terminal row keeps the status of the pending one.
Kill_StillPending(e, reason) ==
  [id |-> e.id, params |-> e.params, serial |-> e.serial, by |-> e.serial,
   status |-> "pending", loss |-> 0]
Kill(e, reason) == [id |-> e.id, params |-> e.params, serial |-> e.serial,
                    by |-> e.serial, status |-> reason, loss |-> 0]

\* Mutation: off by one at the age limit.
Stale_AtLimit(pending) == {e \in pending : MaxAge > 0 /\ clock >= e.seen + MaxAge}
\* max_pending_age_seconds = 0 turns the age limit off.
Stale(pending) == {e \in pending : MaxAge > 0 /\ clock > e.seen + MaxAge}

\* Mutations: the observation is not appended; the pending entry is not popped.
Terminate_Forgets(st, entries, outcomes) == [st EXCEPT !.pending = @ \ entries]
Terminate_KeepsPending(st, entries, outcomes) ==
  [st EXCEPT !.observed = @ \cup outcomes]

\* Pop the entries and append an observation for each.
Terminate(st, entries, outcomes) ==
  [st EXCEPT !.pending = @ \ entries, !.observed = @ \cup outcomes]

\* Mutation: best is not recomputed.
Scored_Never(st) == st
Scored(st) == [st EXCEPT !.best = Best(st.observed)]

-----------------------------------------------------------------------------
(* A command between acquiring the lock and releasing it.  What it has left *)
(* to write, in the order it writes it:                                     *)
(*   dead  terminal manifests of retired trials, each followed by its event *)
(*   rows  the other manifests                                              *)
(*   logs  acquisition-log rows, each followed by its suggestion_created    *)
(*   save  bo_state.json := work, then csv, then the closing events `tail`  *)
(*   wipe  the files a reset removes                                        *)
(* `due` holds the event the last write owes.  `gives`, `acks` and `beat`   *)
(* are what the client learns from the reply.                               *)

Idle == [op |-> "none", work |-> EmptyState, dead |-> {}, rows |-> {},
         logs |-> {}, due |-> {}, save |-> FALSE, csv |-> FALSE, tail |-> {},
         wipe |-> <<>>, gives |-> {}, acks |-> {}, beat |-> {}]

Start(op, work) == [Idle EXCEPT !.op = op, !.work = work, !.save = TRUE]

Busy == cmd.op # "none"

CanStart(op) == ~Busy /\ op \in Commands

-----------------------------------------------------------------------------
(* suggest: retire what is stale, then refuse, fail or allocate the batch.  *)

\* Mutation: the size of the batch is not counted.
Refused_IgnoresBatch(st, n) ==
  \/ Cardinality(st.pending) > MaxPending
  \/ Cardinality(st.observed) + Cardinality(st.pending) > MaxTrials

Refused(st, n) ==
  \/ Cardinality(st.pending) + n > MaxPending
  \/ Cardinality(st.observed) + Cardinality(st.pending) + n > MaxTrials

\* Mutation: the id does not advance within a batch.
Batch_OneId(st, n, choice) ==
  {[id |-> st.next, params |-> choice[k], serial |-> serial + k, seen |-> clock]
     : k \in 1..n}

Batch(st, n, choice) ==
  {[id |-> st.next + k - 1, params |-> choice[k], serial |-> serial + k,
    seen |-> clock] : k \in 1..n}

\* The state without its stale trials, and the writes that takes.
Expired == {Kill(e, "stale") : e \in Stale(state.pending)}
Kept == Terminate(state, Stale(state.pending), Expired)
SuggestPlan == [Start("suggest", Kept) EXCEPT
                  !.dead = {TerminalView(o) : o \in Expired},
                  !.csv = Expired # {}]

\* No capacity: the retirement alone is committed, or nothing happens at all.
SuggestRefused(n) ==
  /\ CanStart("suggest")
  /\ Refused(Kept, n)
  /\ Expired # {}
  /\ cmd' = [SuggestPlan EXCEPT !.work = Scored(Kept)]
  /\ UNCHANGED <<disk, world>>

\* The sampler finds no feasible candidate for some trial of the batch.
SuggestInfeasible(n) ==
  /\ CanStart("suggest")
  /\ ~Refused(Kept, n)
  /\ \E k \in 0..n - 1 :
       cmd' = [SuggestPlan EXCEPT !.logs = {[id |-> Kept.next + k, serial |-> 0]}]
  /\ UNCHANGED <<disk, world>>

SuggestAllocated(n) ==
  /\ CanStart("suggest")
  /\ ~Refused(Kept, n)
  /\ serial + n <= MaxSerial
  /\ \E choice \in [1..n -> Params] :
       LET new == Batch(Kept, n, choice) IN
       cmd' = [SuggestPlan EXCEPT
                 !.work = [Kept EXCEPT !.pending = @ \cup new, !.next = @ + n],
                 !.rows = {PendingView(e) : e \in new},
                 !.logs = {[id |-> e.id, serial |-> e.serial] : e \in new},
                 !.gives = new]
  /\ serial' = serial + n
  /\ UNCHANGED <<disk, clock, issued, acked, beats, horizon, crashes, resets>>

-----------------------------------------------------------------------------
(* ingest: a worker reports outcome r for the suggestion s it was handed.   *)

\* Mutation: the lease token is not checked.
HoldsLease_Unchecked(s, e) == TRUE
HoldsLease(s, e) == LeasesEnabled => s.serial = e.serial

\* The trial is pending, the lease and the parameters match.
Ingest(s, r) ==
  /\ CanStart("ingest")
  /\ \E e \in state.pending :
       /\ e.id = s.id
       /\ HoldsLease(s, e)
       /\ s.params = e.params
       /\ LET o == [id |-> e.id, params |-> e.params, serial |-> e.serial,
                    by |-> s.serial, status |-> r.status, loss |-> r.loss]
          IN cmd' = [Start("ingest", Scored(Terminate(state, {e}, {o}))) EXCEPT
                       !.rows = {TerminalView(o)},
                       !.csv = TRUE,
                       !.tail = {[kind |-> "ingest_applied", id |-> o.id]},
                       !.acks = {AckOf(o)}]
  /\ UNCHANGED <<disk, world>>

\* The trial is terminal already: an identical payload is acknowledged as a
\* no-op, anything else is an error that changes nothing.
IngestAgain(s, r) ==
  /\ CanStart("ingest")
  /\ s.id \notin Ids(state.pending)
  /\ \E o \in state.observed :
       /\ AckOf(o) = [id |-> s.id, params |-> s.params, status |-> r.status,
                      loss |-> r.loss]
       /\ cmd' = [Start("ingest", state) EXCEPT
                    !.save = FALSE,
                    !.tail = {[kind |-> "ingest_duplicate_noop", id |-> o.id]},
                    !.acks = {AckOf(o)}]
  /\ UNCHANGED <<disk, world>>

-----------------------------------------------------------------------------
(* The lifecycle commands.                                                  *)

Cancel(id) ==
  /\ CanStart("cancel")
  /\ \E e \in state.pending :
       /\ e.id = id
       /\ LET o == Kill(e, "canceled")
          IN cmd' = [Start("cancel", Scored(Terminate(state, {e}, {o}))) EXCEPT
                       !.rows = {TerminalView(o)},
                       !.csv = TRUE,
                       !.tail = {[kind |-> "trial_canceled", id |-> id]}]
  /\ UNCHANGED <<disk, world>>

\* retire --trial-id and/or --stale: `named` is the trial asked for, if any.
Retire(named, withStale) ==
  /\ CanStart("retire")
  /\ Cardinality(named) <= 1
  /\ LET old == IF withStale THEN Stale(state.pending) ELSE {}
         gone == named \cup old
         killed == {Kill(e, IF e \in old THEN "stale" ELSE "retired") : e \in gone}
     IN /\ gone # {}
        /\ cmd' = [Start("retire", Scored(Terminate(state, gone, killed))) EXCEPT
                     !.dead = {TerminalView(o) : o \in killed},
                     !.csv = TRUE]
  /\ UNCHANGED <<disk, world>>

Heartbeat(s) ==
  /\ CanStart("heartbeat")
  /\ \E e \in state.pending :
       /\ e.id = s.id
       /\ HoldsLease(s, e)
       /\ LET touched == [e EXCEPT !.seen = clock]
          IN cmd' = [Start("heartbeat",
                           [state EXCEPT !.pending = Put(@, touched)]) EXCEPT
                       !.rows = {PendingView(touched)},
                       !.tail = {[kind |-> "heartbeat", id |-> e.id]},
                       !.beat = {[serial |-> e.serial, at |-> clock]}]
  /\ UNCHANGED <<disk, world>>

Imported(n, choice, result) ==
  {[id |-> state.next + k - 1, params |-> choice[k],
    serial |-> serial + k, by |-> serial + k,
    status |-> result[k].status, loss |-> result[k].loss] : k \in 1..n}

\* import-observations: n accepted rows, only while nothing is pending.
Import(n) ==
  /\ CanStart("import")
  /\ state.pending = {}
  /\ serial + n <= MaxSerial
  /\ \E choice \in [1..n -> Params], result \in [1..n -> Submissions] :
       LET new == Imported(n, choice, result)
           work == [state EXCEPT !.observed = @ \cup new, !.next = @ + n]
       IN cmd' = [Start("import", Scored(work)) EXCEPT
                    !.rows = {TerminalView(o) : o \in new},
                    !.csv = TRUE,
                    !.tail = {[kind |-> "observations_imported", id |-> 0]}]
  /\ serial' = serial + n
  /\ UNCHANGED <<disk, clock, issued, acked, beats, horizon, crashes, resets>>

\* Mutation: the manifests go before the state.
ResetOrder_TrialsFirst == <<"manifests", "state", "csv", "decisions", "events">>
\* reset removes the files in this order (the archive it may take first, the
\* lock file and the reports are not part of this module).
ResetOrder == <<"state", "csv", "decisions", "events", "manifests">>

Reset ==
  /\ CanStart("reset")
  /\ resets < MaxResets
  /\ resets' = resets + 1
  /\ cmd' = [Start("reset", EmptyState) EXCEPT
               !.save = FALSE,
               !.wipe = ResetOrder,
               !.tail = {[kind |-> "campaign_reset", id |-> 0]}]
  /\ UNCHANGED <<disk, clock, serial, issued, acked, beats, horizon, crashes>>

-----------------------------------------------------------------------------
(* The writes of the running command, one file at a time.                   *)

Settled == cmd.due = {}                  \* the last write owes no event
Retired == Settled /\ cmd.dead = {}
Manifested == Retired /\ cmd.rows = {}

Logged == Manifested /\ cmd.logs = {}

\* Mutation: the reply does not wait for the state.
Saved_Later == Logged
Saved == Logged /\ ~cmd.save

Exported == Saved /\ ~cmd.csv

Wiped == Exported /\ cmd.wipe = <<>>

AppendDue ==
  /\ Busy /\ ~Settled
  /\ events' = events \cup cmd.due
  /\ cmd' = [cmd EXCEPT !.due = {}]
  /\ UNCHANGED <<state, manifests, csv, decisions, world>>

WriteRetired ==
  /\ Busy /\ Settled
  /\ \E row \in cmd.dead :     \* named trial first, then by id: any order here
       /\ manifests' = Put(manifests, row)
       /\ cmd' = [cmd EXCEPT !.dead = @ \ {row},
                             !.due = {[kind |-> "trial_retired", id |-> row.id]}]
  /\ UNCHANGED <<state, csv, decisions, events, world>>

WriteManifest ==
  /\ Busy /\ Retired
  /\ \E row \in First(cmd.rows) :
       /\ manifests' = Put(manifests, row)
       /\ cmd' = [cmd EXCEPT !.rows = @ \ {row}]
  /\ UNCHANGED <<state, csv, decisions, events, world>>

AppendDecision ==
  /\ Busy /\ Manifested
  /\ \E row \in First(cmd.logs) :
       /\ decisions' = decisions \cup {row}
       /\ cmd' = [cmd EXCEPT
                    !.logs = @ \ {row},
                    !.due = IF row.serial = 0 THEN {}
                            ELSE {[kind |-> "suggestion_created", id |-> row.id]}]
  /\ UNCHANGED <<state, manifests, csv, events, world>>

SaveState ==
  /\ Busy /\ Logged /\ cmd.save
  /\ state' = cmd.work
  /\ cmd' = [cmd EXCEPT !.save = FALSE]
  /\ UNCHANGED <<manifests, csv, decisions, events, world>>

WriteCsv ==
  /\ Busy /\ Saved /\ cmd.csv
  /\ csv' = cmd.work.observed
  /\ cmd' = [cmd EXCEPT !.csv = FALSE]
  /\ UNCHANGED <<state, manifests, decisions, events, world>>

\* One file of the campaign is removed; the trials directory goes trial by
\* trial.  Without its state the campaign is a new one.
Wipe ==
  /\ Busy /\ Exported /\ cmd.wipe # <<>>
  /\ LET file == Head(cmd.wipe)
         more == file = "manifests" /\ Cardinality(manifests) > 1
     IN /\ state' = IF file = "state" THEN EmptyState ELSE state
        /\ horizon' = IF file = "state" THEN serial ELSE horizon
        /\ acked' = IF file = "state" THEN {} ELSE acked
        /\ csv' = IF file = "csv" THEN {} ELSE csv
        /\ decisions' = IF file = "decisions" THEN {} ELSE decisions
        /\ events' = IF file = "events" THEN {} ELSE events
        /\ IF file = "manifests" /\ manifests # {}
             THEN \E m \in manifests : manifests' = manifests \ {m}
             ELSE UNCHANGED manifests
        /\ cmd' = IF more THEN cmd ELSE [cmd EXCEPT !.wipe = Tail(@)]
  /\ UNCHANGED <<clock, serial, issued, beats, crashes, resets>>

AppendTail ==
  /\ Busy /\ Wiped /\ cmd.tail # {}
  /\ events' = events \cup cmd.tail
  /\ cmd' = [cmd EXCEPT !.tail = {}]
  /\ UNCHANGED <<state, manifests, csv, decisions, world>>

\* Print the outcome and release the lock.
Reply ==
  /\ Busy /\ Wiped /\ cmd.tail = {}
  /\ issued' = issued \cup cmd.gives
  /\ acked' = acked \cup cmd.acks
  /\ beats' = beats \cup cmd.beat
  /\ cmd' = Idle
  /\ UNCHANGED <<disk, clock, serial, horizon, crashes, resets>>

\* The process dies, or an exception unwinds it, before its next write; the
\* operating system drops the lock.
Crash ==
  /\ Busy
  /\ crashes < MaxCrashes
  /\ crashes' = crashes + 1
  /\ cmd' = Idle
  /\ UNCHANGED <<disk, clock, serial, issued, acked, beats, horizon, resets>>

\* Time passes between commands; within one, `now` is read once.
Tick ==
  /\ ~Busy
  /\ clock < MaxClock
  /\ clock' = clock + 1
  /\ UNCHANGED <<disk, cmd, serial, issued, acked, beats, horizon, crashes, resets>>

-----------------------------------------------------------------------------
Init ==
  /\ state = EmptyState
  /\ manifests = {} /\ csv = {} /\ decisions = {} /\ events = {}
  /\ cmd = Idle
  /\ clock = 0 /\ serial = 0
  /\ issued = {} /\ acked = {} /\ beats = {}
  /\ horizon = 0
  /\ crashes = 0 /\ resets = 0

Request ==
  \/ \E n \in 1..MaxBatch :
       SuggestRefused(n) \/ SuggestInfeasible(n) \/ SuggestAllocated(n) \/ Import(n)
  \/ \E s \in issued, r \in Submissions : Ingest(s, r) \/ IngestAgain(s, r)
  \/ \E s \in issued : Heartbeat(s)
  \/ \E id \in Ids(state.pending) : Cancel(id)
  \/ \E named \in SUBSET state.pending, withStale \in BOOLEAN : Retire(named, withStale)
  \/ Reset

Write ==
  \/ AppendDue \/ WriteRetired \/ WriteManifest \/ AppendDecision
  \/ SaveState \/ WriteCsv \/ Wipe \/ AppendTail \/ Reply

Next == Request \/ Write \/ Crash \/ Tick

Spec == Init /\ [][Next]_vars

\* A process that is not killed carries on to its next write.
FairSpec == Spec /\ WF_vars(Write)

-----------------------------------------------------------------------------
(* What the campaign files promise.                                         *)

CanonicalState ==
  [next: Nat, pending: SUBSET Entry, observed: SUBSET Observation, best: SUBSET Nat]

Command ==
  [op: Commands \cup {"none"}, work: CanonicalState,
   dead: SUBSET Manifest, rows: SUBSET Manifest, logs: SUBSET Decision,
   due: SUBSET Event, save: BOOLEAN, csv: BOOLEAN, tail: SUBSET Event,
   wipe: Seq(Files), gives: SUBSET Entry, acks: SUBSET Ack,
   beat: SUBSET [serial: Nat, at: Nat]]

TypeOK ==
  /\ state \in CanonicalState
  /\ manifests \in SUBSET Manifest
  /\ csv \in SUBSET Observation
  /\ decisions \in SUBSET Decision
  /\ events \in SUBSET Event
  /\ cmd \in Command
  /\ clock \in Nat /\ serial \in Nat /\ horizon \in Nat
  /\ issued \in SUBSET Entry
  /\ acked \in SUBSET Ack
  /\ beats \in SUBSET [serial: Nat, at: Nat]
  /\ crashes \in Nat /\ resets \in Nat

\* Trial ids are never reused within a campaign: whatever died when, no two
\* rows of the canonical state are the same trial, none is both pending and
\* observed, and the next id is fresh.
OneFate(st) ==
  /\ \A id \in Ids(st.pending) \cup Ids(st.observed) : id < st.next
  /\ \A e, f \in st.pending : e.id = f.id => e = f
  /\ \A o, p \in st.observed : o.id = p.id => o = p
  /\ Ids(st.pending) \cap Ids(st.observed) = {}

OneFatePerTrial == OneFate(state)

\* An outcome whose submitter was told "Ingested" or "No-op: already ingested"
\* is in the canonical state, with the values submitted, whatever came after.
Records(st, a) == \E o \in st.observed : AckOf(o) = a

AcknowledgedKept == \A a \in acked : Records(state, a)

\* A suggestion a worker holds still names the trial it was printed for: its
\* id has not been handed out again for other parameters.
Names(r, s) == r.id = s.id /\ r.params = s.params /\ r.serial = s.serial

Covers(st, s) ==
  \/ \E e \in st.pending : Names(e, s)
  \/ \E o \in st.observed : Names(o, s)

SuggestionKeepsItsTrial ==
  \A s \in issued : s.serial > horizon => Covers(state, s)

\* Manifests may run ahead of the state, never behind it: each pending trial
\* has its manifest, and a terminal trial's manifest shows its outcome.
ManifestsCoverState ==
  /\ \A e \in state.pending : \E m \in manifests : m.id = e.id /\ m.serial = e.serial
  /\ \A o \in state.observed : TerminalView(o) \in manifests

\* Every trial a suggest made pending can be traced: its acquisition-log row
\* and its suggestion_created event were written before it became canonical.
AuditPrecedesState ==
  \A e \in state.pending :
    /\ [id |-> e.id, serial |-> e.serial] \in decisions
    /\ [kind |-> "suggestion_created", id |-> e.id] \in events

\* observations.csv shows no observation that is not canonical, and without
\* crashes it shows all of them whenever the lock is free.
CsvTracksState ==
  /\ \A o \in csv : o.serial > horizon => o \in state.observed
  /\ ~Busy /\ crashes = 0 => csv = state.observed

\* The files tell one story, whatever a crash has left half written: neither
\* manifests nor logs fall behind the state, and the csv does not run ahead.
FilesAgree == ManifestsCoverState /\ AuditPrecedesState /\ CsvTracksState

\* With worker leases, an outcome enters the state only from the worker that
\* was handed that very trial, never from one left over from before a reset.
NoForeignResult ==
  LeasesEnabled => \A o \in state.observed : o.by = o.serial

\* Pending trials never exceed max_pending_trials, and while any is pending
\* the budget holds; imports may take the campaign past max_trials.
BudgetHeld ==
  /\ Cardinality(state.pending) <= MaxPending
  /\ state.pending # {} =>
       Cardinality(state.observed) + Cardinality(state.pending) <= MaxTrials

\* Every path that commits observations leaves `best` in step with them.
BestIsCurrent == state.best = Best(state.observed)

\* A trial is retired as stale only when MaxAge has passed since the last
\* heartbeat its worker was told is recorded.
HeartbeatProtects ==
  [][\A o \in state'.observed \ state.observed : o.status = "stale" =>
       \A b \in beats : b.serial = o.serial => clock > b.at + MaxAge]_vars

\* operational-semantics.md, `ingest` steps 9 and 10: the state is persisted,
\* then the manifest is written.  So at rest a manifest shows a worker's
\* outcome only if the canonical state holds it.
IngestManifestFollowsState ==
  ~Busy => \A m \in manifests :
    m.status \in {"ok", "failed"} /\ m.serial > horizon =>
      \E o \in state.observed : TerminalView(o) = m

\* The canonical state file is a trial ledger: every replacement of it is one
\* ledger step, through every interleaving of commands, late workers, crashes
\* and resets.
Ledger == INSTANCE TrialLedger WITH
  next <- state.next,
  open <- {[id |-> e.id, params |-> e.params, serial |-> e.serial] : e \in state.pending},
  closed <- {TerminalView(o) : o \in state.observed}
StateIsLedger == Ledger!Spec

\* Whoever holds the lock lets go of it.
LockReleased == Busy ~> ~Busy
=============================================================================
