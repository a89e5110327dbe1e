---------------------------- MODULE AxAllocation ----------------------------
(***************************************************************************)
(* How the Ax backend allocates trials: templates/_shared/optimizer_ax.py  *)
(* as cmd_suggest and cmd_recover_allocation of run_bo.py use it.          *)
(*                                                                         *)
(* A batch is written to a journal first.  Saving bo_state.json, with the  *)
(* batch pending and the optimizer pointer on the new snapshot, commits    *)
(* it; manifests and log rows are published afterwards, and the journal is *)
(* removed when they are.  suggest and recover-allocation start by looking *)
(* for a journal, and finish it or discard it by what the state says.      *)
(* ingest, cancel, retire, heartbeat and import do not look.               *)
(*                                                                         *)
(* A snapshot is numbered, and the number of the snapshot a batch installs *)
(* stands for its allocation_id and for what makes its rows its own:       *)
(* params, suggested_at and lease_token.                                   *)
(***************************************************************************)
EXTENDS Naturals, FiniteSets

CONSTANTS
  MaxSnapshots,  \* bound: batches prepared and rebuilds
  MaxBatch,      \* bound: trials of a batch
  MaxImports,    \* bound: rows imported
  MaxResets,     \* bound: resets
  MaxCrashes     \* bound: commands that die

ASSUME BoundAssumption ==
  /\ MaxSnapshots \in Nat /\ MaxBatch \in Nat /\ MaxImports \in Nat
  /\ MaxResets \in Nat /\ MaxCrashes \in Nat

VARIABLES
  state,      \* bo_state.json: next_trial_id, pending, observations, optimizer.snapshot
  journal,    \* state/optimizer/ax/allocation.json
  manifests,  \* one row per trial directory
  decisions,  \* acquisition_log.jsonl: how often it has each allocation
  events,     \* event_log.jsonl: likewise
  cmd,        \* the command that holds the lock
  snapshots,  \* snapshots made so far
  committed,  \* history: batches the state has taken in, since the last reset
  ever,       \* history: batches the state ever took in
  imports, resets, crashes

vars == <<state, journal, manifests, decisions, events, cmd, snapshots,
          committed, ever, imports, resets, crashes>>
logs == <<manifests, decisions, events>>
history == <<snapshots, committed, ever, imports, resets, crashes>>

Row == [id: Nat, by: 0..MaxSnapshots]       \* by 0: an imported row
Manifest == [id: Nat, by: 0..MaxSnapshots, status: {"pending", "terminal"}]
Snapshots == 1..MaxSnapshots

EmptyState == [next |-> 1, pending |-> {}, observed |-> {}, pointer |-> 0]
NoJournal == [by |-> 0, previous |-> 0, rows |-> {}]
Idle == [pc |-> "idle", then |-> "idle", todo |-> {}]

Canonical(st) == st.pending \cup st.observed
Put(rows, m) == {x \in rows : x.id # m.id} \cup {m}
AsPending(r) == [id |-> r.id, by |-> r.by, status |-> "pending"]
AsTerminal(r) == [id |-> r.id, by |-> r.by, status |-> "terminal"]

\* Mutation: the counter is advanced past the ids before they are used.
Batch_OffByOne(by, n) == {[id |-> i, by |-> by] : i \in (state.next + 1)..(state.next + n)}
Batch(by, n) == {[id |-> i, by |-> by] : i \in state.next..(state.next + n - 1)}

\* Mutation: the journal's trials are looked for among the pending ones only.
Status_PendingOnly ==
  CASE journal = NoJournal -> "clean"
    [] journal # NoJournal /\ state.pointer = journal.by ->
         IF journal.rows \subseteq state.pending THEN "committed" ELSE "invalid"
    [] OTHER -> IF state.pointer = journal.previous THEN "prepared" ELSE "invalid"
\* _allocation_status
Status ==
  CASE journal = NoJournal -> "clean"
    [] journal # NoJournal /\ state.pointer = journal.by ->
         IF /\ journal.rows \subseteq Canonical(state)
            /\ \A r \in journal.rows : r.id < state.next
         THEN "committed" ELSE "invalid"
    [] OTHER ->
         IF /\ state.pointer = journal.previous
            /\ \E r \in journal.rows : r.id = state.next
            /\ \A r \in journal.rows : r.id >= state.next
            /\ ~ \E r \in journal.rows, c \in Canonical(state) : r.id = c.id
         THEN "prepared" ELSE "invalid"

TypeOK ==
  /\ state \in [next: Nat, pending: SUBSET Row, observed: SUBSET Row, pointer: 0..MaxSnapshots]
  /\ \A r \in Canonical(state) : r.id < state.next
  /\ \A r, s \in Canonical(state) : r.id = s.id => r = s
  /\ state.pending \cap state.observed = {}
  /\ journal \in [by: 0..MaxSnapshots, previous: 0..MaxSnapshots, rows: SUBSET Row]
  /\ manifests \subseteq Manifest
  /\ decisions \in [Snapshots -> Nat] /\ events \in [Snapshots -> Nat]
  /\ cmd.pc = "idle" => cmd = Idle
  /\ snapshots \in 0..MaxSnapshots
  /\ committed \subseteq ever /\ ever \subseteq 1..snapshots

Init ==
  /\ state = EmptyState /\ journal = NoJournal /\ manifests = {}
  /\ decisions = [s \in Snapshots |-> 0] /\ events = [s \in Snapshots |-> 0]
  /\ cmd = Idle /\ snapshots = 0 /\ committed = {} /\ ever = {}
  /\ imports = 0 /\ resets = 0 /\ crashes = 0

-----------------------------------------------------------------------------
(* Recovery, as the first thing suggest and recover-allocation do and as    *)
(* the last thing a committed batch needs.                                  *)

\* An invalid journal stops both commands before they change anything.
Recover(then) ==
  /\ cmd.pc = "idle"
  /\ \/ Status = "clean" /\ then # "idle" /\ cmd' = [Idle EXCEPT !.pc = then]
     \/ Status = "committed"
        /\ cmd' = [pc |-> "manifests", then |-> then, todo |-> journal.rows]
     \/ Status = "prepared" /\ cmd' = [Idle EXCEPT !.pc = "unlink", !.then = then]
  /\ UNCHANGED <<state, journal, logs, history>>

RecoverAllocation == Recover("idle")
Suggest == Recover("retire")

\* Mutation: every trial of the journal is written as pending.
Current_Pending(r) == AsPending(r)
\* What the manifest of a committed trial has to say now.
Current(r) ==
  IF \E p \in state.pending : p.id = r.id THEN AsPending(r) ELSE AsTerminal(r)

PublishManifest(r) ==
  /\ cmd.pc = "manifests" /\ r \in cmd.todo /\ \A s \in cmd.todo : r.id <= s.id
  /\ manifests' = Put(manifests, Current(r))
  /\ cmd' = [cmd EXCEPT !.todo = @ \ {r}]
  /\ UNCHANGED <<state, journal, decisions, events, history>>

\* Mutation: rows are appended whether or not they are there.
Appended_Again(log) == [log EXCEPT ![journal.by] = @ + 1]
\* _publish_allocation_rows: present already, or added by atomic replacement.
Appended(log) == [log EXCEPT ![journal.by] = IF @ > 0 THEN @ ELSE 1]

PublishDecisions ==
  /\ cmd.pc = "manifests" /\ cmd.todo = {}
  /\ decisions' = Appended(decisions)
  /\ cmd' = [cmd EXCEPT !.pc = "events"]
  /\ UNCHANGED <<state, journal, manifests, events, history>>

PublishEvents ==
  /\ cmd.pc = "events"
  /\ events' = Appended(events)
  /\ cmd' = [cmd EXCEPT !.pc = "unlink"]
  /\ UNCHANGED <<state, journal, manifests, decisions, history>>

Unlink ==
  /\ cmd.pc = "unlink"
  /\ journal' = NoJournal
  /\ cmd' = [Idle EXCEPT !.pc = cmd.then]
  /\ UNCHANGED <<state, logs, history>>

-----------------------------------------------------------------------------
(* suggest after recovery.                                                  *)

\* Stale trials are retired first, in a commit of their own; their manifests
\* follow.  The set may be empty.
RetireStale(stale) ==
  /\ cmd.pc = "retire" /\ stale \subseteq state.pending
  /\ state' = [state EXCEPT !.pending = @ \ stale, !.observed = @ \cup stale]
  /\ cmd' = [Idle EXCEPT !.pc = "plan", !.todo = stale]
  /\ UNCHANGED <<journal, logs, history>>

WriteRetired(r) ==
  /\ cmd.pc = "plan" /\ r \in cmd.todo
  /\ manifests' = Put(manifests, AsTerminal(r))
  /\ cmd' = [cmd EXCEPT !.todo = @ \ {r}]
  /\ UNCHANGED <<state, journal, decisions, events, history>>

\* No room for the batch, or Ax fails or times out: nothing is allocated.
Refuse ==
  /\ cmd.pc = "plan" /\ cmd.todo = {}
  /\ cmd' = Idle
  /\ UNCHANGED <<state, journal, logs, history>>

\* prepare_batch installs the snapshot, commit_allocation writes the journal.
Prepare(n) ==
  /\ cmd.pc = "plan" /\ cmd.todo = {} /\ journal = NoJournal
  /\ snapshots < MaxSnapshots /\ snapshots' = snapshots + 1
  /\ journal' = [by |-> snapshots', previous |-> state.pointer, rows |-> Batch(snapshots', n)]
  /\ cmd' = [Idle EXCEPT !.pc = "commit"]
  /\ UNCHANGED <<state, logs, committed, ever, imports, resets, crashes>>

\* The commit point.
Commit ==
  /\ cmd.pc = "commit"
  /\ state' = [next |-> state.next + Cardinality(journal.rows),
               pending |-> state.pending \cup journal.rows,
               observed |-> state.observed, pointer |-> journal.by]
  /\ committed' = committed \cup {journal.by} /\ ever' = ever \cup {journal.by}
  /\ cmd' = [Idle EXCEPT !.pc = "manifests", !.todo = journal.rows]
  /\ UNCHANGED <<journal, logs, snapshots, imports, resets, crashes>>

-----------------------------------------------------------------------------
(* Commands that do not look at the journal.  Each writes manifests before  *)
(* the state, and may die in between.                                       *)

\* The observation keeps params, suggested_at and lease_token of its entry.
Observed(r) == r

Finish(r, dies) ==
  /\ cmd.pc = "idle" /\ r \in state.pending
  /\ manifests' = Put(manifests, AsTerminal(r))
  /\ IF dies THEN /\ crashes < MaxCrashes /\ crashes' = crashes + 1
                  /\ UNCHANGED state
     ELSE /\ state' = [state EXCEPT !.pending = @ \ {r}, !.observed = @ \cup {Observed(r)}]
          /\ UNCHANGED crashes
  /\ UNCHANGED <<journal, decisions, events, cmd, snapshots, committed, ever, imports, resets>>

Import(dies) ==
  /\ cmd.pc = "idle" /\ imports < MaxImports /\ imports' = imports + 1
  /\ LET r == [id |-> state.next, by |-> 0]
     IN /\ manifests' = Put(manifests, AsTerminal(r))
        /\ IF dies THEN /\ crashes < MaxCrashes /\ crashes' = crashes + 1
                        /\ UNCHANGED state
           ELSE /\ state' = [state EXCEPT !.next = @ + 1, !.observed = @ \cup {r}]
                /\ UNCHANGED crashes
  /\ UNCHANGED <<journal, decisions, events, cmd, snapshots, committed, ever, resets>>

\* rebuild-optimizer looks for the journal, and refuses to run beside one.
Rebuild ==
  /\ cmd.pc = "idle" /\ journal = NoJournal /\ state.pointer # 0
  /\ snapshots < MaxSnapshots /\ snapshots' = snapshots + 1
  /\ state' = [state EXCEPT !.pointer = snapshots']
  /\ UNCHANGED <<journal, logs, cmd, committed, ever, imports, resets, crashes>>

\* reset removes its files in this order; state/optimizer is the last.
Reset ==
  /\ cmd.pc = "idle" /\ resets < MaxResets /\ resets' = resets + 1
  /\ state' = EmptyState /\ committed' = {}
  /\ cmd' = [Idle EXCEPT !.pc = "wipe decisions"]
  /\ UNCHANGED <<journal, logs, snapshots, ever, imports, crashes>>

WipeDecisions ==
  /\ cmd.pc = "wipe decisions" /\ cmd' = [Idle EXCEPT !.pc = "wipe events"]
  /\ decisions' = [s \in Snapshots |-> 0]
  /\ UNCHANGED <<state, journal, manifests, events, history>>

WipeEvents ==
  /\ cmd.pc = "wipe events" /\ cmd' = [Idle EXCEPT !.pc = "wipe trials"]
  /\ events' = [s \in Snapshots |-> 0]
  /\ UNCHANGED <<state, journal, manifests, decisions, history>>

WipeTrials ==
  /\ cmd.pc = "wipe trials" /\ cmd' = [Idle EXCEPT !.pc = "unlink"]
  /\ manifests' = {}
  /\ UNCHANGED <<state, journal, decisions, events, history>>

Crash ==
  /\ cmd.pc # "idle" /\ crashes < MaxCrashes /\ crashes' = crashes + 1
  /\ cmd' = Idle
  /\ UNCHANGED <<state, journal, logs, snapshots, committed, ever, imports, resets>>

\* What a command that runs does next.
Run ==
  \/ \E r \in journal.rows : PublishManifest(r)
  \/ PublishDecisions \/ PublishEvents \/ Unlink
  \/ \E stale \in SUBSET state.pending : RetireStale(stale)
  \/ \E r \in state.observed : WriteRetired(r)
  \/ Refuse \/ Commit
  \/ \E n \in 1..MaxBatch : Prepare(n)
  \/ WipeDecisions \/ WipeEvents \/ WipeTrials

Next ==
  \/ Run \/ RecoverAllocation \/ Suggest
  \/ \E r \in state.pending, dies \in BOOLEAN : Finish(r, dies)
  \/ \E dies \in BOOLEAN : Import(dies)
  \/ Rebuild \/ Reset \/ Crash

Spec == Init /\ [][Next]_vars

\* A command that runs is scheduled, and somebody runs recover-allocation, as
\* status and validate ask the operator to, whenever the campaign is idle.
FairSpec == Spec /\ WF_vars(Run) /\ WF_vars(RecoverAllocation)

-----------------------------------------------------------------------------
\* However often publication is interrupted and resumed, a batch's records are
\* in each log at most once, and only those of a batch that was committed.
PublishedOnce ==
  /\ \A s \in Snapshots : decisions[s] <= 1 /\ events[s] <= 1
  /\ \A s \in Snapshots : decisions[s] + events[s] > 0 => s \in ever
  /\ \A m \in manifests : m.by # 0 => m.by \in ever

\* Every trial the state has taken in from a batch has its manifest, its
\* decision and its event, unless the journal is still there to say so.
PublishedOrJournaled ==
  \A r \in Canonical(state) :
    r.by \notin {0, journal.by} =>
      /\ decisions[r.by] = 1 /\ events[r.by] = 1
      /\ \E m \in manifests : m.id = r.id /\ m.by = r.by

\* What happened to a committed batch since, results, cancellations, imports,
\* retirement, never makes its journal unrecognisable.
CommittedIsRepairable == journal.by \in committed => Status = "committed"

\* What was committed is published exactly once, or can still be.
PublicationHolds == PublishedOnce /\ PublishedOrJournaled /\ CommittedIsRepairable

\* Recovery never turns the manifest of a finished trial back to pending.
NeverResurrected == [][
  \A r \in state.observed \cap state'.observed :
    AsTerminal(r) \in manifests => AsTerminal(r) \in manifests']_vars

\* The journal of a committed batch is eventually cleared.
RepairCompletes == journal.by \in committed ~> journal.by \notin committed

\* What docs/ax-backend.md says: a preparation that never committed is
\* discarded.  (Within one campaign: a reset that dies half way is not counted.)
UncommittedIsDiscarded ==
  journal # NoJournal /\ journal.by \notin ever /\ resets = 0 /\ cmd.pc = "idle"
    => Status = "prepared"
=============================================================================
