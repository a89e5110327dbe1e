---------------------------- MODULE AxProjection ----------------------------
(***************************************************************************)
(* What Ax knows of a campaign: snapshots of its client, made anew from the*)
(* canonical records with every allocation and by rebuild-optimizer        *)
(* (templates/_shared/optimizer_ax.py, optimizer_ax_worker.py), and what   *)
(* may happen to a campaign between two of them: results, cancellations,   *)
(* imports, other configurations and environments, lost snapshots.         *)
(*                                                                         *)
(* A configuration is [contract, setup, seed]: contract 0 is the legacy    *)
(* backend; a setup stands for the space, objectives, constraints and      *)
(* options, of which [points, tree, repeats] matter: the points of the     *)
(* space, whether only contract 2 can express it, and whether a completed  *)
(* point may be proposed again.  A trial's record is [point, status] and is*)
(* its own signature.  The allocation journal is in module AxAllocation;   *)
(* here an allocation commits in one step.  Optional values are sets of at *)
(* most one element.                                                       *)
(***************************************************************************)
EXTENDS Naturals, SequencesExt

CONSTANTS
  Setups, Seeds,
  Environments, Tested,        \* dependency versions, and those the worker accepts
  MaxAttempts,                 \* max_generation_attempts
  MaxRecords, MaxRebuilds, MaxChanges, MaxLosses   \* bounds

ASSUME EnvironmentAssumption == Tested \subseteq Environments /\ Tested # {}
ASSUME AttemptAssumption == {MaxAttempts, MaxRecords} \subseteq Nat

VARIABLES
  config, environment,   \* what a command finds when it starts
  records,      \* state.pending and state.observations, by trial
  seed,         \* state.meta.seed
  optimizer,    \* state.optimizer, with the content of its snapshot
  intact,       \* whether the snapshot's file can be read
  audit,        \* the optimizer_rebuilt events in the event log
  rebuilds,     \* rebuilds prepared so far: rebuild ids and lineages
  command,      \* what the command that holds the lock has left to do
  changes, losses,
  origin,       \* history: by suggested trial, the configuration it comes from
  committed     \* history: the rebuilds the state has taken in

outside == <<config, environment, changes, losses>>
projectionVars == <<outside, records, seed, optimizer, intact, audit, rebuilds, command,
                    origin, committed>>

Everywhere == UNION {s.points : s \in Setups}
Ids == DOMAIN records
Pending == {id \in Ids : records[id].status = "pending"}

NoClient ==
  [trials |-> <<>>, mapping |-> <<>>, signatures |-> <<>>,
   lineage |-> 0, generation |-> 0, last |-> {}]
Free == [pc |-> "idle", count |-> 0]
Idle == command = Free
Due == UNION {o.due : o \in optimizer}

(* normalize_optimizer_config and validate_ax_capabilities *)
Capable(c) == c.setup.tree => c.contract # 1
Configurations ==
  {c \in [contract : 0..2, setup : Setups, seed : Seeds] : Capable(c)}

ProjectionInit ==
  /\ config \in Configurations /\ environment \in Environments
  /\ records = <<>> /\ seed = {} /\ optimizer = {} /\ intact = TRUE
  /\ audit = <<>> /\ rebuilds = 0 /\ command = Free
  /\ changes = 0 /\ losses = 0 /\ origin = <<>> /\ committed = <<>>

---------------------------------------------------------------------------
\* What a command makes of the configuration.

Seeded == IF seed = {} THEN {config.seed} ELSE seed

(* _fingerprint, configuration_v2 *)
FingerprintOf(contract) == [contract |-> contract, setup |-> config.setup, seed |-> Seeded]
Fingerprint == FingerprintOf(config.contract)

(* assert_backend_matches_state *)
BackendMatches ==
  IF optimizer # {} THEN config.contract # 0
  ELSE config.contract # 0 => Pending = {}

(* require_campaign_format *)
FormatMatches ==
  IF optimizer = {} THEN config.contract = 2 => records = <<>>
  ELSE \A o \in optimizer : (o.format = 2) = (config.contract = 2)

(* validate_v2_context *)
ContextFits ==
  FormatMatches /\ (config.contract = 2 => \A o \in optimizer : o.fingerprint = Fingerprint)

\* inspect_snapshot: what can be read of the last snapshot.
Previous == IF intact THEN UNION {o.snapshot : o \in optimizer} ELSE {}

\* The client to go on with.
Base == IF Previous = {} THEN NoClient ELSE CHOOSE s \in Previous : TRUE

---------------------------------------------------------------------------
\* The worker: run_request and run_request_v2.

\* A mapping and what is added to it.
Merged(f, g) == [x \in DOMAIN f \cup DOMAIN g |-> IF x \in DOMAIN f THEN f[x] ELSE g[x]]

Projectable(base) ==
  /\ DOMAIN base.mapping \subseteq Ids
  /\ \A id \in DOMAIN base.mapping :
       base.signatures[id] = records[id]
         \/ base.signatures[id] = [records[id] EXCEPT !.status = "pending"]

\* A record the client does not have yet is attached, completed trials before
\* pending ones; and every trial is told its outcome once it has one.
Projection(base) ==
  LET known == DOMAIN base.mapping
      new == SetToSeq(Ids \ (Pending \cup known)) \o SetToSeq(Pending \ known)
      Told(i) == IF \E id \in known : base.mapping[id] = i
                 THEN records[CHOOSE id \in known : base.mapping[id] = i] ELSE base.trials[i]
  IN  [trials |-> [i \in DOMAIN base.trials |-> Told(i)] \o [k \in DOMAIN new |-> records[new[k]]],
       mapping |-> Merged(base.mapping,
         [id \in Ids \ known |-> Len(base.trials) + (CHOOSE k \in DOMAIN new : new[k] = id)]),
       signatures |-> records]

\* Mutation: only completed trials keep their points from being proposed again.
Blocked_Completed ==
  IF config.setup.repeats THEN {} ELSE {records[id].point : id \in Ids \ Pending}
Blocked ==
  {records[id].point : id \in IF config.setup.repeats THEN Pending ELSE Ids}

\* A proposal is taken, or abandoned if it is blocked, no point of the space or
\* in the batch already.
Taken(shots) ==
  {i \in DOMAIN shots : shots[i] \in config.setup.points \ Blocked
                          /\ \A j \in 1..(i - 1) : shots[j] # shots[i]}

\* What Ax may propose: points of its own space, with contract 2 also such that
\* break a rule it does not know of.  Contract 1 counts calls to Ax, not
\* proposals, which allows for a few more abandoned trials in a batch.
Proposals(n) ==
  UNION {[1..k -> IF config.contract = 2 THEN Everywhere ELSE config.setup.points] :
           k \in n..(MaxAttempts * n)}

\* The places of the n proposals that are taken; the last one ends the search.
Fill(places, shots, n) ==
  /\ ToSet(places) = Taken(shots) /\ places[n] = Len(shots)
  /\ \A j, k \in 1..n : j < k => places[j] < places[k]

\* The client with a batch: every proposal is a trial of it, those that are
\* taken get the next trial ids.
Candidates(shots, places) ==
  [k \in DOMAIN places |-> [point |-> shots[places[k]], status |-> "pending"]]
WithBatch(client, shots, places) ==
  [trials |-> client.trials \o
     [i \in DOMAIN shots |->
        [point |-> shots[i], status |-> IF i \in Taken(shots) THEN "pending" ELSE "killed"]],
   mapping |-> Merged(client.mapping,
     [id \in Len(records) + 1..Len(records) + Len(places) |->
        Len(client.trials) + places[id - Len(records)]]),
   signatures |-> records \o Candidates(shots, places)]

(* _encode and the feasibility check of every record *)
RecordsFit == \A id \in Ids : records[id].point \in config.setup.points

(* _check_finite_capacity, check_capacity *)
Room(n) == Cardinality(config.setup.points \ Blocked) >= n

---------------------------------------------------------------------------
\* The controller.

\* state.optimizer and the envelope of the snapshot it points to.
Selected(client, lineage, generation, last, due) ==
  {[format |-> config.contract, fingerprint |-> Fingerprint,
    lineage |-> lineage, generation |-> generation, last |-> last, due |-> due,
    snapshot |-> {[format |-> config.contract, fingerprint |-> Fingerprint,
                   lineage |-> lineage, generation |-> generation, last |-> last,
                   versions |-> environment, trials |-> client.trials,
                   mapping |-> client.mapping, signatures |-> client.signatures]}]}

(* cmd_suggest: a rebuild that was committed is published first. *)
Suggest(n) ==
  /\ Idle /\ BackendMatches /\ Len(records) + n <= MaxRecords
  /\ command' = [pc |-> IF Due = {} THEN "allocate" ELSE "publish", count |-> n]
  /\ UNCHANGED <<outside, records, seed, optimizer, intact, audit, rebuilds, origin, committed>>

Allocated(rows) ==
  /\ records' = records \o rows
  /\ origin' = Merged(origin, [id \in Len(records) + 1..Len(records) + Len(rows) |-> config])
  /\ seed' = Seeded /\ command' = Free
  /\ UNCHANGED <<outside, audit, rebuilds, committed>>

AllocateLegacy ==
  /\ command.pc = "allocate" /\ config.contract = 0
  /\ \E points \in [1..command.count -> config.setup.points] :
       Allocated([i \in 1..command.count |-> [point |-> points[i], status |-> "pending"]])
  /\ UNCHANGED <<optimizer, intact>>

(* _prepare_projection, _prepare_projection_v2: what is asked of a snapshot*)
SnapshotFits ==
  /\ config.contract = 2 => ContextFits
  /\ \A o \in optimizer :
       o.snapshot # {} => \E s \in Previous :
         s.fingerprint = Fingerprint /\ s.versions = environment /\ Projectable(s)

AllocateAx ==
  /\ command.pc = "allocate" /\ config.contract # 0
  /\ SnapshotFits /\ environment \in Tested /\ RecordsFit /\ Room(command.count)
  /\ \E shots \in Proposals(command.count) :
       \E places \in [1..command.count -> DOMAIN shots] :
         /\ Fill(places, shots, command.count)
         /\ Allocated(Candidates(shots, places))
         /\ optimizer' = Selected(WithBatch(Projection(Base), shots, places),
                                  Base.lineage, Base.generation + 1, Base.last, {})
  /\ intact' = TRUE

(* rebuild_optimizer *)
RebuildFits(o) ==
  LET changed == o.fingerprint # Fingerprint
  IN  /\ o.format = 2 => config.contract = 2
      /\ changed =>
           /\ config.contract = 2 /\ Pending = {}
           /\ IF o.format = 1 THEN o.fingerprint = FingerprintOf(1) ELSE Previous # {}
      /\ environment \in Tested /\ RecordsFit

Rebuild ==
  /\ Idle /\ config.contract # 0 /\ Due = {} /\ rebuilds < MaxRebuilds
  /\ \E o \in optimizer :
       /\ RebuildFits(o)
       /\ optimizer' = Selected(Projection(NoClient), rebuilds + 1, 0, {rebuilds + 1},
            {[rebuild |-> rebuilds + 1, lineage |-> rebuilds + 1, generation |-> 0]})
  /\ rebuilds' = rebuilds + 1 /\ committed' = Append(committed, rebuilds')
  /\ intact' = TRUE /\ command' = [pc |-> "publish", count |-> 0]
  /\ UNCHANGED <<outside, records, seed, audit, origin>>

\* A rebuild that finds one to finish does nothing else.
ResumeRebuild ==
  /\ Idle /\ config.contract # 0 /\ Due # {}
  /\ command' = [pc |-> "publish", count |-> 0]
  /\ UNCHANGED <<outside, records, seed, optimizer, intact, audit, rebuilds, origin, committed>>

(* recover_rebuild_event: the event is appended unless the log has it, and *)
(* then taken from the state.                                              *)
DueFits ==
  \A o \in optimizer, e \in Due :
    o.last = {e.rebuild} /\ e.lineage = o.lineage /\ e.generation = o.generation
PublishRebuild ==
  /\ command.pc = "publish" /\ DueFits
  /\ \E e \in Due : audit' = IF e.rebuild \in ToSet(audit) THEN audit
                              ELSE Append(audit, e.rebuild)
  /\ command' = [command EXCEPT !.pc = "clear"]
  /\ UNCHANGED <<outside, records, seed, optimizer, intact, rebuilds, origin, committed>>

ClearRebuild ==
  /\ command.pc = "clear"
  /\ optimizer' = {[o EXCEPT !.due = {}] : o \in optimizer}
  /\ command' = IF command.count = 0 THEN Free ELSE [command EXCEPT !.pc = "allocate"]
  /\ UNCHANGED <<outside, records, seed, intact, audit, rebuilds, origin, committed>>

\* It is refused, fails or dies: what it has not saved yet is lost.
CommandEnds ==
  /\ ~Idle /\ command' = Free
  /\ UNCHANGED <<outside, records, seed, optimizer, intact, audit, rebuilds, origin, committed>>

(* cmd_ingest *)
IngestOutcome(id, status) ==
  /\ Idle /\ ContextFits /\ id \in Pending
  /\ records' = [records EXCEPT ![id].status = status]
  /\ UNCHANGED <<outside, seed, optimizer, intact, audit, rebuilds, command, origin, committed>>

(* cmd_cancel, cmd_retire and the retirement that suggest saves by itself *)
CancelTrial(id) ==
  /\ Idle /\ id \in Pending
  /\ records' = [records EXCEPT ![id].status = "killed"]
  /\ UNCHANGED <<outside, seed, optimizer, intact, audit, rebuilds, command, origin, committed>>

(* cmd_import_observations with initialize_measurement_state *)
Uninitialized ==
  [format |-> 2, fingerprint |-> Fingerprint, lineage |-> 0, generation |-> 0,
   last |-> {}, due |-> {}, snapshot |-> {}]
ImportOutcome(point) ==
  /\ Idle /\ ContextFits /\ Len(records) < MaxRecords
  /\ records' = Append(records, [point |-> point, status |-> "ok"])
  /\ seed' = IF config.contract = 2 THEN Seeded ELSE seed
  /\ optimizer' = IF config.contract = 2 /\ optimizer = {} THEN {Uninitialized} ELSE optimizer
  /\ UNCHANGED <<outside, intact, audit, rebuilds, command, origin, committed>>

\* What others do to the campaign.
Configure(c) ==
  /\ Idle /\ changes < MaxChanges /\ changes' = changes + 1
  /\ config' = c /\ c # config
  /\ UNCHANGED <<environment, losses, records, seed, optimizer, intact, audit, rebuilds,
                 command, origin, committed>>
Install(e) ==
  /\ Idle /\ changes < MaxChanges /\ changes' = changes + 1
  /\ environment' = e /\ e # environment
  /\ UNCHANGED <<config, losses, records, seed, optimizer, intact, audit, rebuilds,
                 command, origin, committed>>
LoseSnapshot ==
  /\ Idle /\ losses < MaxLosses /\ losses' = losses + 1
  /\ intact' = FALSE
  /\ UNCHANGED <<config, environment, changes, records, seed, optimizer, audit, rebuilds,
                 command, origin, committed>>

ProjectionNext ==
  \/ \E n \in 1..MaxRecords : Suggest(n)
  \/ AllocateLegacy \/ AllocateAx
  \/ Rebuild \/ ResumeRebuild \/ PublishRebuild \/ ClearRebuild
  \/ CommandEnds
  \/ \E id \in Ids : (\E status \in {"ok", "failed"} : IngestOutcome(id, status)) \/ CancelTrial(id)
  \/ \E point \in config.setup.points : ImportOutcome(point)
  \/ \E c \in Configurations : Configure(c)
  \/ \E e \in Environments : Install(e)
  \/ LoseSnapshot

---------------------------------------------------------------------------
Snapshot == UNION {o.snapshot : o \in optimizer}

\* Every trial of the campaign is one trial of the client, at the same point and
\* with the same outcome or none yet, and no other trial of the client is open.
ClientFollows == \A s \in Snapshot :
  /\ Projectable(s)
  /\ IsInjective(s.mapping)
  /\ \A id \in DOMAIN s.mapping : s.trials[s.mapping[id]] = s.signatures[id]
  /\ \A i \in DOMAIN s.trials :
       s.trials[i].status = "pending" => \E id \in DOMAIN s.mapping : s.mapping[id] = i

\* Ax never has two workers evaluate one point, nor one again that is done,
\* unless that is asked for.
WorkIsDistinct ==
  \A id \in DOMAIN origin : origin[id].contract # 0 => \A other \in 1..(id - 1) :
    /\ {id, other} \subseteq Pending => records[id].point # records[other].point
    /\ ~origin[id].setup.repeats => records[id].point # records[other].point

\* Whatever happened to snapshot and environment, a suggestion's result is taken
\* in under the configuration it was made with.
WorkIsDeliverable ==
  \A id \in Pending : \A o \in optimizer :
    /\ o.format = origin[id].contract
    /\ o.format = 2 => o.fingerprint.setup = origin[id].setup

\* The metadata in the state describe the snapshot, lost or not, and a record
\* outside the space can only be one imported with contract 1, which does not
\* look at what the campaign's space was.
StateDescribesSnapshot ==
  \A o \in optimizer :
    /\ \A s \in o.snapshot :
         \A field \in {"format", "fingerprint", "lineage", "generation", "last"} :
           o[field] = s[field]
    /\ \A id \in Ids : records[id].point \notin o.fingerprint.setup.points =>
         o.format = 1 /\ id \notin DOMAIN origin

\* Each rebuild is in the event log once, or is about to be, and a lineage is
\* only ever replaced by a rebuild.
RebuildsAreAudited ==
  /\ audit \o SetToSeq({e.rebuild : e \in Due} \ ToSet(audit)) = committed
  /\ DueFits
  /\ \A o \in optimizer : o.lineage = IF committed = <<>> THEN 0 ELSE Last(committed)

\* optimizer_ax.py, optimizer_ax_worker.py: across results, imports, rebuilds,
\* lost snapshots and other configurations Ax's view stays that of the campaign.
OptimizerFollows ==
  /\ ClientFollows /\ WorkIsDistinct /\ WorkIsDeliverable
  /\ StateDescribesSnapshot /\ RebuildsAreAudited
=============================================================================
