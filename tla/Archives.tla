------------------------------ MODULE Archives ------------------------------
(***************************************************************************)
(* Reset archives: templates/_shared/archives.py and the commands reset,   *)
(* restore and prune-archives of controller_operations.py and run_bo.py.   *)
(*                                                                         *)
(* A reset copies the campaign's artifacts into a fresh directory, writes  *)
(* a manifest of what it copied, and then removes the artifacts.  A        *)
(* restore stages the archived artifacts, backs the live ones up, removes  *)
(* them and copies the staged ones in; if that fails it removes the live   *)
(* ones again and puts the backup back.  All of it goes artifact by        *)
(* artifact, any step may fail with an exception or with the process, and  *)
(* a failed copy or directory removal leaves the artifact torn.            *)
(*                                                                         *)
(* Artifacts are numbered in the order of reset_artifact_paths; content is *)
(* the version of the campaign it was written by, 0 if it is absent.       *)
(***************************************************************************)
EXTENDS Naturals, FiniteSets

CONSTANTS
  N,            \* restorable artifacts
  Directories,  \* the ones among them that are directories: removed file by file
  MaxVersion,   \* bound: commands that change the campaign
  MaxArchives,  \* bound: resets that archive
  MaxClock,     \* bound: clock ticks
  MaxFaults     \* bound: exceptions and crashes

ASSUME BoundAssumption ==
  /\ N \in Nat /\ Directories \subseteq 1..N
  /\ MaxVersion \in Nat /\ MaxArchives \in Nat /\ MaxClock \in Nat /\ MaxFaults \in Nat

VARIABLES
  live,      \* the campaign's artifacts
  archives,  \* state/reset_archives: the archives there, by their number
  op,        \* the command that runs, artifact by artifact
  version,   \* commands that changed the campaign so far
  made,      \* archives made so far
  clock,     \* time.time()
  taken,     \* history: the campaign each archive was made of
  doomed,    \* history: archives a prune has begun to remove
  faults

vars == <<live, archives, op, version, made, clock, taken, doomed, faults>>

Artifacts == 1..N
Torn == MaxVersion + 1
Contents == [Artifacts -> 0..Torn]
Nothing == [a \in Artifacts |-> 0]
Present(c) == {a \in Artifacts : c[a] # 0}

\* An archive: its files, and what its manifest lists and says of its time.
Manifests == {"missing", "invalid", "written"}
Archive == [files: Contents, manifest: Manifests, entries: SUBSET Artifacts, at: 0..MaxClock]

Integrity(x) ==
  CASE x.manifest = "missing" -> "legacy"
    [] x.manifest = "invalid" -> "invalid_manifest"
    [] x.manifest = "written" ->
         IF x.entries \subseteq Present(x.files) THEN "ok" ELSE "missing_files"

\* The entries a restore works on: what the manifest lists or, without one,
\* what is there.
EntriesOf(x) == IF x.manifest = "written" THEN x.entries ELSE Present(x.files)

\* The order of list_reset_archives: by created_at, an unknown one last, then
\* by archive id.
Newer(x, y, i, j) ==
  IF x.manifest = "written" /\ y.manifest = "written"
  THEN x.at > y.at \/ (x.at = y.at /\ i > j)
  ELSE x.manifest = "written" \/ (y.manifest # "written" /\ i > j)

\* Mutation: the newest archives are the ones to go.
Rank_Reversed(i) == Cardinality({j \in DOMAIN archives : Newer(archives[i], archives[j], i, j)})
Rank(i) == Cardinality({j \in DOMAIN archives : Newer(archives[j], archives[i], j, i)})

\* plan_reset_archive_prune: kept by count, by unknown age, by age.
Prunable(rules, keep, age) ==
  {i \in DOMAIN archives :
     /\ "count" \in rules => Rank(i) >= keep
     /\ "age" \in rules => /\ archives[i].manifest = "written"
                           /\ clock - archives[i].at >= age}

-----------------------------------------------------------------------------
(* A command is in one of these phases and has `todo` artifacts (archives,  *)
(* when it prunes) left in it; it takes the lowest first.                   *)

Phases == {"idle", "archive", "seal", "wipe",
           "stage", "backup", "clear", "apply", "undo", "putback", "prune"}

Idle == [phase |-> "idle", todo |-> {}, entries |-> {}, id |-> 0, sound |-> TRUE,
         before |-> Nothing, staging |-> Nothing, backup |-> Nothing]

TypeOK ==
  /\ live \in Contents
  /\ DOMAIN archives \subseteq 1..made /\ \A i \in DOMAIN archives : archives[i] \in Archive
  /\ op.phase \in Phases /\ (op.phase = "idle" => op = Idle)
  /\ op.todo \subseteq (1..N) \cup (1..made)
  /\ op.entries \subseteq Artifacts /\ op.id \in 0..made /\ op.sound \in BOOLEAN
  /\ op.before \in Contents /\ op.staging \in Contents /\ op.backup \in Contents
  /\ version \in 0..MaxVersion /\ made \in 0..MaxArchives /\ clock \in 0..MaxClock
  /\ taken \in [1..made -> Contents] /\ doomed \subseteq 1..made
  /\ faults \in 0..MaxFaults

Init ==
  /\ live = Nothing /\ archives = <<>> /\ op = Idle
  /\ version = 0 /\ made = 0 /\ clock = 0
  /\ taken = <<>> /\ doomed = {} /\ faults = 0

\* Any other command: it rewrites some of the artifacts.
Work ==
  /\ op.phase = "idle" /\ version < MaxVersion
  /\ version' = version + 1
  /\ \E changed \in (SUBSET Artifacts) \ {{}} :
       live' = [a \in Artifacts |-> IF a \in changed THEN version' ELSE live[a]]
  /\ UNCHANGED <<archives, op, made, clock, taken, doomed, faults>>

Tick ==
  /\ clock < MaxClock /\ clock' = clock + 1
  /\ UNCHANGED <<live, archives, op, version, made, taken, doomed, faults>>

Begin(phase, todo, id) ==
  op' = [Idle EXCEPT !.phase = phase, !.todo = todo, !.entries = todo, !.id = id,
                     !.before = live]

\* reset, with an archive: an empty directory first, then the copies.
ResetArchived ==
  /\ op.phase = "idle" /\ made < MaxArchives
  /\ made' = made + 1
  /\ Begin("archive", Present(live), made')
  /\ archives' = [i \in DOMAIN archives \cup {made'} |->
       IF i = made' THEN [files |-> Nothing, manifest |-> "missing", entries |-> {}, at |-> 0]
                    ELSE archives[i]]
  /\ taken' = [i \in 1..made' |-> IF i = made' THEN live ELSE taken[i]]
  /\ UNCHANGED <<live, version, clock, doomed, faults>>

\* reset --no-archive
ResetPlain ==
  /\ op.phase = "idle"
  /\ Begin("wipe", Present(live), 0)
  /\ UNCHANGED <<live, archives, version, made, clock, taken, doomed, faults>>

Restorable(i) ==
  /\ Integrity(archives[i]) \in {"ok", "legacy"}
  /\ EntriesOf(archives[i]) # {}

Restore(i) ==
  /\ op.phase = "idle" /\ Restorable(i)
  /\ Begin("stage", EntriesOf(archives[i]), i)
  /\ UNCHANGED <<live, archives, version, made, clock, taken, doomed, faults>>

Prune(rules, keep, age) ==
  /\ op.phase = "idle"
  /\ op' = [Idle EXCEPT !.phase = "prune", !.todo = Prunable(rules, keep, age),
                        !.before = live]
  /\ doomed' = doomed \cup Prunable(rules, keep, age)
  /\ UNCHANGED <<live, archives, version, made, clock, taken, faults>>

-----------------------------------------------------------------------------
\* Where a phase's step puts an artifact, and what it puts there.
Set(c, a, v) == [c EXCEPT ![a] = v]

Effect(a, v) ==
  CASE op.phase = "archive" ->
         /\ archives' = [archives EXCEPT ![op.id].files[a] = v]
         /\ UNCHANGED live
    [] op.phase \in {"wipe", "clear", "apply", "undo", "putback"} ->
         live' = Set(live, a, v) /\ UNCHANGED archives
    [] OTHER -> UNCHANGED <<live, archives>>

\* Mutation: the rollback copies the staged artifact.
PutBack_Staged(a) == op.staging[a]
\* A live artifact that was not backed up was not there either.
PutBack(a) == IF op.backup[a] = 0 THEN live[a] ELSE op.backup[a]

Value(a) ==
  CASE op.phase = "archive" -> live[a]
    [] op.phase = "stage"   -> archives[op.id].files[a]
    [] op.phase = "backup"  -> live[a]
    [] op.phase = "apply"   -> op.staging[a]
    [] op.phase = "putback" -> PutBack(a)
    [] OTHER                -> 0

\* One artifact: copied, or removed.
Step(a) ==
  /\ op.phase \in Phases \ {"idle", "seal", "prune"}
  /\ a \in op.todo /\ \A b \in op.todo : a <= b
  /\ Effect(a, Value(a))
  /\ op' = [op EXCEPT !.todo = @ \ {a},
              !.staging = IF op.phase = "stage" THEN Set(@, a, Value(a)) ELSE @,
              !.backup = IF op.phase = "backup" THEN Set(@, a, Value(a)) ELSE @]
  /\ UNCHANGED <<version, made, clock, taken, doomed, faults>>

\* One archive is removed: shutil.rmtree.
PruneOne(i) ==
  /\ op.phase = "prune" /\ i \in op.todo /\ \A j \in op.todo : i <= j
  /\ archives' = [j \in DOMAIN archives \ {i} |-> archives[j]]
  /\ op' = [op EXCEPT !.todo = @ \ {i}]
  /\ UNCHANGED <<live, version, made, clock, taken, doomed, faults>>

\* The manifest is written when everything is copied.
Seal ==
  /\ op.phase = "seal"
  /\ archives' = [archives EXCEPT ![op.id].manifest = "written",
                                  ![op.id].entries = op.entries, ![op.id].at = clock]
  /\ op' = [op EXCEPT !.phase = "wipe", !.todo = op.entries]
  /\ UNCHANGED <<live, version, made, clock, taken, doomed, faults>>

\* Mutation: the live artifacts are not backed up.
After_NoBackup ==
  [archive |-> "seal", wipe |-> "idle", stage |-> "clear", backup |-> "clear",
   clear |-> "apply", apply |-> "idle", undo |-> "putback", putback |-> "idle",
   prune |-> "idle"]
\* What follows a phase.
After ==
  [archive |-> "seal", wipe |-> "idle", stage |-> "backup", backup |-> "clear",
   clear |-> "apply", apply |-> "idle", undo |-> "putback", putback |-> "idle",
   prune |-> "idle"]

\* Mutation: the staging and backup directories stay behind.
Proceed_KeepsDirs ==
  /\ op.phase \in DOMAIN After /\ op.todo = {}
  /\ op' = [op EXCEPT !.phase = After[op.phase],
              !.todo = IF After[op.phase] = "idle" THEN {} ELSE op.entries]
  /\ UNCHANGED <<live, archives, version, made, clock, taken, doomed, faults>>

Proceed ==
  /\ op.phase \in DOMAIN After /\ op.todo = {}
  /\ op' = IF After[op.phase] = "idle" THEN Idle
           ELSE [op EXCEPT !.phase = After[op.phase], !.todo = op.entries]
  /\ UNCHANGED <<live, archives, version, made, clock, taken, doomed, faults>>

-----------------------------------------------------------------------------
(* Faults.  A copy that fails leaves its destination torn or untouched, and *)
(* so does the removal of a directory; the file system is what it is when   *)
(* the process dies or the exception is raised.                             *)

CanTear(a) ==
  /\ a \in op.todo /\ \A b \in op.todo : a <= b
  /\ op.phase \in {"archive", "stage", "backup", "apply", "putback"} \/ a \in Directories

\* op as a fault leaves it: a torn copy may be one of the staging or backup.
Torned(a) ==
  CASE op.phase = "stage"  -> [op EXCEPT !.staging = Set(@, a, Torn)]
    [] op.phase = "backup" -> [op EXCEPT !.backup = Set(@, a, Torn)]
    [] OTHER               -> op

Restoring == op.phase \in {"stage", "backup", "clear", "apply"}

\* Where an exception leads: a restore rolls back, everything else gives up.
Raised(o) ==
  IF Restoring THEN [o EXCEPT !.phase = "undo", !.todo = o.entries,
                              !.sound = op.phase \in {"clear", "apply"}]
  ELSE Idle

Fault(after(_)) ==
  /\ op.phase \notin {"idle", "seal", "prune"} /\ faults < MaxFaults /\ faults' = faults + 1
  /\ \/ op' = after(op) /\ UNCHANGED <<live, archives>>
     \/ \E a \in Artifacts : CanTear(a) /\ Effect(a, Torn) /\ op' = after(Torned(a))
  /\ UNCHANGED <<version, made, clock, taken, doomed>>

\* An exception: a full disk, a permission, a vanished file.
Raise == Fault(Raised)

\* The process dies.
Died(o) == Idle
Crash == Fault(Died)

\* The manifest is not written, or only in part.
SealFault ==
  /\ op.phase = "seal" /\ faults < MaxFaults /\ faults' = faults + 1
  /\ \E m \in {"missing", "invalid"} : archives' = [archives EXCEPT ![op.id].manifest = m]
  /\ op' = Idle
  /\ UNCHANGED <<live, version, made, clock, taken, doomed>>

\* rmtree stops half way: any of the archive's files may be gone, and a
\* directory may have lost some of its own.
PruneFault(i) ==
  /\ op.phase = "prune" /\ i \in op.todo /\ \A j \in op.todo : i <= j
  /\ faults < MaxFaults /\ faults' = faults + 1
  /\ \E gone \in SUBSET Artifacts, torn \in SUBSET Directories, m \in BOOLEAN :
       archives' = [archives EXCEPT
         ![i].files = [a \in Artifacts |-> IF a \in gone \/ @[a] = 0 THEN 0
                                           ELSE IF a \in torn THEN Torn ELSE @[a]],
         ![i].manifest = IF m THEN "missing" ELSE @]
  /\ op' = Idle
  /\ UNCHANGED <<live, version, made, clock, taken, doomed>>

Next ==
  \/ Work \/ Tick \/ ResetArchived \/ ResetPlain
  \/ \E i \in DOMAIN archives : Restore(i)
  \/ \E i \in DOMAIN archives : PruneOne(i)
  \/ \E i \in DOMAIN archives : PruneFault(i)
  \/ \E rules \in SUBSET {"count", "age"} \ {{}}, keep \in 0..1, age \in 0..1 :
       Prune(rules, keep, age)
  \/ \E a \in Artifacts : Step(a)
  \/ Seal \/ Proceed \/ Raise \/ Crash \/ SealFault

Spec == Init /\ [][Next]_vars

-----------------------------------------------------------------------------
\* While a reset with an archive or a restore runs, every artifact it found is
\* still there in full: live, in the archive or in the backup.  So whenever the
\* process dies nothing is lost for good, although no command looks for a
\* backup left behind.  `sound`: not rolling back from a failed preparation.
NothingLost ==
  /\ op.phase \in {"archive", "seal", "wipe"} /\ op.id # 0 =>
       \A a \in Artifacts : op.before[a] \in {live[a], archives[op.id].files[a]}
  /\ op.phase = "wipe" /\ op.id # 0 => Integrity(archives[op.id]) = "ok"
  /\ op.phase \in {"stage", "backup", "clear", "apply", "undo", "putback"} /\ op.sound =>
       \A a \in Artifacts : op.before[a] \in {live[a], op.backup[a]}

\* An archive that list-archives reports as ok, and that no prune has begun to
\* remove, holds the whole campaign that was reset.
OkIsWhole ==
  \A i \in DOMAIN archives \ doomed :
    Integrity(archives[i]) = "ok" => archives[i].files = taken[i]

\* There is always a whole copy of the campaign, and `ok` means whole.
CopiesAreWhole == NothingLost /\ OkIsWhole

\* A restore that succeeds has every artifact of the archive in place, and has
\* left alone those the archive does not have.
RestoreInstalls ==
  op.phase = "apply" /\ op.todo = {} =>
    \A a \in Artifacts :
      live[a] = IF a \in op.entries THEN archives[op.id].files[a] ELSE op.before[a]

RolledBack == op.phase = "putback" /\ op.todo = {} => live = op.before

\* A restore that fails once it has begun to replace artifacts, and whose
\* rollback does not fail too, leaves the campaign as it was.
LateFailureRollsBack == op.sound => RolledBack

\* Once it replaces artifacts, a restore ends in one whole campaign or the other.
RestoreIsWhole == RestoreInstalls /\ LateFailureRollsBack

\* What docs/operational-semantics.md says: a failed restore rolls back to the
\* pre-restore runtime state.  (A rollback that fails itself is not counted.)
FailedRestoreRollsBack == RolledBack

\* Among archives whose age is known a prune removes from the oldest on.
PruneTakesOldest == [][
  op.phase = "idle" /\ op'.phase = "prune" =>
    \A i \in op'.todo, j \in DOMAIN archives :
      /\ archives[i].manifest = "written" /\ archives[j].manifest = "written"
      /\ j < i
      => j \in op'.todo]_vars
=============================================================================
