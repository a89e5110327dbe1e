----------------------------- MODULE Reporting -----------------------------
(***************************************************************************)
(* What becomes of an evaluator's answer: run_one_eval or the Batch job    *)
(* turns it into a result file (client_harness_template), ingest reads the *)
(* file, records it, or holds it against what is recorded                  *)
(* (templates/_shared/contract.py, ax_contract.py, objectives.py).         *)
(*                                                                         *)
(* Optional values are sets of at most one element; maps by metric are     *)
(* functions, and absent and empty maps are one.  A value that is no       *)
(* finite number is NotFinite.  A declaration is objective_schema.json     *)
(* with the contract version and acquisition of bo_config.json.            *)
(***************************************************************************)
EXTENDS Integers, SequencesExt

CONSTANTS
  Declarations,   \* declarations tried
  Answers,        \* what an evaluator may return or raise
  Submissions,    \* results a user may write by hand, apart from the trial id
  Assigned,       \* trials whose suggestions are out
  NotFinite,      \* a value that is no finite number
  Penalty         \* the penalty run_one_eval gives a failure

\* A result as it is read: a record with these fields.
IsResult(r) ==
  r = [id |-> r.id, status |-> r.status, vector |-> r.vector, penalty |-> r.penalty,
       reason |-> r.reason, legacy |-> r.legacy, sems |-> r.sems, measured |-> r.measured,
       msems |-> r.msems, scalarSem |-> r.scalarSem]

\* The penalty is a number, trial ids start at 1, a declaration names an objective and one
\* of the two contract versions, limits are finitely many comparisons with numbers, and
\* "score" stands for a metric of its own.
ASSUME ReportingAssumption ==
  /\ Penalty \in Int \ {NotFinite} /\ Assigned \subseteq Nat \ {0}
  /\ \A d \in Declarations :
       /\ d.names \in Seq(STRING) \ {<<>>} /\ d.version \in {1, 2}
       /\ "score" \notin d.metrics
       /\ IsFiniteSet(d.limits)
       /\ d.limits \subseteq [metric : STRING, op : {"<=", ">="}, bound : Int]
  /\ \A s \in Submissions : IsResult(s)

VARIABLES
  declared,   \* the declaration
  recorded,   \* state.observations, by trial
  result,     \* the result file last written, or NoResult
  told        \* history: by settled trial, the result that settled it

reportingVars == <<declared, recorded, result, told>>

Statuses == {"ok", "failed", "killed", "timeout"}
NoMap == <<>>
Finite(map) == \A n \in DOMAIN map : map[n] # NotFinite
Only(name, value) == [n \in {name} |-> value]
With(map, key, value) == [k \in DOMAIN map \cup {key} |-> IF k = key THEN value ELSE map[k]]
FiniteOption(option) == NotFinite \notin option
Errors(map) == Finite(map) /\ \A n \in DOMAIN map : map[n] >= 0
Measured(r) == {n \in {"sems", "measured", "msems"} : r[n] # NoMap}
  \cup (IF r.scalarSem = {} THEN {} ELSE {"scalarSem"})

---------------------------------------------------------------------------
\* Which declarations a campaign starts with.

WeightedPolicy(d) == d.policy \in {"weighted_sum", "weighted_tchebycheff"}

(* _normalize_scalarization, _normalize_weights, _normalize_reference_point*)
ScalarizationFits(d) ==
  /\ IF WeightedPolicy(d)
     THEN DOMAIN d.weights = ToSet(d.names) /\ \A n \in DOMAIN d.weights : d.weights[n] > 0
     ELSE d.weights = NoMap
  /\ d.reference # NoMap =>
       d.policy = "weighted_tchebycheff" /\ DOMAIN d.reference = ToSet(d.names)

(* normalize_outcome_config *)
Limit(d, metric, op) == {c.bound : c \in {k \in d.limits : k.metric = metric /\ k.op = op}}
OutcomesFit(d) ==
  /\ d.metrics \cap ToSet(d.names) = {}
  /\ \A c \in d.limits : c.metric \in d.metrics
  /\ \A m \in d.metrics : \A low \in Limit(d, m, ">="), high \in Limit(d, m, "<=") : low <= high
  /\ d.pareto # NoMap => DOMAIN d.pareto = ToSet(d.names)

(* normalize_objective_schema *)
DeclarationAccepted(d) ==
  /\ IsInjective(d.names)
  /\ ScalarizationFits(d) /\ OutcomesFit(d)
  /\ d.version = 1 =>
       d.metrics = {} /\ d.pareto = NoMap /\ d.acquisition = "scalar"
  /\ d.acquisition = "pareto" => Len(d.names) > 1 /\ d.pareto # NoMap

---------------------------------------------------------------------------
\* The result file of an evaluation.

Primary == Head(declared.names)

(* _normalize_terminal_reason, of run_one_eval and of the controller *)
TerminalReason(r, status) ==
  CASE status = "ok" -> {}
    [] status # "ok" /\ r.reason # {} -> r.reason
    [] status # "ok" /\ r.reason = {} /\ r.legacy # {} -> r.legacy
    [] OTHER -> {"status"}

CanonicalStatus(status) == IF status \in {"success", "none"} THEN "ok" ELSE status

(* _normalize_eval_output: what it raises for; an "objective" beside the   *)
(* map must be the map's.                                                  *)
VectorFits(a) ==
  a.vector # NoMap =>
    /\ Primary \in DOMAIN a.vector
    /\ a.objective \in {{}, a.vector[Primary]}
    /\ \A n \in DOMAIN a.vector :
         IF CanonicalStatus(a.status) = "ok" THEN a.vector[n] # {} /\ FiniteOption(a.vector[n])
         ELSE a.vector[n] = {}

AnswerFits(a) ==
  /\ a.returns /\ CanonicalStatus(a.status) \in Statuses
  /\ VectorFits(a)
  /\ Errors(a.sems) /\ Finite(a.measured) /\ Errors(a.msems)
  /\ \A v \in a.scalarSem : v # NotFinite /\ v >= 0
  /\ IF CanonicalStatus(a.status) = "ok"
     THEN /\ a.objective # {} \/ a.vector # NoMap
          /\ FiniteOption(a.objective) /\ a.penalty = {}
     ELSE /\ Measured(a) = {} /\ a.objective = {} /\ FiniteOption(a.penalty)

(* evaluate_via_batch, _normalize_remote_result: a Batch job may only hand *)
(* back a status, an objective, a penalty and a reason.                    *)
RemoteFits(a) ==
  /\ a.returns /\ a.status \in Statuses \cup {"none"}
  /\ a.vector = NoMap /\ Measured(a) = {} /\ a.legacy = {}
  /\ AnswerFits(a)

Evaluated(id, a) ==
  LET status == CanonicalStatus(a.status)
  IN  [id |-> id, status |-> status,
       vector |-> IF a.vector # NoMap THEN a.vector ELSE Only(Primary, a.objective),
       penalty |-> IF status # "ok" /\ a.penalty = {} THEN {Penalty} ELSE a.penalty,
       reason |-> TerminalReason(a, status), legacy |-> {},
       sems |-> a.sems, measured |-> a.measured, msems |-> a.msems, scalarSem |-> a.scalarSem]

(* build_failed_payload *)
Failed(id) ==
  [id |-> id, status |-> "failed", vector |-> Only(Primary, {}), penalty |-> {Penalty},
   reason |-> {"exception"}, legacy |-> {},
   sems |-> NoMap, measured |-> NoMap, msems |-> NoMap, scalarSem |-> {}]

(* main of run_one_eval.py; a remote answer that does not fit comes back as*)
(* a failed result with a reason and no penalty, which is then filled in.  *)
ResultOf(id, a, executor) ==
  IF IF executor = "local" THEN AnswerFits(a) ELSE RemoteFits(a)
  THEN Evaluated(id, a) ELSE Failed(id)

---------------------------------------------------------------------------
\* Reading a result.

(* validate_against_schema with ingest_payload.schema.json *)
SchemaAllows(r) ==
  /\ r.id >= 1 /\ r.status \in Statuses \cup {"success", "none"}
  /\ \A n \in {"sems", "msems"} : \A m \in DOMAIN r[n] : r[n][m] >= 0
  /\ \A v \in r.scalarSem : v >= 0

(* _normalize_objectives *)
ObjectivesFit(r, status) ==
  /\ DOMAIN r.vector = ToSet(declared.names)
  /\ IF status = "ok"
     THEN (\A n \in DOMAIN r.vector : r.vector[n] # {} /\ FiniteOption(r.vector[n])) /\ r.penalty = {}
     ELSE (\A n \in DOMAIN r.vector : r.vector[n] = {}) /\ FiniteOption(r.penalty)

(* normalize_measurements *)
MeasurementsFit(r, status) ==
  LET scored == WeightedPolicy(declared) /\ declared.acquisition = "scalar"
  IN  IF declared.version = 1 \/ status # "ok" THEN Measured(r) = {}
      ELSE /\ DOMAIN r.sems \subseteq ToSet(declared.names)
           /\ DOMAIN r.measured = declared.metrics /\ DOMAIN r.msems \subseteq declared.metrics
           /\ Finite(r.sems) /\ Finite(r.measured) /\ Finite(r.msems)
           /\ FiniteOption(r.scalarSem)
           /\ r.scalarSem # {} => scored
           /\ scored /\ r.sems # NoMap => r.scalarSem # {}

(* normalize_ingest_payload: the record a result stands for, if it fits *)
Received(r) ==
  LET status == CanonicalStatus(r.status)
  IN  IF ObjectivesFit(r, status) /\ MeasurementsFit(r, status)
      THEN {[r EXCEPT !.status = status, !.reason = TerminalReason(r, status), !.legacy = {}]}
      ELSE {}

\* Mutation: an absent penalty is read back as the null it is stored as.
Rebuilt_NullPenalty(row) ==
  Received([row EXCEPT !.penalty = IF row.status # "ok" /\ @ = {} THEN {NotFinite} ELSE @])

(* build_observation_contract: the record a stored observation stands for *)
Rebuilt(row) == Received(row)

ErrorOf(map, n) == IF n \in DOMAIN map THEN {map[n]} ELSE {}

\* What the optimizer models: the metrics with a limit, and the objectives or the score.
Limited == {c.metric : c \in declared.limits}
Modeled ==
  Limited \cup IF declared.acquisition = "pareto" THEN ToSet(declared.names) ELSE {"score"}

(* modeled_sems: the errors of what the optimizer models *)
ScoreSem(row) ==
  IF declared.policy = "primary_only" THEN ErrorOf(row.sems, Primary) ELSE row.scalarSem
ModeledSems(row) ==
  [n \in Modeled |->
     IF n \in Limited THEN ErrorOf(row.msems, n)
     ELSE IF declared.acquisition = "pareto" THEN ErrorOf(row.sems, n) ELSE ScoreSem(row)]

(* validate_measurement_coverage, over the whole proposed history *)
Known(row) == {n \in DOMAIN ModeledSems(row) : ModeledSems(row)[n] # {}}
CoverageFits(row) ==
  declared.version = 2 /\ row.status = "ok" =>
    \A t \in DOMAIN recorded : recorded[t].status = "ok" => Known(recorded[t]) = Known(row)

---------------------------------------------------------------------------
NoResult == [id |-> 0]

ReportingInit ==
  /\ declared \in {d \in Declarations : DeclarationAccepted(d)}
  /\ recorded = NoMap /\ told = NoMap /\ result = NoResult

\* A worker evaluates a suggestion it holds, or one it held before.
Evaluate(id, a, executor) ==
  /\ result' = ResultOf(id, a, executor)
  /\ UNCHANGED <<declared, recorded, told>>

Write(id, submission) ==
  /\ result' = [submission EXCEPT !.id = id]
  /\ UNCHANGED <<declared, recorded, told>>

Records(row) ==
  /\ recorded' = With(recorded, row.id, row)
  /\ UNCHANGED declared

(* cmd_ingest of a pending trial *)
Ingestible(r) ==
  /\ r.id \notin DOMAIN recorded
  /\ SchemaAllows(r) /\ Received(r) # {}
  /\ \A row \in Received(r) : CoverageFits(row)

IngestResult ==
  /\ result # NoResult /\ Ingestible(result)
  /\ \E row \in Received(result) : Records(row)
  /\ told' = With(told, result.id, result)
  /\ UNCHANGED result

(* cmd_ingest of a settled trial: the result changes nothing, and is taken *)
(* for a repetition or refused as a conflict.                              *)
Repeats(r) ==
  SchemaAllows(r) /\ Received(r) # {} /\ Received(r) = Rebuilt(recorded[r.id])

(* cmd_cancel, cmd_retire, retirement in suggest: _new_terminal_observation*)
Withdraw(id) ==
  /\ id \notin DOMAIN recorded
  /\ Records([Failed(id) EXCEPT
                !.status = "killed", !.penalty = {}, !.reason = {"canceled"},
                !.vector = [n \in ToSet(declared.names) |-> {}]])
  /\ UNCHANGED <<result, told>>

ReportingNext ==
  \/ \E id \in Assigned :
       \/ \E a \in Answers, executor \in {"local", "aws-batch"} : Evaluate(id, a, executor)
       \/ \E s \in Submissions : Write(id, s)
       \/ Withdraw(id)
  \/ IngestResult

---------------------------------------------------------------------------
(* project_metrics: what the optimizer is told of a success, a mean and an *)
(* error of each metric; the score stands for scalarize_objectives.        *)
Projected(row) ==
  [n \in Modeled |->
     IF n \in Limited
     THEN [mean |-> ErrorOf(row.measured, n), sem |-> ErrorOf(row.msems, n)]
     ELSE IF declared.acquisition = "pareto"
     THEN [mean |-> row.vector[n], sem |-> ErrorOf(row.sems, n)]
     ELSE [mean |-> row.vector[Primary], sem |-> ScoreSem(row)]]

Successes == {t \in DOMAIN recorded : recorded[t].status = "ok"}

\* A success has all its values and no penalty, any other outcome neither
\* values nor measurements.
OutcomesAreClean ==
  \A t \in DOMAIN recorded :
    LET row == recorded[t]
        Given(n) == row.vector[n] # {} /\ FiniteOption(row.vector[n])
    IN  /\ DOMAIN row.vector = ToSet(declared.names)
        /\ t \in Successes => row.penalty = {} /\ \A n \in DOMAIN row.vector : Given(n)
        /\ t \notin Successes =>
             Measured(row) = {} /\ \A n \in DOMAIN row.vector : row.vector[n] = {}

\* Whatever is modelled has a mean in every success, and an error in all or none.
ModelIsFed ==
  \A t, u \in Successes :
    \A n \in DOMAIN Projected(recorded[t]) :
      LET one == Projected(recorded[t])[n]   other == Projected(recorded[u])[n]
      IN  one.mean # {} /\ FiniteOption(one.mean) /\ ((one.sem = {}) = (other.sem = {}))

SameMeaning(r, row) ==
  /\ CanonicalStatus(r.status) = row.status /\ r.vector = row.vector /\ r.penalty = row.penalty
  /\ \A field \in {"sems", "measured", "msems", "scalarSem"} : r[field] = row[field]

\* The result that settled a trial can be sent again at any time, and a result
\* that says something else is never taken for it.
RepetitionsAreKnown ==
  /\ \A t \in DOMAIN told : Repeats(told[t])
  /\ result # NoResult /\ result.id \in DOMAIN recorded /\ Repeats(result) =>
       SameMeaning(result, recorded[result.id])

\* A failure is taken in whatever raised it; only with several objectives does
\* run_one_eval write a failure of its own that ingest refuses.
FailuresReach ==
  \A id \in Assigned \ DOMAIN recorded, a \in Answers, executor \in {"local", "aws-batch"} :
    LET r == ResultOf(id, a, executor)
    IN  r.status # "ok" => (Ingestible(r) = (DOMAIN r.vector = ToSet(declared.names)))

\* A declaration that is accepted can be met.
LimitsCanBeMet ==
  \A m \in declared.metrics : \E v \in {c.bound : c \in declared.limits} \cup {0} :
    \A c \in declared.limits :
      c.metric = m => IF c.op = "<=" THEN v <= c.bound ELSE v >= c.bound

\* run_one_eval.py, contract.py, ax_contract.py: from the evaluator's answer to
\* the optimizer's data no outcome is lost, changed or counted as another.
ReportsSettle ==
  OutcomesAreClean /\ ModelIsFed /\ RepetitionsAreKnown /\ FailuresReach /\ LimitsCanBeMet
=============================================================================
