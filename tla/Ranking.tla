------------------------------ MODULE Ranking ------------------------------
(***************************************************************************)
(* Which trial is best (templates/_shared/objectives.py, update_best and   *)
(* the report of templates/bo_client/run_bo.py) as results come in.        *)
(*                                                                         *)
(* A schema is [directions, policy, weights, reference, bound]: one        *)
(* direction, weight and reference value per objective, and the measured   *)
(* outcome constraint "measure <= bound" of contract 2.  Weights are not   *)
(* divided by their sum: that changes no order.  An observation is         *)
(* [id, status, values, measure]; an ok one has its measurement.           *)
(***************************************************************************)
EXTENDS Integers, FiniteSets, SequencesExt

CONSTANTS
  Schemas,      \* objective schemas tried
  Values,       \* what an objective may come to
  MaxReports    \* bound: observations

ASSUME ReportAssumption == Values \subseteq Int /\ MaxReports \in Nat
ASSUME SchemaAssumption ==
  \A s \in Schemas :
    /\ DOMAIN s = {"directions", "policy", "weights", "reference", "bound"}
    /\ s.directions \in Seq({"minimize", "maximize"}) /\ s.directions # <<>>
    /\ s.policy \in {"primary_only", "lexicographic", "weighted_sum", "weighted_tchebycheff"}
    /\ s.weights \in [DOMAIN s.directions -> Nat]
    /\ s.reference \in [DOMAIN s.directions -> Int] /\ s.bound \in Int

VARIABLES
  schema,    \* objective_schema.json
  rows,      \* state.observations
  best       \* state.best: [id, value], or NoBest

rankingVars == <<schema, rows, best>>

NoBest == [id |-> 0, value |-> 0]

Objectives == DOMAIN schema.directions

(* _transformed_value, lexicographic_key: smaller is better *)
Toward(v, k) == IF schema.directions[k] = "minimize" THEN v ELSE -v
LexKey(row) == [k \in Objectives |-> Toward(row.values[k], k)]

(* scalarize_objectives *)
Weighted == {"weighted_sum", "weighted_tchebycheff"}

Distance(row, k) ==
  LET gap == LexKey(row)[k] - Toward(schema.reference[k], k)
  IN  schema.weights[k] * (IF gap < 0 THEN -gap ELSE gap)

Scalar(row) ==
  CASE schema.policy \in {"primary_only", "lexicographic"} -> row.values[1]
    [] schema.policy = "weighted_sum" ->
         FoldFunction(+, 0, [k \in Objectives |-> schema.weights[k] * LexKey(row)[k]])
    [] schema.policy = "weighted_tchebycheff" ->
         Max({Distance(row, k) : k \in Objectives})

\* Mutation: equal scalars are told apart by the trial id alone.
RankKey_Scalar(row) ==
  <<IF schema.policy \in Weighted THEN Scalar(row) ELSE Toward(Scalar(row), 1), row.id>>

(* best_rank_key and scalarized_direction: the scalar, the objectives in   *)
(* their order, the trial id.                                              *)
RankKey(row) ==
  <<IF schema.policy \in Weighted THEN Scalar(row) ELSE Toward(Scalar(row), 1)>>
    \o LexKey(row) \o <<row.id>>

(* The order of Python's tuples. *)
Before(a, b) ==
  \E i \in DOMAIN a : a[i] < b[i] /\ \A j \in 1..i - 1 : a[j] = b[j]

Winner(set) == CHOOSE r \in set : \A s \in set \ {r} : Before(RankKey(r), RankKey(s))

(* _dominates *)
Dominates(r, s) ==
  /\ \A k \in Objectives : LexKey(r)[k] <= LexKey(s)[k]
  /\ \E k \in Objectives : LexKey(r)[k] < LexKey(s)[k]

(* pareto_front_records, in the order of the ranks *)
NonDominated(set) == {r \in set : ~\E s \in set \ {r} : Dominates(s, r)}
Earlier(set, r) == {s \in set : Before(RankKey(s), RankKey(r))}

\* Each place goes to the one that has as many before it as there are places.
ParetoFront(set) ==
  LET front == NonDominated(set)
  IN  [i \in 1..Cardinality(front) |->
         CHOOSE r \in front : Cardinality(Earlier(front, r)) = i - 1]

(* feasible_hypervolume: the boxes between a point and the reference, one  *)
(* dimension after the other, in slabs between the levels of the last one. *)
Box(row) == [k \in Objectives |-> Toward(schema.reference[k], k) - LexKey(row)[k]]

Highest(set) == Max({0} \cup set)
Levels(boxes, d) == {b[d] : b \in boxes}
Slab(levels, upper) == upper - Highest({v \in levels : v < upper})

Union(boxes, dimensions) ==
  LET volume[p \in (1..dimensions) \X SUBSET [1..dimensions -> Nat]] ==
        LET d == p[1]
            part == p[2]
        IN  IF d = 1 THEN Highest(Levels(part, 1))
            ELSE FoldFunction(+, 0, [upper \in Levels(part, d) |->
                   Slab(Levels(part, d), upper) * volume[<<d - 1, {b \in part : b[d] >= upper}>>]])
  IN  volume[<<dimensions, boxes>>]

Hypervolume(set) ==
  Union({b \in {Box(r) : r \in set} : \A k \in Objectives : b[k] > 0}, Len(schema.directions))

(* outcome_summary: an ok trial is feasible if its measurement is in bound *)
Ok == {r \in ToSet(rows) : r.status = "ok"}
Eligible == {r \in Ok : r.measure <= schema.bound}

(* update_best, build_best_record *)
BestOf(observed) ==
  LET ok == {r \in ToSet(observed) : r.status = "ok"}
  IN  IF ok = {} THEN NoBest ELSE [id |-> Winner(ok).id, value |-> Scalar(Winner(ok))]

RankingInit ==
  /\ schema \in Schemas
  /\ rows = <<>> /\ best = NoBest

(* cmd_ingest appends an observation; a failed one has no objectives.      *)
Record(row) ==
  /\ rows' = Append(rows, row)
  /\ best' = BestOf(rows')
  /\ UNCHANGED schema

\* Trials are answered in any order of their ids; a measurement meets its bound
\* exactly or misses it.
OpenIds == 1..MaxReports \ {rows[i].id : i \in DOMAIN rows}

Succeeds == \E id \in OpenIds, v \in [Objectives -> Values],
               m \in {schema.bound, schema.bound + 1} :
  Record([id |-> id, status |-> "ok", values |-> v, measure |-> m])

Fails == \E id \in OpenIds :
  Record([id |-> id, status |-> "failed", values |-> <<>>, measure |-> 0])

RankingNext == Succeeds \/ Fails

---------------------------------------------------------------------------
(* _validate_state_hard_checks, the part about best *)
HardChecks ==
  /\ \A i, j \in DOMAIN rows : rows[i].id = rows[j].id => i = j
  /\ (best = NoBest) = (Ok = {})
  /\ best # NoBest =>
       \E r \in Ok :
         /\ r.id = best.id /\ Scalar(r) = best.value
         /\ \A s \in Ok \ {r} : Before(RankKey(r), RankKey(s))

\* A better value in any objective never ranks a trial lower, except that the
\* Tchebycheff distance also grows beyond the reference point.
Monotone(set) ==
  schema.policy = "weighted_tchebycheff" =>
    \A r \in set, k \in Objectives : LexKey(r)[k] >= Toward(schema.reference[k], k)

\* The front leaves out exactly the trials some other trial makes pointless,
\* and every trial that is left out has its reason on the front.
FrontCovers(set) ==
  \A r \in set :
    r \in ToSet(ParetoFront(set)) \/ \E s \in ToSet(ParetoFront(set)) : Dominates(s, r)

FrontIsMinimal(set) ==
  \A r, s \in ToSet(ParetoFront(set)) : ~Dominates(r, s)

BestHeadsFront(set) ==
  set # {} /\ Monotone(set) => Head(ParetoFront(set)) = Winner(set)

\* The unit cells between some feasible trial and the reference.
Cells(set) ==
  LET Depths == 0..Max({0} \cup UNION {{Box(r)[k] : k \in Objectives} : r \in set}) - 1
  IN  {c \in [Objectives -> Depths] : \E r \in set : \A k \in Objectives : c[k] < Box(r)[k]}

\* objectives.py, run_bo.py: the incumbent passes the validator's own checks
\* after every result; it is the first of the Pareto front wherever the policy
\* is monotone; the front is complete and minimal; and the hypervolume taken
\* over the feasible front is the volume all feasible trials cover.
RankingAgrees ==
  /\ HardChecks
  /\ \A set \in {Ok, Eligible} :
       FrontCovers(set) /\ FrontIsMinimal(set) /\ BestHeadsFront(set)
  /\ Hypervolume(ToSet(ParetoFront(Eligible))) = Cardinality(Cells(Eligible))
=============================================================================
