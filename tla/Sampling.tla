------------------------------ MODULE Sampling ------------------------------
(***************************************************************************)
(* One suggestion of the random backend, from the contracts to the ingested*)
(* answer (templates/bo_client/run_bo.py): the space and its constraints   *)
(* are validated, points are drawn parameter by parameter in the tightened *)
(* ranges and kept if they are feasible, until there are enough or the     *)
(* attempts are used up; an evaluator reports a kept point back, possibly  *)
(* with the parameters that do not apply filled in as well.                *)
(***************************************************************************)
EXTENDS Constraints

CONSTANTS
  Contracts,   \* the contracts tried: [params, rules, target]
  PoolSize     \* candidate_pool_size of bo_config.json

ASSUME PoolAssumption == PoolSize \in Nat \ {0}
ASSUME DeclarationAssumption ==
  \A c \in Contracts :
    /\ c.params \in Seq(ToSet(c.params)) /\ c.rules \in Seq(ToSet(c.rules))
    /\ c.target \in Nat \ {0}
    /\ \A p \in ToSet(c.params) :
         p \in [name : STRING, type : STRING, lo : Int, hi : Int, when : {p.when}]
    /\ \A r \in ToSet(c.rules) : r.kind \in {"bound", "linear", "forbidden"}
    /\ \A r \in BoundRules(c.rules) :
         IsFiniteSet(r.min \cup r.max) /\ r.min \cup r.max \subseteq Int
    /\ \A r \in {s \in ToSet(c.rules) : s.kind = "linear"} :
         r.terms \in [DOMAIN r.terms -> Int] /\ r.rhs \in Int

VARIABLES
  contract,    \* parameter_space.json, constraints.json and the points asked for
  stage,       \* how far the suggestion is
  point,       \* the point being drawn
  drawn,       \* how many parameters were visited for it
  candidates,  \* the feasible points so far
  attempts,    \* points tried
  rejects,     \* reject_counts: by rule, the points it rejected
  offer        \* the point a worker evaluates

samplingVars == <<contract, stage, point, drawn, candidates, attempts, rejects, offer>>

Params == contract.params
Rules == contract.rules

(* _sampling_attempt_budget *)
Budget == IF Rules = <<>> THEN contract.target
          ELSE Max({contract.target, PoolSize, contract.target * 8})

SamplingInit ==
  /\ contract \in Contracts
  /\ stage = "loading"
  /\ point = NoPoint /\ drawn = 0 /\ candidates = <<>> /\ attempts = 0
  /\ rejects = [i \in DOMAIN Rules |-> 0] /\ offer = NoPoint

(* normalize_search_space and _load_constraints, or their ValueError *)
Load ==
  /\ stage = "loading"
  /\ stage' = IF SpaceAccepted(Params) /\ RulesAccepted(Rules, Params)
              THEN "drawing" ELSE "invalid"
  /\ UNCHANGED <<contract, point, drawn, candidates, attempts, rejects, offer>>

Visited == OrderedParams(Params)[drawn + 1]

(* rng.randint raises on an empty range, rng.uniform draws between its     *)
(* arguments whichever is larger.                                          *)
Drawable(p) ==
  IF p.type = "float" THEN Min({p.lo, p.hi})..Max({p.lo, p.hi}) ELSE p.lo..p.hi

(* sample_random_point, one parameter *)
Draw ==
  /\ stage = "drawing" /\ drawn < Len(Params)
  /\ LET p == Tightened(Visited, Rules)
     IN  IF ~IsActive(p, point)
         THEN /\ drawn' = drawn + 1
              /\ UNCHANGED <<stage, point>>
         ELSE \/ /\ \E v \in Drawable(p) : point' = WithParam(point, p.name, v)
                 /\ drawn' = drawn + 1
                 /\ stage' = stage
              \/ /\ Drawable(p) = {}
                 /\ stage' = "raised"
                 /\ UNCHANGED <<point, drawn>>
  /\ UNCHANGED <<contract, candidates, attempts, rejects, offer>>

(* sample_feasible_candidates, the end of one attempt *)
Judge ==
  /\ stage = "drawing" /\ drawn = Len(Params)
  /\ attempts' = attempts + 1
  /\ candidates' = IF Feasible(point, Rules) THEN Append(candidates, point) ELSE candidates
  /\ rejects' = [i \in DOMAIN Rules |->
                   rejects[i] + (IF i \in Violations(point, Rules) THEN 1 ELSE 0)]
  /\ stage' = IF Len(candidates') < contract.target /\ attempts' < Budget
              THEN "drawing" ELSE "sampled"
  /\ point' = NoPoint /\ drawn' = 0
  /\ UNCHANGED <<contract, offer>>

(* _require_feasible_candidates: any candidate is enough; the surrogate    *)
(* picks one of them.                                                      *)
Choose ==
  /\ stage = "sampled"
  /\ IF candidates = <<>> THEN stage' = "infeasible" /\ offer' = offer
     ELSE stage' = "pending" /\ offer' \in ToSet(candidates)
  /\ UNCHANGED <<contract, point, drawn, candidates, attempts, rejects>>

Inactive(at) == Names(Params) \ DOMAIN at

\* What an evaluator may report: the offer, and parameters that do not apply.
Payloads(at) ==
  UNION {{[n \in DOMAIN at \cup extra |-> IF n \in DOMAIN at THEN at[n] ELSE fill[n]] :
            fill \in [extra -> UNION {Declared(p) : p \in ToSet(Params)}]} :
          extra \in SUBSET Inactive(at)}

(* cmd_ingest: the payload's parameters and the pending trial's are both   *)
(* canonicalised and must be equal.                                        *)
Ingest ==
  /\ stage = "pending"
  /\ \E payload \in Payloads(offer) :
       /\ point' = payload
       /\ stage' = IF Canonical(payload, Params) = Canonical(offer, Params)
                   THEN "ingested" ELSE "mismatch"
  /\ UNCHANGED <<contract, drawn, candidates, attempts, rejects, offer>>

SamplingNext == Load \/ Draw \/ Judge \/ Choose \/ Ingest

---------------------------------------------------------------------------
\* A rule that gives one side of a range and lies beyond the other side.  It
\* passes validation, and the range it leaves is empty.
Inverts(p) ==
  LET mins == MinsOf(Rules, p.name)
      maxs == MaxsOf(Rules, p.name)
  IN  \/ maxs = {} /\ \E v \in mins : v > p.hi
      \/ mins = {} /\ \E v \in maxs : v < p.lo

\* The campaign's points: the parameters whose controllers are there with a
\* value that calls for them, no other, and in range.
IsPoint(at) ==
  /\ DOMAIN at \subseteq Names(Params)
  /\ \A p \in ToSet(Params) :
       p.name \in DOMAIN at
         <=> \A c \in DOMAIN p.when : c \in DOMAIN at /\ at[c] \in p.when[c]
  /\ \A n \in DOMAIN at : at[n] \in Declared(Named(Params, n)) \/ Inverts(Named(Params, n))

OfferFits ==
  \A i \in DOMAIN candidates :
    /\ IsPoint(candidates[i])
    /\ Feasible(candidates[i], Rules)
    /\ \/ \E p \in ToSet(Params) : Inverts(p)
       \/ Decode(Encode(candidates[i], Params), Params) = candidates[i]

\* The point being drawn never needs a value that tightening cut off: what is
\* left of a range is what the rules about it allow.
TighteningIsExact ==
  stage = "drawing" =>
    \A p \in ToSet(Params) : p.type \in Numeric =>
      \A v \in Declared(p) :
        v \in Declared(Tightened(p, Rules))
          <=> \A r \in BoundRules(Rules) : ~BoundViolated(r, [n \in {p.name} |-> v])

\* A suggestion fails with an exception only for an inverted range, and for
\* want of a feasible point only when each of its attempts broke a rule.
FailuresExplained ==
  /\ stage = "raised" => \E p \in ToSet(Params) : Inverts(p)
  /\ stage \in {"sampled", "infeasible"} =>
       attempts = Len(candidates)
         \/ SumFunction(rejects) >= attempts - Len(candidates)
  /\ stage = "infeasible" => attempts = Budget

\* A worker may fill in the parameters that do not apply (search-space.md:
\* "ingest canonicalization ignores inactive known fields").  That holds as
\* long as no condition hangs on a parameter that is itself conditional.
FillInIgnored ==
  stage = "mismatch" => \E n \in Names(Params) : Depth(Params, n) > 1

\* search_space.py, constraints.py: what a suggestion offers is a point of the
\* space within the rules, nothing feasible is cut off, a failure has its
\* reason and the worker's answer is recognised.
SamplingIsExact ==
  OfferFits /\ TighteningIsExact /\ FailuresExplained /\ FillInIgnored
=============================================================================
