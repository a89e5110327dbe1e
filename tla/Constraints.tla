---------------------------- MODULE Constraints ----------------------------
(***************************************************************************)
(* Hard constraints on parameters (templates/_shared/constraints.py).      *)
(*                                                                         *)
(* A rule is [kind |-> "bound", param, min, max], where min and max are    *)
(* sets of at most one number (empty: the rule leaves the side open),      *)
(* [kind |-> "linear", terms, op, rhs] with coefficients by parameter, or  *)
(* [kind |-> "forbidden", when].  Comparisons have a tolerance of 1e-12 in *)
(* the code, which is below a grid step.                                   *)
(***************************************************************************)
EXTENDS SearchSpace

BoundRules(rules) == {r \in ToSet(rules) : r.kind = "bound"}

(* _normalize_bound_tightening_rule: a minimum is held against the lower   *)
(* bound and a maximum against the upper one, never against the other.     *)
BoundAccepted(r, params) ==
  /\ r.param \in Names(params)
  /\ Named(params, r.param).type \in Numeric
  /\ r.min \cup r.max # {}
  /\ \A v \in r.min : v >= Named(params, r.param).lo
  /\ \A v \in r.max : v <= Named(params, r.param).hi
  /\ \A v \in r.min, w \in r.max : v <= w

(* _normalize_linear_inequality_rule *)
LinearAccepted(r, params) ==
  /\ DOMAIN r.terms # {} /\ DOMAIN r.terms \subseteq Names(params)
  /\ \A n \in DOMAIN r.terms : Named(params, n).type \in Numeric

(* _normalize_forbidden_combination_rule, _normalize_match_object *)
ForbiddenAccepted(r, params) ==
  /\ DOMAIN r.when # {} /\ DOMAIN r.when \subseteq Names(params)
  /\ \A n \in DOMAIN r.when :
       r.when[n] # {} /\ r.when[n] \subseteq Declared(Named(params, n))

MinsOf(rules, n) == UNION {r.min : r \in {b \in BoundRules(rules) : b.param = n}}
MaxsOf(rules, n) == UNION {r.max : r \in {b \in BoundRules(rules) : b.param = n}}

(* _validate_combined_bound_tightening: a parameter with only minima or    *)
(* only maxima is passed over.                                             *)
TighteningAccepted(rules, params) ==
  \A n \in Names(params) :
    \A v \in MinsOf(rules, n), w \in MaxsOf(rules, n) : v <= w

(* normalize_constraints *)
RulesAccepted(rules, params) ==
  /\ \A r \in ToSet(rules) :
       CASE r.kind = "bound"     -> BoundAccepted(r, params)
         [] r.kind = "linear"    -> LinearAccepted(r, params)
         [] r.kind = "forbidden" -> ForbiddenAccepted(r, params)
  /\ TighteningAccepted(rules, params)

(* apply_bound_tightening *)
Tightened(p, rules) ==
  IF p.type \notin Numeric THEN p
  ELSE LET mins == MinsOf(rules, p.name)
           maxs == MaxsOf(rules, p.name)
       IN  [p EXCEPT !.lo = IF mins = {} THEN @ ELSE Max(mins),
                     !.hi = IF maxs = {} THEN @ ELSE Min(maxs)]

(* _evaluate_bound_tightening, _evaluate_linear_inequalities and           *)
(* _evaluate_forbidden_combinations: a rule about a parameter the point    *)
(* does not have is not violated.                                          *)
BoundViolated(r, point) ==
  /\ r.param \in DOMAIN point
  /\ \/ \E v \in r.min : point[r.param] < v
     \/ \E v \in r.max : point[r.param] > v

LinearViolated(r, point) ==
  /\ DOMAIN r.terms \subseteq DOMAIN point
  /\ LET lhs == SumFunction([n \in DOMAIN r.terms |-> r.terms[n] * point[n]])
     IN  IF r.op = "<=" THEN lhs > r.rhs ELSE lhs < r.rhs

ForbiddenViolated(r, point) ==
  \A n \in DOMAIN r.when : n \in DOMAIN point /\ point[n] \in r.when[n]

Violated(r, point) ==
  CASE r.kind = "bound"     -> BoundViolated(r, point)
    [] r.kind = "linear"    -> LinearViolated(r, point)
    [] r.kind = "forbidden" -> ForbiddenViolated(r, point)

(* evaluate_constraints, summarize_reject_counts *)
Violations(point, rules) == {i \in DOMAIN rules : Violated(rules[i], point)}
Feasible(point, rules) == Violations(point, rules) = {}
=============================================================================
