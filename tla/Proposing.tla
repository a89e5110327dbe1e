----------------------------- MODULE Proposing -----------------------------
(***************************************************************************)
(* What the three templates suggest next, given the results so far:        *)
(* propose of templates/bo_client, bo_client_demo and bo_client_full, with *)
(* the proxy and Gaussian-process surrogates, the acquisition functions    *)
(* and the one recovery of a failed fit.  A suggestion changes nothing     *)
(* here: it is a function of the results (module Ranking) and of the luck  *)
(* of one suggestion, the samples drawn and what becomes of the fit.       *)
(*                                                                         *)
(* Predictions and scores count in steps of 1/Scale of an objective.       *)
(***************************************************************************)
EXTENDS Ranking, SearchSpace

CONSTANTS
  Space,       \* parameter_space.json
  Places,      \* the point each trial was run at
  Policies,    \* bo_config.json: [template, backend, acquisition, initial, minFit, fallback]
  Fortunes,    \* [pool, again, first, second, installed, finite]: two samples, two fits
  Scale,
  Posterior(_, _)   \* external: the Gaussian process, given what it was fitted to

\* Normalised, every parameter has one step: its vector is that of Encode.
ASSUME SpaceAssumption ==
  /\ Space \in Seq(ToSet(Space)) /\ SpaceAccepted(Space) /\ Scale \in Nat \ {0}
  /\ \A p \in ToSet(Space) :
       p.lo \in Int /\ p.hi \in Int /\ (p.type \in Numeric => p.hi = p.lo + 1)

\* bo_client_demo has only the proxy, and only bo_client_full falls back to it.
ASSUME PolicyAssumption ==
  \A policy \in Policies :
    /\ policy.template \in {"bo_client", "bo_client_demo", "bo_client_full"}
    /\ policy.backend \in {"rbf_proxy", "gp"}
    /\ policy.template = "bo_client_demo" => policy.backend = "rbf_proxy"
    /\ policy.fallback => policy.template = "bo_client_full"
    /\ policy.initial \in Int /\ policy.minFit \in Int

(* scalarized_direction *)
Direction == IF schema.policy \in Weighted THEN "minimize" ELSE schema.directions[1]

\* Division that rounds towards zero, and the square root rounded down.
Quotient(n, d) == IF n < 0 THEN -((-n) \div d) ELSE n \div d
SquareRoot(n) == CHOOSE k \in 0..n : k * k <= n /\ n < (k + 1) * (k + 1)

Samples == UNION {ToSet(luck.pool) \cup ToSet(luck.again) : luck \in Fortunes}

\* A sample is a point of the space, as module Sampling has it.
WholePoint(x) ==
  /\ x = [n \in DOMAIN x |-> x[n]] /\ DOMAIN x \subseteq Names(Space)
  /\ \A p \in ToSet(Space) : p.name \in DOMAIN x <=> IsActive(p, x)
  /\ \A n \in DOMAIN x : x[n] \in Declared(Named(Space, n))

ASSUME SampleAssumption ==
  /\ \A x \in Samples : WholePoint(x)
  /\ \A luck \in Fortunes : luck.pool \in Seq(Samples) /\ luck.again \in Seq(Samples)
  /\ 1..MaxReports \subseteq DOMAIN Places

(* normalized_numeric_distance, and the exponential of its square: it      *)
(* halves with every step and is cut off.                                  *)
Squares(u, v) == SumFunction([i \in DOMAIN u |-> (u[i] - v[i]) * (u[i] - v[i])])
Decay(distance) ==
  CASE distance = 0 -> 4 [] distance = 1 -> 2 [] distance = 2 -> 1 [] OTHER -> 0

Weight == [x \in Samples |-> [id \in DOMAIN Places |->
             Decay(Squares(Encode(x, Space), Encode(Places[id], Space)))]]

(* denormalize_numeric_point after normalize_numeric_point *)
Renormalized == [x \in Samples |-> Decode(Encode(x, Space), Space)]

(* predict_rbf_proxy: the mean and the spread of what was seen nearby; the *)
(* less there was, the less certain.                                       *)
Near(x) == SumFunction([r \in Ok |-> Weight[x][r.id]])
Sum == SumFunction([r \in Ok |-> Scalar(r)])
NearSum(x) == SumFunction([r \in Ok |-> Weight[x][r.id] * Scalar(r)])

Square(n) == n * n
Spread(x, mean) ==
  SumFunction([r \in Ok |-> Weight[x][r.id] * Square(Scale * Scalar(r) - mean)]) \div Near(x)

Density(weight) == (Scale * weight) \div (4 * Cardinality(Ok))

Seen(x, mean) ==
  [mean |-> mean,
   std |-> SquareRoot(Max({Spread(x, mean), 1})) + Max({0, Scale - Density(Near(x))})]

Proxy(x) ==
  IF Near(x) = 0
  THEN [mean |-> Quotient(Scale * Sum, Cardinality(Ok)), std |-> Scale]
  ELSE Seen(x, Quotient(Scale * NearSum(x), Near(x)))

\* Mutation: the prediction stays in the frame the process was fitted in.
Gaussian_Fitted(x) ==
  LET sign == IF Direction = "maximize" THEN -1 ELSE 1
  IN  Posterior(x, {<<r.id, sign * Scalar(r)>> : r \in Ok})

(* The process is fitted to minimise: what is maximised is negated, and the*)
(* prediction is negated back.                                             *)
Gaussian(x) ==
  LET sign == IF Direction = "maximize" THEN -1 ELSE 1
      seen == Posterior(x, {<<r.id, sign * Scalar(r)>> : r \in Ok})
  IN  [mean |-> sign * seen.mean, std |-> seen.std]

\* What either surrogate makes of the samples; no prediction is certain.
Predictions == [mean : Int, std : Nat \ {0}]
Views ==
  [proxy |-> [x \in Samples |-> Proxy(x)], process |-> [x \in Samples |-> Gaussian(x)]]

(* fit_with_recovery: one more fit, and only its convergence counts.       *)
Fitted(luck) ==
  CASE luck.first = "ok" -> "default"
    [] luck.first = "unfitted" /\ luck.second = "converged" -> "recovered"
    [] OTHER -> "failed"

Unfit(luck) == ~luck.installed \/ Fitted(luck) = "failed"

(* acquisition_score and acq_score.  The expected improvement of bo_client *)
(* is the certain part of it and a tail that shrinks away from the         *)
(* incumbent; kappa is 3/2 and xi a step.                                  *)
Acquisitions(template) ==
  {"ucb", "ei_proxy"} \cup (IF template = "bo_client" THEN {"ei"} ELSE {})

Gain(p) ==
  IF Direction = "minimize" THEN Scale * best.value - p.mean ELSE p.mean - Scale * best.value

Expected(gain, std) ==
  Max({0, gain}) + (std * std) \div (2 * std + 2 * Max({gain, -gain}))

Score(policy, p) ==
  IF policy.acquisition = "ucb"
  THEN IF Direction = "minimize" THEN -(2 * p.mean - 3 * p.std) ELSE 2 * p.mean + 3 * p.std
  ELSE IF best = NoBest THEN p.std
  ELSE IF policy.template = "bo_client" THEN Expected(Gain(p) - 1, p.std)
  ELSE Scale * Max({0, Gain(p)}) + p.std

---------------------------------------------------------------------------
(* What a call comes to: the decision of a suggestion, the decision a      *)
(* ConstraintSamplingFailure carries, or another exception.                *)
Decision(kind, strategy, backend, reason) ==
  [kind |-> kind, strategy |-> strategy, backend |-> backend, reason |-> reason,
   point |-> {}, predicted |-> {}, recovered |-> FALSE]

Breaks == Decision("raised", "none", "none", "none")

(* _require_feasible_candidates *)
Random(sample, reason) ==
  IF sample = <<>> THEN Decision("infeasible", "initial_random", "none", reason)
  ELSE [Decision("offered", "initial_random", "none", reason) EXCEPT !.point = {Head(sample)}]

(* The first of the highest scores: a stable sort.                         *)
Foremost(scores) ==
  CHOOSE i \in DOMAIN scores : \A j \in DOMAIN scores \ {i} :
    scores[j] < scores[i] \/ (scores[j] = scores[i] /\ i < j)

Leader(policy, pool, view) ==
  pool[Foremost([i \in DOMAIN pool |-> Score(policy, view[pool[i]])])]

Promising(x, backend, view) ==
  [Decision("offered", "surrogate_acquisition", backend, "none") EXCEPT
     !.point = {x}, !.predicted = {view[x]}]

Acquired(policy, pool, backend, view) ==
  IF pool = <<>> THEN Decision("infeasible", "surrogate_acquisition", backend, "none")
  ELSE IF policy.acquisition \notin Acquisitions(policy.template) THEN Breaks
  ELSE Promising(Leader(policy, pool, view), backend, view)

(* propose_with_proxy *)
ByProxy(policy, pool, views) == Acquired(policy, pool, "rbf_proxy", views.proxy)

(* propose_with_gp, propose_with_botorch: the point goes through the       *)
(* normalised vector and back.                                             *)
ByProcess(policy, luck, backend, views) ==
  IF Unfit(luck) \/ (luck.pool # <<>> /\ ~luck.finite) THEN Breaks
  ELSE [Acquired(policy, luck.pool, backend, views.process) EXCEPT
          !.recovered = luck.pool # <<>> /\ Fitted(luck) = "recovered",
          !.point = {Renormalized[x] : x \in @}]

TooFew(policy) == Cardinality(Ok) < Max({2, policy.minFit})

(* propose of bo_client: the pool is drawn before the surrogate is chosen. *)
Ordinary(policy, luck, views) ==
  IF policy.backend = "rbf_proxy" THEN ByProxy(policy, luck.pool, views)
  ELSE IF luck.pool = <<>> THEN Decision("infeasible", "surrogate_acquisition", "gp", "none")
  ELSE IF TooFew(policy) THEN Random(luck.again, "too_few")
  ELSE ByProcess(policy, luck, "gp", views)

(* propose of bo_client_full: whatever goes wrong with the process other   *)
(* than an empty pool, the proxy takes over with a pool of its own if the  *)
(* configuration lets it.                                                  *)
Instead(policy, luck, views, asked) ==
  IF asked.kind = "raised" /\ policy.fallback
  THEN [ByProxy(policy, luck.again, views) EXCEPT
          !.reason = IF luck.again = <<>> THEN "none" ELSE "error"]
  ELSE asked

Full(policy, luck, views) ==
  IF policy.backend = "rbf_proxy" THEN ByProxy(policy, luck.pool, views)
  ELSE IF TooFew(policy) THEN Random(luck.pool, "too_few")
  ELSE Instead(policy, luck, views, ByProcess(policy, luck, "botorch_gp", views))

Proposal(policy, luck, views) ==
  IF Len(rows) < policy.initial THEN Random(luck.pool, "none")
  ELSE IF Ok = {} THEN Random(luck.pool, "no_usable_observations")
  ELSE CASE policy.template = "bo_client" -> Ordinary(policy, luck, views)
         [] policy.template = "bo_client_full" -> Full(policy, luck, views)
         [] OTHER -> ByProxy(policy, luck.pool, views)

---------------------------------------------------------------------------
Better(p, q) == IF Direction = "minimize" THEN p.mean < q.mean - 3 ELSE p.mean > q.mean + 3

\* The proxy predicts nothing better or worse than what was seen.
PredictsWithin(view) == \A x \in Samples :
  /\ \E r \in Ok : Scale * Scalar(r) <= view[x].mean
  /\ \E r \in Ok : view[x].mean <= Scale * Scalar(r)

\* No other sample is predicted clearly better and no less uncertain, unless
\* all that counts is to improve on the incumbent and neither does.
OfferLeads(policy, luck, views, d) ==
  d.kind = "offered" /\ d.strategy = "surrogate_acquisition" =>
    LET view == IF d.backend = "rbf_proxy" THEN views.proxy ELSE views.process
    IN  \A x \in d.point : \A y \in ToSet(IF d.reason = "error" THEN luck.again ELSE luck.pool) :
          ~ /\ Better(view[y], view[x]) /\ view[y].std >= view[x].std
            /\ (policy.acquisition = "ucb" \/ Gain(view[y]) > 3)

\* A prediction comes from a fit that succeeded, the first or the recovery, and
\* the decision says which; and it says why when another backend was used than
\* the configured one, once the initial trials are over.
RecordIsTrue(policy, luck, d) ==
  LET used == IF d.backend \in {"gp", "botorch_gp"} THEN "gp" ELSE d.backend
  IN  d.kind = "offered" =>
        /\ used = "gp" =>
             /\ luck.installed /\ luck.finite /\ Cardinality(Ok) >= Max({2, policy.minFit})
             /\ IF d.recovered THEN luck.first # "ok" /\ luck.second = "converged"
                               ELSE luck.first = "ok"
        /\ (d.reason # "none") <=> (used # policy.backend /\ Len(rows) >= policy.initial)

\* Something is offered unless the samples are empty, the acquisition is unknown
\* or the process fails and nothing may stand in for it; and a sample is.
OfferIsMade(policy, luck, d) ==
  /\ \/ d.kind = "offered"
     \/ {luck.pool, luck.again} \cap {<<>>} # {}
     \/ policy.acquisition \notin Acquisitions(policy.template)
     \/ policy.backend # "rbf_proxy" /\ ~policy.fallback
  /\ d.point \subseteq ToSet(luck.pool) \cup ToSet(luck.again)
=============================================================================
