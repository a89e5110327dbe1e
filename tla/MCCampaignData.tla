--------------------------- MODULE MCCampaignData ---------------------------
EXTENDS CampaignData

CONSTANTS a, b

Param(name, type, low, high) ==
  [name |-> name, type |-> type, lo |-> low, hi |-> high, when |-> <<>>]
When(p, c, values) == [p EXCEPT !.when = c :> values]

AtLeast(n, v) == [kind |-> "bound", param |-> n, min |-> {v}, max |-> {}]
AtMost(n, v) == [kind |-> "bound", param |-> n, min |-> {}, max |-> {v}]
Linear(terms, op, rhs) == [kind |-> "linear", terms |-> terms, op |-> op, rhs |-> rhs]
Forbid(when) == [kind |-> "forbidden", when |-> when]

\* A condition on a conditional parameter, listed before what it depends on.
Chain == <<When(Param("leaf", "float", 0, 2), "middle", {1}),
           When(Param("middle", "int", 0, 1), "root", {1, 3}),
           Param("root", "categorical", 1, 3)>>
Flat == <<When(Param("step", "int", 1, 2), "flag", {1}),
          Param("flag", "bool", 0, 1), Param("rate", "float", 0, 2)>>
Pair == <<Param("x", "int", 0, 3), Param("y", "float", 0, 2)>>
\* A tree with a branch below a branch.
Tree == <<When(Param("deep", "int", 0, 1), "flag", {1}),
          Param("kind", "categorical", 1, 2), When(Param("flag", "bool", 0, 1), "kind", {1}),
          When(Param("pick", "categorical", 1, 2), "kind", {2}),
          Param("fixed", "int", 2, 2), Param("free", "int", 0, 1)>>
Cycle == <<When(Param("x", "int", 0, 1), "y", {1}),
           When(Param("y", "int", 0, 1), "x", {1})>>

MCContracts ==
  {[params |-> Chain, rules |-> <<>>, target |-> 1],
   [params |-> Chain, target |-> 1,
    rules |-> <<Forbid("root" :> {1} @@ "middle" :> {0}), AtMost("leaf", 1)>>],
   [params |-> Flat, rules |-> <<Forbid("flag" :> {1} @@ "step" :> {2})>>, target |-> 1],
   [params |-> Flat, rules |-> <<>>, target |-> 2],
   [params |-> Pair, target |-> 1,
    rules |-> <<AtLeast("x", 1), AtLeast("x", 2), AtMost("y", 1),
                Linear("x" :> 1 @@ "y" :> 2, "<=", 4)>>],
   [params |-> Pair, target |-> 1,
    rules |-> <<Linear("x" :> 1 @@ "y" :> -1, ">=", 2), AtMost("x", 2)>>],
   [params |-> Pair, rules |-> <<Linear("x" :> 1, ">=", 4)>>, target |-> 1],
   [params |-> Pair, rules |-> <<AtMost("x", -1)>>, target |-> 1],
   [params |-> Pair, rules |-> <<AtLeast("y", 3)>>, target |-> 1],
   [params |-> Pair, rules |-> <<AtLeast("x", 2), AtMost("x", 1)>>, target |-> 1],
   [params |-> Tree, target |-> 1,
    rules |-> <<Forbid("kind" :> {1} @@ "flag" :> {0}), Forbid("pick" :> {1} @@ "free" :> {1}),
                Forbid("deep" :> {0} @@ "free" :> {1}),
                Linear("fixed" :> 1 @@ "free" :> -1, ">=", 1)>>],
   [params |-> Tree, target |-> 1,
    rules |-> <<Forbid("kind" :> {1}), Forbid("pick" :> {1}), Forbid("free" :> {0}),
                AtLeast("deep", 1), Linear("free" :> 1, ">=", 0)>>],
   [params |-> Cycle, rules |-> <<>>, target |-> 1],
   [params |-> Pair \o Pair, rules |-> <<>>, target |-> 1]}

MCValues == {0, 1, 3}

Schema(directions, policy, weights, reference) ==
  [directions |-> directions, policy |-> policy, weights |-> weights,
   reference |-> reference, bound |-> 1]

MCSchemas ==
  {Schema(<<"maximize">>, "primary_only", <<1>>, <<-1>>),
   Schema(<<"minimize", "maximize">>, "lexicographic", <<1, 1>>, <<2, 0>>),
   Schema(<<"minimize", "maximize">>, "weighted_sum", <<2, 1>>, <<4, 0>>),
   Schema(<<"minimize", "minimize">>, "weighted_tchebycheff", <<1, 2>>, <<1, 0>>)}

MCSpace == <<When(Param("size", "int", 0, 1), "kind", {1}), Param("kind", "categorical", 1, 2),
             Param("flag", "bool", 0, 1)>>
At(kind, flag) == "kind" :> kind @@ "flag" :> flag
Sized(size, flag) == "kind" :> 1 @@ "flag" :> flag @@ "size" :> size
MCPlaces == <<Sized(0, 0), Sized(1, 1), At(2, 0)>>

Policy(template, backend, acquisition, initial, minFit, fallback) ==
  [template |-> template, backend |-> backend, acquisition |-> acquisition,
   initial |-> initial, minFit |-> minFit, fallback |-> fallback]
MCPolicies ==
  {Policy("bo_client_demo", "rbf_proxy", "ei_proxy", 1, 0, FALSE),
   Policy("bo_client", "rbf_proxy", "ucb", 2, 0, FALSE),
   Policy("bo_client", "rbf_proxy", "ei", 0, 0, FALSE),
   Policy("bo_client", "gp", "ei", 1, 1, FALSE), Policy("bo_client", "gp", "ucb", 1, 3, FALSE),
   Policy("bo_client_full", "rbf_proxy", "ucb", 1, 0, TRUE),
   Policy("bo_client_full", "gp", "ei_proxy", 1, 2, TRUE),
   Policy("bo_client_full", "gp", "ucb", 1, 2, FALSE),
   Policy("bo_client_full", "gp", "ei", 1, 2, TRUE)}

Fit(first, second, installed, finite) ==
  [first |-> first, second |-> second, installed |-> installed, finite |-> finite]
MCFortunes ==
  {fit @@ [pool |-> pool, again |-> again] :
     fit \in {Fit("ok", "limit", TRUE, TRUE), Fit("ok", "limit", FALSE, TRUE),
              Fit("ok", "limit", TRUE, FALSE), Fit("unfitted", "converged", TRUE, TRUE),
              Fit("unfitted", "limit", TRUE, TRUE), Fit("unknown", "converged", TRUE, TRUE)},
     pool \in {<<>>, <<Sized(1, 0), At(2, 1), Sized(0, 1)>>},
     again \in {<<>>, <<At(2, 0), Sized(1, 1)>>}}

\* Drawn towards the value 1 the less was seen nearby, so not the same for an
\* objective and for its negative.
MCPosterior(x, seen) ==
  LET weight == MapThenSumSet(LAMBDA s : Weight[x][s[1]], seen)
      sum == MapThenSumSet(LAMBDA s : Weight[x][s[1]] * s[2], seen)
  IN  [mean |-> (Scale * (sum + 1)) \div (weight + 1), std |-> (4 * Scale) \div (4 + weight)]

MCContract == a :> 1 @@ b :> 2
MCOptions == {Number("1"), Text("1"), Blank}

Written(choice, status, value, penalty) ==
  [id |-> {7}, sourceField |-> FALSE, source |-> {}, choice |-> choice, run |-> 0,
   dropped |-> FALSE,
   outcome |-> [status |-> status, value |-> value, penalty |-> penalty, reason |-> {}]]

MCHandwritten ==
  {Written(Text("1"), "failed", {}, {}),
   Written(Text("1"), "ok", {1}, {1}),
   Written(Text("2"), "ok", {1}, {}),
   [Written(Text("1"), "ok", {1}, {}) EXCEPT !.sourceField = TRUE, !.source = {3}]}

Answer ==
  [returns |-> TRUE, status |-> "none", objective |-> {}, vector |-> NoMap, penalty |-> {},
   reason |-> {}, legacy |-> {},
   sems |-> NoMap, measured |-> NoMap, msems |-> NoMap, scalarSem |-> {}]
Value(v) == [Answer EXCEPT !.objective = {v}]
Ends(status) == [Answer EXCEPT !.status = status]
Both == [Answer EXCEPT !.vector = "f" :> {1} @@ "g" :> {2}]

MCAnswers ==
  {[Answer EXCEPT !.returns = FALSE],
   Value(1), Value(NotFinite), Ends("failed"), Ends("odd"),
   [Ends("timeout") EXCEPT !.penalty = {5}, !.legacy = {"late"}],
   [Ends("failed") EXCEPT !.objective = {1}],
   [Value(1) EXCEPT !.penalty = {5}],
   [Value(1) EXCEPT !.sems = "f" :> 0],
   [Value(1) EXCEPT !.sems = "f" :> -1],
   [Value(2) EXCEPT !.measured = "m" :> 1, !.msems = "m" :> 1],
   Both, [Both EXCEPT !.objective = {2}],
   [Ends("failed") EXCEPT !.vector = "f" :> {} @@ "g" :> {}],
   [Both EXCEPT !.measured = "m" :> 1],
   [Both EXCEPT !.measured = "m" :> 1, !.sems = "f" :> 1],
   [Both EXCEPT !.measured = "m" :> 1, !.sems = "f" :> 1, !.scalarSem = {1}]}

One ==
  [names |-> <<"f">>, policy |-> "primary_only", weights |-> NoMap, reference |-> NoMap,
   metrics |-> {}, limits |-> {}, pareto |-> NoMap, version |-> 1, acquisition |-> "scalar"]
Two == [One EXCEPT !.names = <<"f", "g">>, !.policy = "weighted_sum",
                   !.weights = "f" :> 1 @@ "g" :> 2]
LimitOn(m, op, v) == [metric |-> m, op |-> op, bound |-> v]
Measuring(d, limits) == [d EXCEPT !.version = 2, !.metrics = {"m"}, !.limits = limits]

MCDeclarations ==
  {One, Two, [One EXCEPT !.version = 2],
   Measuring(One, {LimitOn("m", "<=", 1)}),
   Measuring(Two, {LimitOn("m", "<=", 2), LimitOn("m", ">=", 1)}),
   [Measuring(Two, {}) EXCEPT !.policy = "lexicographic", !.weights = NoMap],
   [Measuring(Two, {}) EXCEPT !.acquisition = "pareto", !.pareto = "f" :> 3 @@ "g" :> 3],
   [One EXCEPT !.names = <<"f", "f">>], [One EXCEPT !.metrics = {"m"}],
   [Two EXCEPT !.reference = "f" :> 0 @@ "g" :> 0], [Two EXCEPT !.weights = "f" :> 1],
   Measuring(One, {LimitOn("m", "<=", 1), LimitOn("m", ">=", 2)})}

Payload ==
  [id |-> 0, status |-> "none", vector |-> "f" :> {1}, penalty |-> {},
   reason |-> {}, legacy |-> {},
   sems |-> NoMap, measured |-> NoMap, msems |-> NoMap, scalarSem |-> {}]
NoValue(status) == [Payload EXCEPT !.vector = "f" :> {}, !.status = status]

MCSubmissions ==
  {[Payload EXCEPT !.status = "success"], [Payload EXCEPT !.penalty = {NotFinite}],
   [NoValue("killed") EXCEPT !.reason = {"canceled"}],
   [NoValue("failed") EXCEPT !.legacy = {"late"}, !.penalty = {NotFinite}],
   [NoValue("timeout") EXCEPT !.legacy = {"late"}]}

MCSetups ==
  {[points |-> {1, 2}, tree |-> FALSE, repeats |-> FALSE],
   [points |-> {1, 2, 3}, tree |-> TRUE, repeats |-> TRUE]}
=============================================================================
