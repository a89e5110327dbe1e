---------------------------- MODULE CampaignData ----------------------------
(***************************************************************************)
(* What goes into a campaign and what is made of it: the points it         *)
(* suggests (Sampling), the order it puts results in (Ranking) and what    *)
(* the templates try next for them (Proposing), the observations it        *)
(* exchanges with other campaigns (Exchange), what becomes of an           *)
(* evaluator's answer (Reporting), what Ax is told of the campaign         *)
(* (AxProjection), and what those see of it who look at its files without  *)
(* the lock (Inspection).  Each has a state of its own, but for the        *)
(* proposals, which follow from the ranked results: a behaviour is one of  *)
(* the six.                                                                *)
(***************************************************************************)
EXTENDS Sampling, Proposing, Exchange, Inspection, Reporting, AxProjection, AxSpace

VARIABLE part     \* the one that runs

Init ==
  /\ part \in {"sampling", "ranking", "exchange", "inspection", "reporting", "projection"}
  /\ SamplingInit /\ RankingInit /\ ExchangeInit /\ InspectionInit
  /\ ReportingInit /\ ProjectionInit
  /\ part # "sampling" => contract = CHOOSE c \in Contracts : TRUE   \* unused
  /\ part # "ranking" => schema = CHOOSE s \in Schemas : TRUE        \* unused
  /\ part # "reporting" =>                                            \* unused
       declared = CHOOSE d \in Declarations : DeclarationAccepted(d)
  /\ part # "projection" => config = CHOOSE c \in Configurations : TRUE   \* unused
  /\ environment = CHOOSE e \in Environments : TRUE   \* their names do not matter
  /\ config.seed = CHOOSE number \in Seeds : TRUE

SamplingStep ==
  /\ part = "sampling" /\ SamplingNext
  /\ UNCHANGED <<part, rankingVars, exchangeVars, inspectionVars, reportingVars, projectionVars>>

RankingStep ==
  /\ part = "ranking" /\ RankingNext
  /\ UNCHANGED <<part, samplingVars, exchangeVars, inspectionVars, reportingVars, projectionVars>>

ExchangeStep ==
  /\ part = "exchange" /\ ExchangeNext
  /\ UNCHANGED <<part, samplingVars, rankingVars, inspectionVars, reportingVars, projectionVars>>

InspectionStep ==
  /\ part = "inspection" /\ InspectionNext
  /\ UNCHANGED <<part, samplingVars, rankingVars, exchangeVars, reportingVars,
                 projectionVars>>

ReportingStep ==
  /\ part = "reporting" /\ ReportingNext
  /\ UNCHANGED <<part, samplingVars, rankingVars, exchangeVars, inspectionVars,
                 projectionVars>>

ProjectionStep ==
  /\ part = "projection" /\ ProjectionNext
  /\ UNCHANGED <<part, samplingVars, rankingVars, exchangeVars, inspectionVars, reportingVars>>

Next ==
  SamplingStep \/ RankingStep \/ ExchangeStep \/ InspectionStep \/ ReportingStep \/ ProjectionStep

dataVars == <<part, samplingVars, rankingVars, exchangeVars, inspectionVars, reportingVars,
              projectionVars>>

Spec == Init /\ [][Next]_dataVars

\* SamplingIsExact (module Sampling) and CodecIsExact (module AxSpace): search_space.py,
\* constraints.py and ax_space.py offer points of the space within its rules, and
\* keep none of them from being offered.
PointsAreExact ==
  part = "sampling" =>
    /\ SamplingIsExact
    /\ stage = "loading" /\ SpaceAccepted(Params) /\ RulesAccepted(Rules, Params) =>
         CodecIsExact(Params, Rules)

\* RankingAgrees (module Ranking): objectives.py and run_bo.py agree, in every order of
\* the results, on what is best, what is on the front and what the front covers.
RanksAgree == part = "ranking" => RankingAgrees

\* The same campaign with every objective negated, and maximised where it was
\* minimised.
Negated(seq) == [k \in DOMAIN seq |-> -seq[k]]

Twin == INSTANCE Proposing WITH
  schema <- [schema EXCEPT !.directions =
                             [k \in DOMAIN @ |-> IF @[k] = "minimize" THEN "maximize" ELSE "minimize"],
                           !.reference = Negated(@)],
  rows <- [i \in DOMAIN rows |-> [rows[i] EXCEPT !.values = Negated(@)]],
  best <- IF schema.policy \in Weighted THEN best ELSE [best EXCEPT !.value = -@]

\* The twin's decision, its prediction read the other way round.
Mirrored(d) ==
  [d EXCEPT !.predicted =
     {IF schema.policy \in Weighted THEN p ELSE [p EXCEPT !.mean = -@] : p \in @}]

\* Proposals read neither the measurements nor the order of the results, so only
\* one of each is looked at, and with several objectives two results.
Representative ==
  /\ \A i \in DOMAIN rows : rows[i].id = i /\ rows[i].measure \in {0, schema.bound}
  /\ Len(rows) <= 2 \/ Len(schema.directions) = 1

\* To minimise an objective or to maximise its negative is the same, with every
\* surrogate, acquisition and way out; the sample offered is the most promising
\* one; the decision on record says how it was found; and no campaign is stuck
\* without a reason.
DecisionFollows(policy, luck, views, d, twins) ==
  /\ d = Mirrored(twins)
  /\ OfferLeads(policy, luck, views, d)
  /\ RecordIsTrue(policy, luck, d)
  /\ OfferIsMade(policy, luck, d)

EachFollows(views, twin) ==
  /\ Ok # {} =>
       /\ {views.proxy, views.process, twin.proxy, twin.process} \subseteq [Samples -> Predictions]
       /\ PredictsWithin(views.proxy)
  /\ \A policy \in Policies, luck \in Fortunes :
       DecisionFollows(policy, luck, views, Proposal(policy, luck, views),
                       Twin!Proposal(policy, luck, twin))

ProposalsFollow == Representative => EachFollows(Views, Twin!Views)

\* surrogate_proxy.py, surrogate_gp.py, acquisition.py and the three run_bo.py: what to
\* try next follows from the results.
ResultsDecide == part = "ranking" => ProposalsFollow

\* ReportsSettle (module Reporting): contract.py, run_one_eval.py and
\* ax_contract.py lose, change or confuse no outcome on its way.
ReportsAreSettled == part = "reporting" => ReportsSettle

\* AlarmsHaveCause and ViewsAreTrue (module Inspection): run_bo.py validate, health
\* and metrics, and the reads of _runtime_worker.py, take no lock and still say
\* nothing of the campaign that is not so.
LooksAreTrue == part = "inspection" => AlarmsHaveCause /\ ViewsAreTrue

\* OptimizerFollows (module AxProjection): optimizer_ax.py and its worker keep Ax's
\* view that of the campaign across rebuilds, losses and other configurations.
ProjectionHolds == part = "projection" => OptimizerFollows
=============================================================================
