------------------------------ MODULE Frontier ------------------------------
(***************************************************************************)
(* The cost-vs-accuracy frontier (src/evals/cost_frontier.py): one corpus  *)
(* is reconciled once per routing table, each time with a store and        *)
(* Guardrails of its own, and every run is scored and costed.  Entity      *)
(* resolution is held fixed: BestMatch and JobsOf.                         *)
(***************************************************************************)
EXTENDS CostReport, Scoring, Selections

CONSTANTS
    Configs,            \* the routing tables, in the order they are run
    TrueDiscrepancy     \* golden label of each invoice of the corpus

VARIABLES
    stage,      \* "between", "opened", "running" or "raised"
    points      \* the points reported so far

frontierVars == <<vars, stage, points>>

single_tier_routing(model) ==
    [tiers  |-> [NoRouting.tiers EXCEPT !["single"] = model],
     routes |-> [r \in Routes |-> "single"]]

\* The golden corpus: numbered invoices with names, labelled as they are
\* generated, under the default cap.
ASSUME FrontierAssumption ==
    /\ Configs \in Seq(Routings)
    /\ {"analyst", "validator"} \in ProviderSets
    /\ DistinctIds
    /\ \A i \in Positions : NameAccepted(Invoice(i))
    /\ TaskIds = Ids(Positions)
    /\ TrueDiscrepancy \in [TaskIds -> DiscrepancyKind]
    /\ MaxIterationsPerTask >= 3

FrontierInit == Init /\ stage = "between" /\ points = <<>>

\* A configuration has a store, Guardrails and a run of its own (it passes no
\* run_id, so reconcile_invoices draws a fresh one): run and log are those of
\* the run about to start, of which nothing is written yet.
OpenStore ==
    /\ stage = "between" /\ Len(points) < Len(Configs)
    /\ stage' = "opened"
    /\ run' = NoRun /\ log' = <<>>
    /\ guard' = NoGuardrails /\ results' = <<>> /\ outcome' = "none"
    /\ UNCHANGED <<pc, idx, localVars, segment, calls, points>>

RunCorpus ==
    /\ stage = "opened"
    /\ stage' = "running"
    /\ \E b \in Budgets :
           Reconcile(0, NewGuardrails(b, Configs[Len(points) + 1]),
                     {"analyst", "validator"})
    /\ UNCHANGED points

Result == results[Len(results)]

FrontierPoint ==
    LET score  == score_reconciliation(Result, TrueDiscrepancy)
        report == cost_report(guard.calls)
    IN  [total_cost_usd |-> report.actual_cost, total_calls |-> report.total_calls,
         score |-> score]

ScorePoint ==
    /\ stage = "running" /\ pc = "idle" /\ outcome = "returned"
    /\ Scorable(Result, TrueDiscrepancy)
    /\ points' = Append(points, FrontierPoint)
    /\ stage' = "between"
    /\ UNCHANGED vars

\* An exception of the run or of the scorer ends the whole report.
ReportRaises ==
    /\ stage = "running" /\ pc = "idle"
    /\ outcome = "returned" => ~Scorable(Result, TrueDiscrepancy)
    /\ stage' = "raised"
    /\ UNCHANGED <<vars, points>>

ReconcileStep ==
    /\ stage = "running"
    /\ ProgramStep \/ ProviderFails
    /\ UNCHANGED <<stage, points>>

FrontierNext ==
    OpenStore \/ RunCorpus \/ ReconcileStep \/ ScorePoint \/ ReportRaises

FrontierSpec == FrontierInit /\ [][FrontierNext]_frontierVars

-----------------------------------------------------------------------------

\* Two configurations never differ in accuracy or in recall, whatever their
\* models answered: the label of an invoice rests on the Validator's checks
\* alone, and a model moves calls and costs only.
ConfigsScoreAlike ==
    \A m, n \in DOMAIN points : points[m].score = points[n].score

CorpusIsDone == stage = "running" /\ pc = "returning" /\ run.status = "completed"

CallsOn(tier) ==
    Cardinality({k \in DOMAIN guard.calls : guard.calls[k].tier = tier})

\* What a tier gets of the calls on a route.
ShareOf(tier, route, paid) == IF TierFor(route) = tier THEN paid ELSE 0

\* A finished corpus has paid one call per ambiguous date and two per
\* escalated invoice, each on the tier its table routes it to: no retry, no
\* escalation that skips a tier, no invoice that is paid for twice.
CallsFollowEscalations ==
    CorpusIsDone =>
        \A t \in TierNames :
            CallsOn(t) =
                ShareOf(t, "ambiguous_discrepancy", Cardinality({i \in Positions :
                               AnalystVerdict(Invoice(i)) = "ambiguous"}))
                + ShareOf(t, "disagreement_writeup", Len(human_review))
                + ShareOf(t, "disagreement_writeup_escalated", Len(human_review))

\* The tiers of the execution log, row by row, and those of the calls.
LogTiers ==
    Selected([k \in DOMAIN log |-> log[k].model_tier],
             {k \in DOMAIN log : log[k].model_tier # "no_llm"})
CallTiers == [k \in DOMAIN guard.calls |-> guard.calls[k].tier]

\* Under the shipped table the tiers in the execution log are, row by row,
\* those of the recorded calls.  (Under any other table they are not: the
\* pipeline writes the three names down.)
LogNamesCallTiers ==
    stage = "running" /\ pc \in {"loop", "returning"}
    /\ guard.routing = ShippedRouting /\ run.status # "halted" =>
        LogTiers = CallTiers

\* The report is only lost to a failing provider, a route the table does not
\* resolve or a halt: a completed run has decided every invoice of the golden
\* set and no other, however it did, and can be scored against it.
CompletedIsScored ==
    stage = "raised" =>
        \/ outcome \in {"provider_error", "routing_error"}
        \/ outcome = "returned" /\ Result.status = "halted"

\* "did the pipeline get the *exact* discrepancy type right": the label a
\* result is scored by is the finding both agents agreed on
\* (src/evals/reconciliation.py:6).
AgreedDiscrepancyIsScored ==
    results # <<>> =>
        \A i \in Positions :
            Invoice(i).invoice_id \in DOMAIN PredictedLabels(Result) =>
                PredictedLabels(Result)[Invoice(i).invoice_id] =
                    ValidatorFinding(Invoice(i))

\* "A corpus with more near-boundary date drift (closer to 3 days) would show
\* the tiers diverging" (tests/evals/test_cost_frontier.py:106-107): on such a
\* corpus configurations whose models judged the drifts differently, and so
\* paid for different escalations, differ in score.
NearBoundaryDriftDiverges ==
    \A m, n \in DOMAIN points :
        points[m].total_calls # points[n].total_calls =>
            points[m].score # points[n].score

=============================================================================
