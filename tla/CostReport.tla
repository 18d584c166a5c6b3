----------------------------- MODULE CostReport -----------------------------
(***************************************************************************)
(* cost_report() of one Guardrails instance: what its recorded calls cost, *)
(* per tier and against the same calls on the baseline model, and what the *)
(* report says of the run its calls were made for.                         *)
(***************************************************************************)
EXTENDS PipelineProperties, Selections

Tokens(cs)     == Total([k \in DOMAIN cs |-> cs[k].tokens])
Cost(cs)       == Total([k \in DOMAIN cs |-> cs[k].cost])
OnBaseline(cs) == Total([k \in DOMAIN cs |-> CostOf(BaselineModel, cs[k].tokens)])

TierSpend(cs) == [calls |-> Len(cs), tokens |-> Tokens(cs), cost |-> Cost(cs)]

CallsOf(t, cs) == Selected(cs, {k \in DOMAIN cs : cs[k].tier = t})

cost_report(cs) ==
    [by_tier |-> [t \in {cs[k].tier : k \in DOMAIN cs} |-> TierSpend(CallsOf(t, cs))],
     actual_cost |-> Cost(cs),
     baseline_cost |-> OnBaseline(cs),
     total_calls |-> Len(cs)]

savings(report) == report.baseline_cost - report.actual_cost

-----------------------------------------------------------------------------

\* What a report says of one tier, and of all of them.
TokensOn(t, report) == IF t \in DOMAIN report.by_tier THEN report.by_tier[t].tokens ELSE 0
TokensOfAll(report) ==
    TokensOn("cheap", report) + TokensOn("mid", report)
    + TokensOn("expensive", report) + TokensOn("single", report)

\* The tokens a report adds up over its tiers are those the run's row gained
\* since the call began, as long as the call was given new Guardrails; those
\* of a resumed instance are never more than the row's.
ReportCoversCall ==
    LET reported == TokensOfAll(cost_report(guard.calls))
    IN  /\ reported <= run.tokens_used
        /\ pc # "idle" /\ ~segment.reused =>
               reported = run.tokens_used - segment.tokens

=============================================================================
