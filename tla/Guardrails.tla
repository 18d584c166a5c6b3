----------------------------- MODULE Guardrails -----------------------------
(***************************************************************************)
(* One Guardrails instance (src/orchestration/guardrails.py): the token    *)
(* budget it enforces, the LLM steps it has counted per task and the calls *)
(* it has recorded.  It lives in the memory of the calling process, not in *)
(* the state store, and its counters are keyed by task id alone: they keep *)
(* counting when the caller passes the same instance to a resumed run.     *)
(* The routing table (routing.py) and the prices (src/adapters/pricing.py) *)
(* come with it.                                                           *)
(***************************************************************************)
EXTENDS StateStore

CONSTANTS
    TaskIds,                   \* the invoice ids
    MaxIterationsPerTask       \* max_iterations_per_task

VARIABLE guard

\* Tiers of routing.yaml, and the one of the single-tier baselines.
Tiers == {"cheap", "mid", "expensive"}
TierNames == Tiers \cup {"single"}

Routes == {"ambiguous_discrepancy", "disagreement_writeup",
           "disagreement_writeup_escalated"}

\* Dollars per million input tokens.  Every priced model asks five times as
\* much for output, so one number compares them; a local one reports 0.
Models == {"opus", "sonnet", "haiku", "local"}
Pricing == [opus |-> 5, sonnet |-> 3, haiku |-> 1, local |-> 0]
BaselineModel == "opus"

\* Two dictionaries that are checked for nothing but their types when they
\* are loaded; "unset" is what .get() finds for a key that is missing.
RoutingTable == [tiers  : [TierNames -> Models \cup {"unset"}],
                 routes : [Routes -> TierNames \cup {"unset"}]]

NoRouting == [tiers  |-> [t \in TierNames |-> "unset"],
              routes |-> [r \in Routes |-> "unset"]]

\* routing.yaml
ShippedRouting ==
    [tiers  |-> [t \in TierNames |-> CASE t = "cheap"     -> "haiku"
                                       [] t = "mid"       -> "sonnet"
                                       [] t = "expensive" -> "opus"
                                       [] OTHER           -> "unset"],
     routes |-> [r \in Routes |->
                    CASE r = "ambiguous_discrepancy"          -> "cheap"
                      [] r = "disagreement_writeup"           -> "mid"
                      [] r = "disagreement_writeup_escalated" -> "expensive"]]

\* tier_for and model_for, for a route they do not raise for.
TierFor(route)  == guard.routing.routes[route]
ModelFor(route) == guard.routing.tiers[TierFor(route)]

Configured(route) ==
    /\ TierFor(route) # "unset"
    /\ ModelFor(route) # "unset"

\* The cost of a call, as its provider reports it.
CostOf(model, tokens) == Pricing[model] * tokens

NewGuardrails(budget, table) ==
    [live |-> TRUE, token_budget |-> budget, routing |-> table,
     iterations |-> [t \in TaskIds |-> 0], calls |-> <<>>]

\* The caller's process holds none: before its first call and after a crash.
NoGuardrails == [NewGuardrails(0, NoRouting) EXCEPT !.live = FALSE]

\* Mutant: the last step allowed is refused.
MutCapReached(task_id) == guard.iterations[task_id] + 1 >= MaxIterationsPerTask

CapReached(task_id) == guard.iterations[task_id] + 1 > MaxIterationsPerTask

\* Mutant: the cap is not enforced.
MutCountIteration(task_id) ==
    guard' = [guard EXCEPT !.iterations[task_id] = @ + 1]

\* check_iteration when it returns; when it raises it counts nothing.
CountIteration(task_id) ==
    /\ ~CapReached(task_id)
    /\ guard' = [guard EXCEPT !.iterations[task_id] = @ + 1]

CallRecord(route, tokens) ==
    [tier |-> TierFor(route), tokens |-> tokens,
     cost |-> CostOf(ModelFor(route), tokens)]

\* Mutant: the call that breaches the budget is left out of the records.
MutRecordUsage(route, tokens) ==
    /\ guard' = IF run.tokens_used + tokens > guard.token_budget THEN guard
                ELSE [guard EXCEPT !.calls = Append(@, CallRecord(route, tokens))]
    /\ store_record_usage(tokens)

\* The call is recorded here and in the store before the budget is looked at.
record_usage(route, tokens) ==
    /\ guard' = [guard EXCEPT !.calls = Append(@, CallRecord(route, tokens))]
    /\ store_record_usage(tokens)

\* Mutant: the total is read before the call is recorded.
MutBudgetExceededBy(tokens) == run.tokens_used > guard.token_budget

\* The test after the recording: of the row's total against the budget of
\* this instance, whatever budget the row was inserted with.
BudgetExceededBy(tokens) == run.tokens_used + tokens > guard.token_budget

=============================================================================
