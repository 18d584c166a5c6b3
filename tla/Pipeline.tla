------------------------------ MODULE Pipeline ------------------------------
(***************************************************************************)
(* The invoice reconciliation run (src/orchestration/pipeline.py) with its *)
(* two agents, its guardrails and its execution log, driven by a caller    *)
(* that starts it, resumes it and may die with it.                         *)
(*                                                                         *)
(* One action per stretch of code between two points where a crash, an     *)
(* exception or another outcome of the provider makes a difference: each   *)
(* commit of the state store and each answer of a provider is a step.      *)
(***************************************************************************)
EXTENDS Agents, Guardrails

CONSTANTS
    Invoices,          \* the batch, the same list in every call
    Budgets,           \* token budgets the caller gives its Guardrails
    Routings,          \* routing tables the caller gives its Guardrails
    CallTokens,        \* tokens (input + output) one LLM call can cost
    ProviderSets,      \* which agents are given an LLM provider
    ResumedStatuses,   \* statuses of the row in which the caller resumes
    Faults,            \* subset of {"crash", "provider_error"}
    MaxCalls           \* bound on the calls the caller makes

VARIABLES
    pc,             \* where the call in progress is; "idle" without one
    idx,            \* position in the batch, from 0
    proposal, decision, closed, human_review,   \* locals of the call
    llm,            \* the LLM call in progress: its route and its tokens
    providers,      \* agents with a provider in this call
    segment,        \* history: what held when this call entered the loop
    results,        \* history: results the caller received, in order
    outcome,        \* how the caller's last call ended
    calls           \* calls the caller has made

localVars  == <<proposal, decision, closed, human_review, llm, providers>>
callerVars == <<results, outcome, calls>>
vars == <<storeVars, guard, pc, idx, localVars, segment, callerVars>>

Positions == 0 .. Len(Invoices) - 1
Invoice(i) == Invoices[i + 1]
Current == Invoice(idx)

InvoiceLineItem ==
    [invoice_id : TaskIds, customer_name_billed : STRING,
     equipment_billed : STRING, service_date : Int \cup {None},
     days_billed : Int, amount_usd : Int]

ASSUME PipelineAssumption ==
    /\ Invoices \in Seq(InvoiceLineItem)
    /\ Budgets \subseteq Nat
    /\ Routings \subseteq RoutingTable
    /\ CallTokens \subseteq Nat
    /\ ProviderSets \subseteq SUBSET {"analyst", "validator"}
    /\ ResumedStatuses \subseteq RunStatus
    /\ MaxIterationsPerTask \in Nat
    /\ MaxCalls \in Nat

NoProposal == AnalystProposal("none", None, FALSE)
Decision(agrees, discrepancy, used_llm) ==
    [agrees |-> agrees, discrepancy |-> discrepancy, used_llm |-> used_llm]
NoDecision == Decision(FALSE, "none", FALSE)
NoCall == [route |-> "ambiguous_discrepancy", tokens |-> 0]

Init ==
    /\ StoreInit
    /\ guard = NoGuardrails
    /\ pc = "idle" /\ idx = 0
    /\ proposal = NoProposal /\ decision = NoDecision
    /\ closed = <<>> /\ human_review = <<>>
    /\ llm = NoCall /\ providers = {}
    /\ segment = [start |-> 0, tokens |-> 0, reused |-> FALSE]
    /\ results = <<>> /\ outcome = "none" /\ calls = 0

-----------------------------------------------------------------------------
(* The caller.                                                             *)

\* The frame of reconcile_invoices is gone: returned, raised or crashed.
DropLocals ==
    /\ pc' = "idle" /\ idx' = 0
    /\ proposal' = NoProposal /\ decision' = NoDecision
    /\ closed' = <<>> /\ human_review' = <<>>
    /\ llm' = NoCall /\ providers' = {}

\* An exception nothing handles reaches the caller, who keeps its Guardrails.
Raise(error) ==
    /\ DropLocals
    /\ outcome' = error
    /\ UNCHANGED <<segment, results>>

\* reconcile_invoices up to its loop.  Every call from index 0 inserts the
\* runs row, also when index 0 is the checkpoint of a resumed run.
EnterLoop(start, g, ps) ==
    /\ pc' = "loop" /\ idx' = start /\ guard' = g /\ providers' = ps
    /\ segment' = [start |-> start, tokens |-> run.tokens_used,
                   reused |-> guard.live /\ g = guard]
    /\ outcome' = "running"
    /\ UNCHANGED <<proposal, decision, closed, human_review, llm, results>>

Reconcile(start, g, ps) ==
    /\ pc = "idle" /\ calls < MaxCalls
    /\ calls' = calls + 1
    /\ \/ /\ start = 0
          /\ start_run(g.token_budget)
          /\ EnterLoop(start, g, ps)
       \/ /\ start = 0
          /\ RunExists
          /\ Raise("duplicate_run")
          /\ guard' = g
          /\ UNCHANGED storeVars
       \/ /\ start > 0
          /\ EnterLoop(start, g, ps)
          /\ UNCHANGED storeVars

\* The first call, or another one under the same run id.
StartReconciliation ==
    \E b \in Budgets, r \in Routings, ps \in ProviderSets :
        Reconcile(0, NewGuardrails(b, r), ps)

\* The Guardrails a caller passes to a resumed run: new ones, or those of
\* an earlier call while its process lives.
OfferedGuardrails ==
    {NewGuardrails(b, r) : b \in Budgets, r \in Routings}
    \cup (IF guard.live THEN {guard} ELSE {})

\* resume_reconciliation looks at no status: which rows are resumed is the
\* caller's choice.
ResumeReconciliation ==
    /\ run.status \in ResumedStatuses
    /\ RunExists
    /\ \E g \in OfferedGuardrails, ps \in ProviderSets :
           Reconcile(run.resume_index, g, ps)

\* get_run raises KeyError.
ResumeUnknownRun ==
    /\ pc = "idle" /\ calls < MaxCalls
    /\ ~RunExists
    /\ calls' = calls + 1
    /\ Raise("no_such_run")
    /\ UNCHANGED <<storeVars, guard>>

-----------------------------------------------------------------------------
(* LLM calls.  The three call sites share their shape: count the step,     *)
(* call the provider, record the usage, read the answer.                   *)

\* check_iteration raises past the cap, before the provider is called, and
\* route() raises after the step has been counted.
AskModel(route) ==
    \/ /\ CapReached(Current.invoice_id)
       /\ pc' = "capped"
       /\ UNCHANGED <<guard, llm>>
    \/ /\ CountIteration(Current.invoice_id)
       /\ ~Configured(route)
       /\ pc' = "misrouted"
       /\ UNCHANGED llm
    \/ /\ CountIteration(Current.invoice_id)
       /\ Configured(route)
       /\ pc' = "calling"
       /\ llm' = [NoCall EXCEPT !.route = route]

\* The ValueError of a route the table does not resolve.
RefuseRoute ==
    /\ pc = "misrouted"
    /\ Raise("routing_error")
    /\ UNCHANGED <<storeVars, guard, calls>>

ProviderAnswers ==
    /\ pc = "calling"
    /\ \E t \in CallTokens : llm' = [llm EXCEPT !.tokens = t]
    /\ pc' = "recording"
    /\ UNCHANGED <<storeVars, guard, idx, proposal, decision, closed,
                   human_review, providers, segment, callerVars>>

ProviderFails ==
    /\ pc = "calling"
    /\ "provider_error" \in Faults
    /\ Raise("provider_error")
    /\ UNCHANGED <<storeVars, guard, calls>>

\* Mutant: the first write-up carries what the Analyst had proposed.
MutReadAnswer ==
    \/ /\ llm.route = "ambiguous_discrepancy"
       /\ \E r \in Replies : proposal' = JudgedProposal(Current, r)
       /\ pc' = "proposed"
       /\ UNCHANGED decision
    \/ /\ llm.route = "disagreement_writeup"
       /\ decision' = Decision(FALSE, proposal.discrepancy, TRUE)
       /\ pc' = "judged"
       /\ UNCHANGED proposal
    \/ /\ llm.route = "disagreement_writeup_escalated"
       /\ decision' = Decision(FALSE, decision.discrepancy, TRUE)
       /\ pc' = "confirmed"
       /\ UNCHANGED proposal

\* The answer of a call that stayed within the budget.
ReadAnswer ==
    \/ /\ llm.route = "ambiguous_discrepancy"
       /\ \E r \in Replies : proposal' = JudgedProposal(Current, r)
       /\ pc' = "proposed"
       /\ UNCHANGED decision
    \/ /\ llm.route = "disagreement_writeup"
       /\ decision' = Decision(FALSE, ValidatorFinding(Current), TRUE)
       /\ pc' = "judged"
       /\ UNCHANGED proposal
    \/ /\ llm.route = "disagreement_writeup_escalated"
       /\ decision' = Decision(FALSE, decision.discrepancy, TRUE)
       /\ pc' = "confirmed"
       /\ UNCHANGED proposal

\* The budget is tested after the usage is recorded; a breach discards the
\* answer and unwinds to the halt.
RecordUsage ==
    /\ pc = "recording"
    /\ record_usage(llm.route, llm.tokens)
    /\ \/ /\ ~BudgetExceededBy(llm.tokens)
          /\ ReadAnswer
       \/ /\ BudgetExceededBy(llm.tokens)
          /\ pc' = "halting"
          /\ UNCHANGED <<proposal, decision>>
    /\ llm' = NoCall
    /\ UNCHANGED <<idx, closed, human_review, providers, segment, callerVars>>

-----------------------------------------------------------------------------
(* The loop over the batch.                                                *)

Log(from_state, to_state, tier) ==
    log_transition(Current.invoice_id, idx, from_state, to_state, tier)

\* Mutant: the tier is written down whether or not a model was asked.
MutTierIf(used_llm, tier) == tier

TierIf(used_llm, tier) == IF used_llm THEN tier ELSE "no_llm"

\* proposal and decision are rebound before they are read again.
NextInvoice ==
    /\ pc' = "loop" /\ idx' = idx + 1
    /\ proposal' = NoProposal /\ decision' = NoDecision
    /\ UNCHANGED <<guard, llm, providers, segment, callerVars>>

BeginInvoice ==
    /\ pc = "loop" /\ idx < Len(Invoices)
    /\ Log("received", "analyst_reviewing", "no_llm")
    /\ pc' = "analyze"
    /\ UNCHANGED <<guard, idx, localVars, segment, callerVars>>

\* The ValidationError of a name the tool's input schema refuses.
RefuseName ==
    /\ pc = "analyze" /\ ~NameAccepted(Current)
    /\ Raise("validation_error")
    /\ UNCHANGED <<storeVars, guard, calls>>

\* analyze(): settled by the checks, settled without a provider, or asked.
Analyze ==
    /\ pc = "analyze" /\ NameAccepted(Current)
    /\ \/ /\ AnalystVerdict(Current) # "ambiguous"
          /\ proposal' = ClearCutProposal(Current)
          /\ pc' = "proposed"
          /\ UNCHANGED <<guard, llm>>
       \/ /\ AnalystVerdict(Current) = "ambiguous"
          /\ "analyst" \notin providers
          /\ proposal' = UnassistedProposal(Current)
          /\ pc' = "proposed"
          /\ UNCHANGED <<guard, llm>>
       \/ /\ AnalystVerdict(Current) = "ambiguous"
          /\ "analyst" \in providers
          /\ AskModel("ambiguous_discrepancy")
          /\ UNCHANGED proposal
    /\ UNCHANGED <<storeVars, idx, decision, closed, human_review, providers,
                   segment, callerVars>>

LogProposal ==
    /\ pc = "proposed"
    /\ Log("analyst_reviewing", "analyst_proposed",
           TierIf(proposal.used_llm, "cheap"))
    /\ pc' = "handover"
    /\ UNCHANGED <<guard, idx, localVars, segment, callerVars>>

LogHandover ==
    /\ pc = "handover"
    /\ Log("analyst_proposed", "validator_reviewing", "no_llm")
    /\ pc' = "validate"
    /\ UNCHANGED <<guard, idx, localVars, segment, callerVars>>

\* _write_up_disagreement: without a provider the decision is made on the
\* spot, with one it waits for the answer.
WriteUp(discrepancy, route, next) ==
    \/ /\ "validator" \notin providers
       /\ decision' = Decision(FALSE, discrepancy, FALSE)
       /\ pc' = next
       /\ UNCHANGED <<guard, llm>>
    \/ /\ "validator" \in providers
       /\ AskModel(route)
       /\ UNCHANGED decision

\* Mutant: a disagreement goes straight to the expensive tier.
MutValidate ==
    /\ pc = "validate"
    /\ \/ /\ ValidatorAgrees(Current, proposal)
          /\ decision' = Decision(TRUE, ValidatorFinding(Current), FALSE)
          /\ pc' = "judged"
          /\ UNCHANGED <<guard, llm>>
       \/ /\ ~ValidatorAgrees(Current, proposal)
          /\ WriteUp(ValidatorFinding(Current),
                     "disagreement_writeup_escalated", "confirmed")
    /\ UNCHANGED <<storeVars, idx, proposal, closed, human_review, providers,
                   segment, callerVars>>

Validate ==
    /\ pc = "validate"
    /\ \/ /\ ValidatorAgrees(Current, proposal)
          /\ decision' = Decision(TRUE, ValidatorFinding(Current), FALSE)
          /\ pc' = "judged"
          /\ UNCHANGED <<guard, llm>>
       \/ /\ ~ValidatorAgrees(Current, proposal)
          /\ WriteUp(ValidatorFinding(Current), "disagreement_writeup", "judged")
    /\ UNCHANGED <<storeVars, idx, proposal, closed, human_review, providers,
                   segment, callerVars>>

\* Mutant: the invoice is closed whatever the verdict was.
MutLogVerdict ==
    /\ pc = "judged"
    /\ Log("validator_reviewing",
           IF decision.agrees THEN "validator_approved" ELSE "validator_escalated",
           TierIf(decision.used_llm, "mid"))
    /\ pc' = "approved"
    /\ UNCHANGED <<guard, idx, localVars, segment, callerVars>>

LogVerdict ==
    /\ pc = "judged"
    /\ Log("validator_reviewing",
           IF decision.agrees THEN "validator_approved" ELSE "validator_escalated",
           TierIf(decision.used_llm, "mid"))
    /\ pc' = IF decision.agrees THEN "approved" ELSE "escalated"
    /\ UNCHANGED <<guard, idx, localVars, segment, callerVars>>

CloseInvoice ==
    /\ pc = "approved"
    /\ Log("validator_approved", "closed", "no_llm")
    /\ closed' = Append(closed, Current.invoice_id)
    /\ NextInvoice
    /\ UNCHANGED human_review

\* Mutant: the escalation is written up on the Validator's own route again.
MutConfirmEscalation ==
    /\ pc = "escalated"
    /\ WriteUp(decision.discrepancy, "disagreement_writeup", "judged")
    /\ UNCHANGED <<storeVars, idx, proposal, closed, human_review, providers,
                   segment, callerVars>>

ConfirmEscalation ==
    /\ pc = "escalated"
    /\ WriteUp(decision.discrepancy, "disagreement_writeup_escalated", "confirmed")
    /\ UNCHANGED <<storeVars, idx, proposal, closed, human_review, providers,
                   segment, callerVars>>

ReviewItem(p, d) ==
    [invoice_id |-> Current.invoice_id, analyst_proposal |-> p,
     validator_decision |-> d]

HandToHuman ==
    /\ pc = "confirmed"
    /\ Log("validator_escalated", "human_review",
           TierIf(decision.used_llm, "expensive"))
    /\ human_review' = Append(human_review, ReviewItem(proposal, decision))
    /\ NextInvoice
    /\ UNCHANGED closed

\* _iteration_cap_fallback: whatever the agents had found is replaced, and
\* the row is logged from analyst_reviewing wherever the cap was hit.
CappedProposal == AnalystProposal("no_matching_job", None, FALSE)
CappedDecision == Decision(FALSE, "no_matching_job", FALSE)
CapFallback == ReviewItem(CappedProposal, CappedDecision)

\* Mutant: a capped task is logged and forgotten.
MutEscalateCapped ==
    /\ pc = "capped"
    /\ Log("analyst_reviewing", "human_review", "no_llm")
    /\ NextInvoice
    /\ UNCHANGED <<closed, human_review>>

EscalateCapped ==
    /\ pc = "capped"
    /\ Log("analyst_reviewing", "human_review", "no_llm")
    /\ human_review' = Append(human_review, CapFallback)
    /\ NextInvoice
    /\ UNCHANGED closed

\* Mutant: the last invoice is left out.
MutCompleteRunEarly ==
    /\ pc = "loop" /\ idx >= Len(Invoices) - 1
    /\ complete_run
    /\ pc' = "returning"
    /\ UNCHANGED <<guard, idx, localVars, segment, callerVars>>

CompleteRun ==
    /\ pc = "loop" /\ idx = Len(Invoices)
    /\ complete_run
    /\ pc' = "returning"
    /\ UNCHANGED <<guard, idx, localVars, segment, callerVars>>

\* Mutants: the checkpoint is the invoice after the one that was cut short,
\* the one before it, and a halt that does not leave the loop.
MutHaltRunAfter ==
    /\ pc = "halting"
    /\ halt_run(idx + 1)
    /\ pc' = "returning"
    /\ UNCHANGED <<guard, idx, localVars, segment, callerVars>>
MutHaltRunBefore ==
    /\ pc = "halting"
    /\ halt_run(idx - 1)
    /\ pc' = "returning"
    /\ UNCHANGED <<guard, idx, localVars, segment, callerVars>>
MutHaltRunStays ==
    /\ pc = "halting"
    /\ halt_run(idx)
    /\ UNCHANGED <<pc, guard, idx, localVars, segment, callerVars>>

HaltRun ==
    /\ pc = "halting"
    /\ halt_run(idx)
    /\ pc' = "returning"
    /\ UNCHANGED <<guard, idx, localVars, segment, callerVars>>

\* The result reaches the caller; until here it exists in memory alone.
RunResult ==
    [status |-> IF idx = Len(Invoices) THEN "completed" ELSE "halted",
     start |-> segment.start, resume_index |-> idx,
     closed_invoice_ids |-> closed, human_review |-> human_review]

ReturnResult ==
    /\ pc = "returning"
    /\ results' = Append(results, RunResult)
    /\ outcome' = "returned"
    /\ DropLocals
    /\ UNCHANGED <<storeVars, guard, segment, calls>>

\* The process dies: the database file is all that is left.
Crash ==
    /\ pc # "idle"
    /\ "crash" \in Faults
    /\ DropLocals
    /\ guard' = NoGuardrails
    /\ outcome' = "crashed"
    /\ UNCHANGED <<storeVars, segment, results, calls>>

-----------------------------------------------------------------------------

\* Steps of a call that nobody disturbs.
ProgramStep ==
    \/ BeginInvoice \/ RefuseName \/ RefuseRoute \/ Analyze
    \/ LogProposal \/ LogHandover
    \/ Validate \/ LogVerdict \/ CloseInvoice \/ ConfirmEscalation
    \/ HandToHuman \/ EscalateCapped \/ CompleteRun \/ HaltRun \/ ReturnResult
    \/ ProviderAnswers \/ RecordUsage

Next ==
    \/ StartReconciliation \/ ResumeReconciliation \/ ResumeUnknownRun
    \/ ProgramStep \/ ProviderFails \/ Crash

Spec == Init /\ [][Next]_vars

\* A call that is running goes on: one thread, and providers that answer or
\* fail within their client's timeout.  Nobody owes the caller a resume.
Fairness == WF_vars(ProgramStep)
FairSpec == Spec /\ Fairness

=============================================================================
