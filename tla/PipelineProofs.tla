--------------------------- MODULE PipelineProofs ---------------------------
(***************************************************************************)
(* Proofs about the reconciliation run, for every batch, registry, budget, *)
(* cap, caller policy and set of faults: type correctness and, on top of   *)
(* it, safety.  The log only grows, and the checkpoint, the verdicts and   *)
(* the spend follow from what the log and the control point say of each    *)
(* other.                                                                  *)
(***************************************************************************)
EXTENDS PipelineProperties, TLAPS

-----------------------------------------------------------------------------
(* The agents' verdicts and proposals have their types.                    *)

\* The verdicts of both agents are the discrepancies of the data model.
LEMMA VerdictTypes ==
    ASSUME NEW inv
    PROVE  /\ AnalystVerdict(inv) \in DiscrepancyKind \cup {"ambiguous"}
           /\ ValidatorFinding(inv) \in DiscrepancyKind
           /\ DateDiscrepancy(inv) \in DiscrepancyKind
BY DEF AnalystVerdict, ValidatorFinding, DateDiscrepancy, DiscrepancyKind

\* Every proposal analyze() can return for an invoice of the batch.
LEMMA ProposalTypes ==
    ASSUME NEW i \in Positions
    PROVE  /\ AnalystVerdict(Invoice(i)) # "ambiguous" =>
                  ClearCutProposal(Invoice(i)) \in Proposals
           /\ UnassistedProposal(Invoice(i)) \in Proposals
           /\ \A r \in Replies : JudgedProposal(Invoice(i), r) \in Proposals
           /\ CappedProposal \in Proposals
           /\ NoProposal \in Proposals
<1>1. NearestJob(Invoice(i)) \in MatchableJobs /\ None \in MatchableJobs
  BY DEF MatchableJobs
<1>2. "none" \in DiscrepancyKind /\ "no_matching_job" \in DiscrepancyKind
  BY DEF DiscrepancyKind
<1> QED
  BY <1>1, <1>2, VerdictTypes
  DEF ClearCutProposal, UnassistedProposal, JudgedProposal, AnalystProposal,
      CappedProposal, NoProposal, Proposals

\* An invoice of the batch has a task id.
LEMMA TaskIdType ==
    ASSUME NEW i \in Positions
    PROVE  Invoice(i).invoice_id \in TaskIds
<1>1. Invoices \in Seq(InvoiceLineItem) /\ i + 1 \in 1 .. Len(Invoices)
  BY PipelineAssumption DEF Positions
<1>2. Invoices[i + 1] \in InvoiceLineItem
  BY <1>1
<1> QED
  BY <1>2 DEF InvoiceLineItem, Invoice

\* The batch is a finite list: range(start_index, len(invoices)) has an end.
LEMMA BatchLength == Len(Invoices) \in Nat
BY PipelineAssumption

-----------------------------------------------------------------------------
(* Type correctness.                                                       *)

\* A logged row has the type of the table.
LEMMA LogType ==
    ASSUME TypeOK, idx \in Positions,
           NEW from \in ReconciliationState, NEW to \in ReconciliationState,
           NEW tier \in Tiers \cup {"no_llm"},
           Log(from, to, tier)
    PROVE  log' \in Seq(LogRow) /\ run' = run
<1>1. Current.invoice_id \in TaskIds
  BY TaskIdType DEF Current
<1> DEFINE row == [task_id |-> Current.invoice_id, step_index |-> idx,
                   from_state |-> from, to_state |-> to, model_tier |-> tier]
<1>2. row \in LogRow
  BY <1>1 DEF LogRow
<1>3. log' = Append(log, row) /\ run' = run
  BY DEF Log, log_transition
<1> QED
  BY <1>2, <1>3 DEF TypeOK

\* A frame that is dropped has the types of the initial one.
LEMMA DroppedLocalsType ==
    ASSUME DropLocals
    PROVE  /\ pc' \in ControlPoints /\ idx' \in 0 .. Len(Invoices)
           /\ pc' = "idle"
           /\ proposal' \in Proposals /\ decision' \in Decisions
           /\ closed' \in Seq(TaskIds) /\ human_review' \in Seq(HumanReviewItem)
           /\ llm' \in [route : Routes, tokens : Nat]
           /\ providers' \in SUBSET {"analyst", "validator"}
<1>1. NoProposal \in Proposals
  BY DEF NoProposal, Proposals, AnalystProposal, MatchableJobs, DiscrepancyKind
<1>2. NoDecision \in Decisions
  BY DEF NoDecision, Decision, Decisions, DiscrepancyKind
<1>3. NoCall \in [route : Routes, tokens : Nat]
  BY DEF NoCall, Routes
<1> QED
  BY <1>1, <1>2, <1>3, BatchLength DEF DropLocals, ControlPoints

\* New Guardrails, and none at all, have the type of Guardrails.
LEMMA NewGuardrailsType ==
    /\ \A b \in Budgets, r \in Routings : NewGuardrails(b, r) \in GuardState
    /\ NoGuardrails \in GuardState
<1>1. \A b \in Nat, r \in RoutingTable : NewGuardrails(b, r) \in GuardState
  BY PipelineAssumption DEF NewGuardrails, GuardState
<1>2. NoRouting \in RoutingTable
  BY DEF NoRouting, RoutingTable
<1>3. NewGuardrails(0, NoRouting) \in GuardState
  BY <1>1, <1>2
<1>4. NoGuardrails \in GuardState
  BY <1>3 DEF NoGuardrails, GuardState
<1> QED
  BY <1>1, <1>4, PipelineAssumption

\* Before the first call of reconcile_invoices the state has its types.
LEMMA InitType == Init => TypeOK
<1> SUFFICES ASSUME Init PROVE TypeOK
  OBVIOUS
<1>1. NoProposal \in Proposals /\ NoDecision \in Decisions
  BY DEF NoProposal, Proposals, AnalystProposal, MatchableJobs, NoDecision,
         Decision, Decisions, DiscrepancyKind
<1>2. run \in RunRow /\ log \in Seq(LogRow)
  BY BatchLength DEF Init, StoreInit, NoRun, RunRow, RunStatus
<1>3. guard \in GuardState
  BY NewGuardrailsType DEF Init
<1>4. /\ pc \in ControlPoints /\ idx \in 0 .. Len(Invoices)
      /\ pc \notin {"idle", "loop", "returning"} => idx \in Positions
      /\ closed \in Seq(TaskIds) /\ human_review \in Seq(HumanReviewItem)
      /\ llm \in [route : Routes, tokens : Nat]
      /\ providers \in SUBSET {"analyst", "validator"}
  BY BatchLength DEF Init, ControlPoints, NoCall, Routes
<1>5. /\ segment \in [start : 0 .. Len(Invoices), tokens : Nat, reused : BOOLEAN]
      /\ results \in Seq(ReconciliationRunResult)
      /\ outcome \in Outcomes /\ calls \in 0 .. MaxCalls
  BY BatchLength, PipelineAssumption DEF Init, Outcomes
<1> QED
  BY <1>1, <1>2, <1>3, <1>4, <1>5 DEF TypeOK, Init

\* The three ways a call can begin.
LEMMA ReconcileType ==
    ASSUME TypeOK,
           NEW start \in 0 .. Len(Invoices), NEW g \in GuardState,
           NEW ps \in ProviderSets, Reconcile(start, g, ps)
    PROVE  TypeOK'
<1>1. calls' \in 0 .. MaxCalls /\ guard' = g /\ ps \in SUBSET {"analyst", "validator"}
  BY PipelineAssumption DEF TypeOK, Reconcile, EnterLoop
<1>2. run' \in RunRow /\ log' \in Seq(LogRow)
  <2>1. CASE start_run(g.token_budget)
    BY <2>1, BatchLength DEF TypeOK, start_run, RunRow, RunStatus, GuardState
  <2>2. CASE UNCHANGED storeVars
    BY <2>2 DEF TypeOK, storeVars
  <2> QED
    BY <2>1, <2>2 DEF Reconcile
<1>3. CASE Raise("duplicate_run")
  BY <1>1, <1>2, <1>3, DroppedLocalsType DEF TypeOK, Raise, Outcomes
<1>4. CASE EnterLoop(start, g, ps)
  <2>1. segment' \in [start : 0 .. Len(Invoices), tokens : Nat, reused : BOOLEAN]
    BY <1>4 DEF EnterLoop, TypeOK, RunRow, GuardState
  <2> QED
    BY <1>1, <1>2, <1>4, <2>1 DEF TypeOK, EnterLoop, ControlPoints, Outcomes
<1> QED
  BY <1>3, <1>4 DEF Reconcile

\* The provider's answer is read into variables of their types.
LEMMA ReadAnswerType ==
    ASSUME TypeOK, idx \in Positions, ReadAnswer
    PROVE  /\ proposal' \in Proposals /\ decision' \in Decisions
           /\ pc' \in {"proposed", "judged", "confirmed"}
<1>1. /\ \A r \in Replies : JudgedProposal(Current, r) \in Proposals
      /\ \A d \in DiscrepancyKind : Decision(FALSE, d, TRUE) \in Decisions
      /\ ValidatorFinding(Current) \in DiscrepancyKind
      /\ decision.discrepancy \in DiscrepancyKind
  BY ProposalTypes, VerdictTypes DEF Current, Decision, Decisions, TypeOK
<1> QED
  BY <1>1 DEF ReadAnswer, TypeOK

\* check_iteration keeps the counters within the cap.
LEMMA AskModelType ==
    ASSUME TypeOK, idx \in Positions, NEW route \in Routes, AskModel(route)
    PROVE  /\ guard' \in GuardState
           /\ pc' \in {"capped", "misrouted", "calling"}
           /\ llm' \in [route : Routes, tokens : Nat]
           /\ pc' = "calling" => Configured(llm.route)'
<1>1. Current.invoice_id \in TaskIds
  BY TaskIdType DEF Current
<1>2. ASSUME CountIteration(Current.invoice_id) PROVE guard' \in GuardState
  <2> DEFINE t == Current.invoice_id
  <2>1. guard.iterations[t] + 1 \in 0 .. MaxIterationsPerTask
    <3>1. guard.iterations[t] \in 0 .. MaxIterationsPerTask
      BY <1>1 DEF TypeOK, GuardState
    <3>2. guard.iterations[t] < MaxIterationsPerTask
      BY <1>2, <3>1, PipelineAssumption DEF CountIteration, CapReached
    <3> QED
      BY <3>1, <3>2, PipelineAssumption
  <2>2. guard' = [guard EXCEPT !.iterations = [guard.iterations EXCEPT ![t] = @ + 1]]
    BY <1>2 DEF CountIteration, TypeOK, GuardState
  <2>3. [guard.iterations EXCEPT ![t] = @ + 1] \in [TaskIds -> 0 .. MaxIterationsPerTask]
    BY <2>1, <1>1 DEF TypeOK, GuardState
  <2> QED
    BY <2>2, <2>3 DEF TypeOK, GuardState
<1>3. ASSUME UNCHANGED guard PROVE guard' \in GuardState
  BY <1>3 DEF TypeOK
<1>4. guard' \in GuardState
  BY <1>2, <1>3 DEF AskModel
<1>5. pc' \in {"capped", "misrouted", "calling"}
      /\ llm' \in [route : Routes, tokens : Nat]
  BY DEF AskModel, NoCall, TypeOK
<1>6. ASSUME pc' = "calling" PROVE Configured(llm.route)'
  <2>1. llm'.route = route /\ Configured(route) /\ CountIteration(Current.invoice_id)
    BY <1>6 DEF AskModel, NoCall
  <2>2. guard'.routing = guard.routing
    BY <2>1 DEF CountIteration, TypeOK, GuardState
  <2> QED
    BY <2>1, <2>2 DEF Configured, TierFor, ModelFor
<1> QED
  BY <1>4, <1>5, <1>6

\* A write-up ends in a decision or waits for one.
LEMMA WriteUpType ==
    ASSUME TypeOK, idx \in Positions, NEW d \in DiscrepancyKind,
           NEW route \in Routes, NEW next \in {"judged", "confirmed"},
           WriteUp(d, route, next)
    PROVE  /\ guard' \in GuardState /\ decision' \in Decisions
           /\ pc' \in {"capped", "misrouted", "calling", next}
           /\ llm' \in [route : Routes, tokens : Nat]
           /\ pc' = "calling" => Configured(llm.route)'
<1>1. Decision(FALSE, d, FALSE) \in Decisions
  BY DEF Decision, Decisions
<1>2. CASE AskModel(route) /\ UNCHANGED decision
  BY <1>2, AskModelType DEF TypeOK
<1>3. CASE ~AskModel(route)
  BY <1>1, <1>3 DEF WriteUp, TypeOK
<1> QED
  BY <1>1, <1>2, <1>3 DEF WriteUp, TypeOK

\* A call is recorded under a tier, with the cost its provider reports.
LEMMA CallRecordType ==
    ASSUME TypeOK, pc = "recording"
    PROVE  CallRecord(llm.route, llm.tokens) \in CallRecords
<1>1. /\ TierFor(llm.route) \in TierNames /\ ModelFor(llm.route) \in Models
      /\ llm.tokens \in Nat
  BY DEF TypeOK, GuardState, RoutingTable, Configured, TierFor, ModelFor
<1>2. CostOf(ModelFor(llm.route), llm.tokens) \in Nat
  BY <1>1 DEF CostOf, Pricing, Models
<1> QED
  BY <1>1, <1>2 DEF CallRecord, CallRecords

\* The usage is recorded in types of the guardrails and of the store.
LEMMA RecordUsageType ==
    ASSUME TypeOK, RecordUsage
    PROVE  guard' \in GuardState /\ run' \in RunRow /\ log' = log
<1> DEFINE c == CallRecord(llm.route, llm.tokens)
<1>1. c \in CallRecords
  BY CallRecordType DEF RecordUsage
<1> HIDE DEF c
<1>2. guard' = [guard EXCEPT !.calls = Append(@, c)]
      /\ Append(guard.calls, c) \in Seq(CallRecords)
  BY <1>1 DEF RecordUsage, record_usage, TypeOK, GuardState, c
<1>3. guard' \in GuardState
  BY <1>2 DEF TypeOK, GuardState
<1>4. run' = [run EXCEPT !.tokens_used = @ + llm.tokens] /\ log' = log
  BY DEF RecordUsage, record_usage, store_record_usage
<1>5. run.tokens_used + llm.tokens \in Nat
  BY DEF TypeOK, RunRow
<1>6. run' \in RunRow
  BY <1>4, <1>5 DEF TypeOK, RunRow
<1> QED
  BY <1>3, <1>4, <1>6

\* The step to the next invoice.
LEMMA NextInvoiceType ==
    ASSUME TypeOK, idx \in Positions, NextInvoice
    PROVE  /\ guard' \in GuardState
           /\ pc' = "loop" /\ idx' = idx + 1 /\ idx' \in 0 .. Len(Invoices)
           /\ proposal' \in Proposals /\ decision' \in Decisions
           /\ llm' \in [route : Routes, tokens : Nat]
           /\ providers' \in SUBSET {"analyst", "validator"}
           /\ segment' \in [start : 0 .. Len(Invoices), tokens : Nat, reused : BOOLEAN]
           /\ results' \in Seq(ReconciliationRunResult)
           /\ outcome' \in Outcomes /\ calls' \in 0 .. MaxCalls
<1>1. NoProposal \in Proposals /\ NoDecision \in Decisions
  BY DEF NoProposal, Proposals, AnalystProposal, MatchableJobs, NoDecision,
         Decision, Decisions, DiscrepancyKind
<1>2. idx + 1 \in 0 .. Len(Invoices)
  BY BatchLength DEF Positions
<1> QED
  BY <1>1, <1>2 DEF NextInvoice, TypeOK, callerVars

\* An item of the review list.
LEMMA ReviewItemType ==
    ASSUME idx \in Positions, NEW p \in Proposals, NEW d \in Decisions
    PROVE  ReviewItem(p, d) \in HumanReviewItem
BY TaskIdType DEF ReviewItem, HumanReviewItem, Current

\* Every step of the run, the caller's and the faults included, keeps the
\* types.
LEMMA NextType == TypeOK /\ [Next]_vars => TypeOK'
<1> SUFFICES ASSUME TypeOK, [Next]_vars PROVE TypeOK'
  OBVIOUS
<1> USE DEF ReconciliationState
<1>1. CASE StartReconciliation
  <2>1. PICK b \in Budgets, r \in Routings, ps \in ProviderSets :
            Reconcile(0, NewGuardrails(b, r), ps)
    BY <1>1 DEF StartReconciliation
  <2>2. 0 \in 0 .. Len(Invoices)
    BY BatchLength
  <2> QED
    BY <2>1, <2>2, NewGuardrailsType, ReconcileType
<1>2. CASE ResumeReconciliation
  <2>1. PICK g \in OfferedGuardrails, ps \in ProviderSets :
            Reconcile(run.resume_index, g, ps)
    BY <1>2 DEF ResumeReconciliation
  <2>2. g \in GuardState /\ run.resume_index \in 0 .. Len(Invoices)
    BY NewGuardrailsType DEF OfferedGuardrails, TypeOK, RunRow
  <2> QED
    BY <2>1, <2>2, ReconcileType
<1>3. CASE ResumeUnknownRun
  <2>1. calls' \in 0 .. MaxCalls
    BY <1>3, PipelineAssumption DEF ResumeUnknownRun, TypeOK
  <2> QED
    BY <1>3, <2>1, DroppedLocalsType
    DEF ResumeUnknownRun, Raise, TypeOK, storeVars, Outcomes
<1>4. CASE BeginInvoice
  <2>1. idx \in Positions
    BY <1>4, BatchLength DEF BeginInvoice, Positions, TypeOK
  <2> QED
    BY <1>4, <2>1, LogType
    DEF BeginInvoice, TypeOK, localVars, callerVars, ControlPoints
<1>5. CASE RefuseName \/ RefuseRoute
  BY <1>5, DroppedLocalsType
  DEF RefuseName, RefuseRoute, Raise, TypeOK, storeVars, Outcomes
<1>6. CASE Analyze
  <2>1. idx \in Positions
    BY <1>6 DEF Analyze, TypeOK
  <2>2. CASE AnalystVerdict(Current) # "ambiguous" \/ "analyst" \notin providers
    <3>1. proposal' \in Proposals /\ pc' = "proposed" /\ UNCHANGED <<guard, llm>>
      BY <1>6, <2>1, <2>2, ProposalTypes DEF Analyze, Current
    <3> QED
      BY <1>6, <2>1, <2>2, <3>1
      DEF Analyze, TypeOK, storeVars, callerVars, ControlPoints
  <2>3. CASE AskModel("ambiguous_discrepancy") /\ UNCHANGED proposal
    <3>1. "ambiguous_discrepancy" \in Routes
      BY DEF Routes
    <3> QED
      BY <1>6, <2>1, <2>3, <3>1, AskModelType
      DEF Analyze, TypeOK, storeVars, callerVars, ControlPoints
  <2> QED
    BY <1>6, <2>2, <2>3 DEF Analyze
<1>7. CASE LogProposal
  BY <1>7, LogType
  DEF LogProposal, TierIf, Tiers, TypeOK, localVars, callerVars, ControlPoints
<1>8. CASE LogHandover
  BY <1>8, LogType DEF LogHandover, TypeOK, localVars, callerVars, ControlPoints
<1>9. CASE Validate
  <2>1. idx \in Positions
    BY <1>9 DEF Validate, TypeOK
  <2>2. /\ ValidatorFinding(Current) \in DiscrepancyKind
        /\ "disagreement_writeup" \in Routes
        /\ Decision(TRUE, ValidatorFinding(Current), FALSE) \in Decisions
    BY VerdictTypes DEF Routes, Decision, Decisions
  <2>3. /\ guard' \in GuardState /\ decision' \in Decisions
        /\ pc' \in {"capped", "misrouted", "calling", "judged"}
        /\ llm' \in [route : Routes, tokens : Nat]
        /\ pc' = "calling" => Configured(llm.route)'
    BY <1>9, <2>1, <2>2, WriteUpType DEF Validate, TypeOK
  <2> QED
    BY <1>9, <2>1, <2>3 DEF Validate, TypeOK, storeVars, callerVars, ControlPoints
<1>10. CASE LogVerdict
  BY <1>10, LogType
  DEF LogVerdict, TierIf, Tiers, TypeOK, localVars, callerVars, ControlPoints
<1>11. CASE CloseInvoice
  <2>1. idx \in Positions
    BY <1>11 DEF CloseInvoice, TypeOK
  <2>2. closed' \in Seq(TaskIds)
    BY <1>11, <2>1, TaskIdType DEF CloseInvoice, Current, TypeOK
  <2>3. log' \in Seq(LogRow) /\ run' = run
    BY <1>11, <2>1, LogType DEF CloseInvoice
  <2> QED
    BY <1>11, <2>1, <2>2, <2>3, NextInvoiceType DEF CloseInvoice, TypeOK, ControlPoints
<1>12. CASE ConfirmEscalation
  <2>1. idx \in Positions
    BY <1>12 DEF ConfirmEscalation, TypeOK
  <2>2. /\ decision.discrepancy \in DiscrepancyKind
        /\ "disagreement_writeup_escalated" \in Routes
    BY DEF Routes, TypeOK, Decisions
  <2>3. /\ guard' \in GuardState /\ decision' \in Decisions
        /\ pc' \in {"capped", "misrouted", "calling", "confirmed"}
        /\ llm' \in [route : Routes, tokens : Nat]
        /\ pc' = "calling" => Configured(llm.route)'
    BY <1>12, <2>1, <2>2, WriteUpType DEF ConfirmEscalation
  <2> QED
    BY <1>12, <2>1, <2>3
    DEF ConfirmEscalation, TypeOK, storeVars, callerVars, ControlPoints
<1>13. CASE HandToHuman
  <2>1. idx \in Positions
    BY <1>13 DEF HandToHuman, TypeOK
  <2>2. human_review' \in Seq(HumanReviewItem)
    BY <1>13, <2>1, ReviewItemType DEF HandToHuman, TypeOK
  <2>3. log' \in Seq(LogRow) /\ run' = run
    BY <1>13, <2>1, LogType DEF HandToHuman, TierIf, Tiers
  <2> QED
    BY <1>13, <2>1, <2>2, <2>3, NextInvoiceType DEF HandToHuman, TypeOK, ControlPoints
<1>14. CASE EscalateCapped
  <2>1. idx \in Positions
    BY <1>14 DEF EscalateCapped, TypeOK
  <2>2. CappedDecision \in Decisions
    BY DEF CappedDecision, Decision, Decisions, DiscrepancyKind
  <2>3. CapFallback \in HumanReviewItem
    BY <2>1, <2>2, ProposalTypes, ReviewItemType DEF CapFallback
  <2>4. human_review' \in Seq(HumanReviewItem)
    BY <1>14, <2>3 DEF EscalateCapped, TypeOK
  <2>5. log' \in Seq(LogRow) /\ run' = run
    BY <1>14, <2>1, LogType DEF EscalateCapped
  <2> QED
    BY <1>14, <2>1, <2>4, <2>5, NextInvoiceType
    DEF EscalateCapped, TypeOK, ControlPoints
<1>15. CASE CompleteRun
  <2>1. run' \in RunRow
    BY <1>15 DEF CompleteRun, complete_run, TypeOK, RunRow, RunStatus
  <2> QED
    BY <1>15, <2>1
    DEF CompleteRun, complete_run, TypeOK, localVars, callerVars, ControlPoints
<1>16. CASE HaltRun
  <2>1. run' \in RunRow
    BY <1>16 DEF HaltRun, halt_run, TypeOK, RunRow, RunStatus
  <2> QED
    BY <1>16, <2>1 DEF HaltRun, halt_run, TypeOK, localVars, callerVars, ControlPoints
<1>17. CASE ReturnResult
  <2>1. RunResult \in ReconciliationRunResult
    BY DEF TypeOK, RunResult, ReconciliationRunResult
  <2>2. results' \in Seq(ReconciliationRunResult)
    BY <1>17, <2>1 DEF ReturnResult, TypeOK
  <2> QED
    BY <1>17, <2>2, DroppedLocalsType DEF ReturnResult, TypeOK, storeVars, Outcomes
<1>18. CASE ProviderAnswers
  <2>1. PICK t \in CallTokens : llm' = [llm EXCEPT !.tokens = t]
    BY <1>18 DEF ProviderAnswers
  <2>2. t \in Nat
    BY PipelineAssumption
  <2>3. llm' \in [route : Routes, tokens : Nat] /\ llm'.route = llm.route
    BY <2>1, <2>2 DEF TypeOK
  <2>4. Configured(llm.route)'
    BY <1>18, <2>3 DEF ProviderAnswers, TypeOK, Configured, TierFor, ModelFor
  <2> QED
    BY <1>18, <2>3, <2>4
    DEF ProviderAnswers, TypeOK, storeVars, callerVars, ControlPoints
<1>19. CASE RecordUsage
  <2>1. idx \in Positions
    BY <1>19 DEF RecordUsage, TypeOK
  <2>2. /\ proposal' \in Proposals /\ decision' \in Decisions
        /\ pc' \in {"proposed", "judged", "confirmed", "halting"}
    BY <1>19, <2>1, ReadAnswerType DEF RecordUsage, TypeOK
  <2>3. llm' \in [route : Routes, tokens : Nat]
    BY <1>19 DEF RecordUsage, NoCall, Routes
  <2> QED
    BY <1>19, <2>1, <2>2, <2>3, RecordUsageType
    DEF RecordUsage, TypeOK, callerVars, ControlPoints
<1>20. CASE ProviderFails
  BY <1>20, DroppedLocalsType DEF ProviderFails, Raise, TypeOK, storeVars, Outcomes
<1>21. CASE Crash
  BY <1>21, DroppedLocalsType, NewGuardrailsType DEF Crash, TypeOK, storeVars, Outcomes
<1>22. CASE UNCHANGED vars
  BY <1>22 DEF TypeOK, vars, storeVars, localVars, callerVars, Configured, TierFor,
               ModelFor
<1> QED
  BY <1>1, <1>2, <1>3, <1>4, <1>5, <1>6, <1>7, <1>8, <1>9, <1>10, <1>11, <1>12,
     <1>13, <1>14, <1>15, <1>16, <1>17, <1>18, <1>19, <1>20, <1>21, <1>22
  DEF Next, ProgramStep

\* Type correctness of the run.
THEOREM TypeCorrect == Spec => []TypeOK
<1>1. Init => TypeOK
  BY InitType
<1>2. TypeOK /\ [Next]_vars => TypeOK'
  BY NextType
<1> QED
  BY <1>1, <1>2, PTL DEF Spec

-----------------------------------------------------------------------------
(* The log is append-only.                                                 *)

\* The steps that log, with the row each of them appends.
LoggedRow ==
    \/ BeginInvoice \/ LogProposal \/ LogHandover \/ LogVerdict
    \/ CloseInvoice \/ HandToHuman \/ EscalateCapped

\* Every other step leaves the log alone.
LEMMA OthersKeepLog ==
    ASSUME [Next]_vars, ~LoggedRow
    PROVE  log' = log
<1>1. CASE StartReconciliation \/ ResumeReconciliation
  BY <1>1 DEF StartReconciliation, ResumeReconciliation, Reconcile, start_run, storeVars
<1>2. CASE ResumeUnknownRun
  BY <1>2 DEF ResumeUnknownRun, storeVars
<1>3. CASE RefuseName \/ RefuseRoute \/ Analyze \/ Validate \/ ConfirmEscalation
  BY <1>3 DEF RefuseName, RefuseRoute, Analyze, Validate, ConfirmEscalation, storeVars
<1>4. CASE CompleteRun \/ HaltRun \/ ReturnResult
  BY <1>4 DEF CompleteRun, complete_run, HaltRun, halt_run, ReturnResult, storeVars
<1>5. CASE ProviderAnswers \/ RecordUsage \/ ProviderFails \/ Crash
  BY <1>5 DEF ProviderAnswers, RecordUsage, record_usage, store_record_usage,
              ProviderFails, Crash, storeVars
<1>6. CASE UNCHANGED vars
  BY <1>6 DEF vars, storeVars
<1> QED
  BY <1>1, <1>2, <1>3, <1>4, <1>5, <1>6 DEF Next, ProgramStep, LoggedRow

\* A logging step appends one row about the current invoice and leaves the
\* runs row alone.
LEMMA LoggedRowIsAppended ==
    ASSUME LoggedRow
    PROVE  /\ run' = run
           /\ \E from, to, tier : Log(from, to, tier)
BY DEF LoggedRow, BeginInvoice, LogProposal, LogHandover, LogVerdict, CloseInvoice,
       HandToHuman, EscalateCapped, Log, log_transition

\* Appending a row keeps the rows that were there and adds the new one last.
LEMMA AppendedLog ==
    ASSUME TypeOK, NEW from, NEW to, NEW tier, Log(from, to, tier)
    PROVE  /\ Len(log) \in Nat /\ Len(log') = Len(log) + 1
           /\ DOMAIN log = 1 .. Len(log) /\ DOMAIN log' = 1 .. Len(log) + 1
           /\ \A k \in DOMAIN log : k \in DOMAIN log' /\ log'[k] = log[k]
           /\ log'[Len(log) + 1].step_index = idx
           /\ log'[Len(log) + 1].from_state = from
           /\ log'[Len(log) + 1].to_state = to
           /\ log'[Len(log) + 1].model_tier = tier
<1> DEFINE row == [task_id |-> Current.invoice_id, step_index |-> idx,
                   from_state |-> from, to_state |-> to, model_tier |-> tier]
<1>1. log' = Append(log, row)
  BY DEF Log, log_transition
<1>2. log \in Seq(LogRow)
  BY DEF TypeOK
<1>3. /\ row.step_index = idx /\ row.from_state = from
      /\ row.to_state = to /\ row.model_tier = tier
  OBVIOUS
<1> HIDE DEF row
<1>4. /\ Len(log) \in Nat /\ Len(log') = Len(log) + 1
      /\ DOMAIN log = 1 .. Len(log) /\ DOMAIN log' = 1 .. Len(log) + 1
      /\ \A k \in DOMAIN log : k \in DOMAIN log' /\ log'[k] = log[k]
      /\ log'[Len(log) + 1] = row
  BY <1>1, <1>2
<1> QED
  BY <1>3, <1>4

\* A verdict in the log stays there.
LEMMA DecidedStays ==
    ASSUME TypeOK, [Next]_vars, NEW i, DecidedInLog(i)
    PROVE  DecidedInLog(i)'
<1>1. PICK k \in DOMAIN log : log[k].step_index = i /\ log[k].to_state \in Terminal
  BY DEF DecidedInLog
<1>2. CASE ~LoggedRow
  BY <1>1, <1>2, OthersKeepLog DEF DecidedInLog
<1>3. CASE LoggedRow
  <2>1. PICK from, to, tier : Log(from, to, tier)
    BY <1>3, LoggedRowIsAppended
  <2>2. k \in DOMAIN log' /\ log'[k] = log[k]
    BY <2>1, <1>1, AppendedLog
  <2> QED
    BY <1>1, <2>2 DEF DecidedInLog
<1> QED
  BY <1>2, <1>3

\* Logging a terminal state decides the current invoice.
LEMMA TerminalRowDecides ==
    ASSUME TypeOK, NEW i, idx = i,
           NEW from, NEW to \in Terminal, NEW tier, Log(from, to, tier)
    PROVE  DecidedInLog(i)'
<1>1. /\ Len(log) + 1 \in DOMAIN log'
      /\ log'[Len(log) + 1].step_index = i /\ log'[Len(log) + 1].to_state = to
  BY AppendedLog
<1> QED
  BY <1>1 DEF DecidedInLog

-----------------------------------------------------------------------------
(* The checkpoint.                                                         *)

\* A run without a row has no past.
LEMMA AbsentStep ==
    ASSUME TypeOK, [Next]_vars, AbsentRunIsBlank
    PROVE  AbsentRunIsBlank'
<1>1. CASE StartReconciliation \/ ResumeReconciliation
  BY <1>1 DEF StartReconciliation, ResumeReconciliation, Reconcile, start_run,
              RunExists, Raise, DropLocals, EnterLoop, storeVars, AbsentRunIsBlank
<1>2. CASE \/ ResumeUnknownRun \/ RefuseName \/ RefuseRoute \/ ReturnResult
           \/ ProviderFails \/ Crash
  BY <1>2 DEF ResumeUnknownRun, RefuseName, RefuseRoute, ReturnResult,
              ProviderFails, Crash, Raise, DropLocals, storeVars, RunExists, AbsentRunIsBlank
<1>3. CASE LoggedRow
  <2>1. run' = run /\ pc # "idle"
    BY <1>3, LoggedRowIsAppended
    DEF LoggedRow, BeginInvoice, LogProposal, LogHandover, LogVerdict, CloseInvoice,
        HandToHuman, EscalateCapped
  <2> QED
    BY <2>1 DEF RunExists, AbsentRunIsBlank
<1>4. CASE Analyze \/ Validate \/ ConfirmEscalation \/ ProviderAnswers
  BY <1>4 DEF Analyze, Validate, ConfirmEscalation, ProviderAnswers, storeVars,
              RunExists, AbsentRunIsBlank
<1>5. CASE CompleteRun \/ HaltRun
  BY <1>5 DEF CompleteRun, complete_run, HaltRun, halt_run, TypeOK, RunRow, RunExists,
              AbsentRunIsBlank
<1>6. CASE RecordUsage
  <2>1. run'.status = run.status /\ pc # "idle"
    BY <1>6 DEF RecordUsage, record_usage, store_record_usage, TypeOK, RunRow
  <2> QED
    BY <2>1 DEF RunExists, AbsentRunIsBlank
<1>7. CASE UNCHANGED vars
  BY <1>7 DEF vars, storeVars, RunExists, AbsentRunIsBlank
<1> QED
  BY <1>1, <1>2, <1>3, <1>4, <1>5, <1>6, <1>7 DEF Next, ProgramStep, LoggedRow

\* A call enters its loop at index 0 or at the checkpoint of the row.
LEMMA EntryIndex ==
    ASSUME TypeOK, StartReconciliation \/ ResumeReconciliation
    PROVE  /\ pc' # "idle" => idx' \in {0, run.resume_index}
           /\ run'.resume_index \in {0, run.resume_index}
           /\ run'.status = "completed" => run.status = "completed"
<1>1. ASSUME NEW start \in {0, run.resume_index}, NEW g, NEW ps, Reconcile(start, g, ps)
      PROVE  /\ pc' # "idle" => idx' \in {0, run.resume_index}
             /\ run'.resume_index \in {0, run.resume_index}
             /\ run'.status = "completed" => run.status = "completed"
  BY <1>1 DEF Reconcile, start_run, EnterLoop, Raise, DropLocals, storeVars
<1> QED
  BY <1>1 DEF StartReconciliation, ResumeReconciliation

\* A step that is neither an entry nor the end of an invoice keeps the loop
\* index, or ends the call.
LEMMA IndexKept ==
    ASSUME [Next]_vars, ~(StartReconciliation \/ ResumeReconciliation),
           ~(CloseInvoice \/ HandToHuman \/ EscalateCapped)
    PROVE  (idx' = idx /\ (pc' # "idle" => pc # "idle")) \/ pc' = "idle"
<1>1. CASE BeginInvoice \/ LogProposal \/ LogHandover \/ LogVerdict
  BY <1>1 DEF BeginInvoice, LogProposal, LogHandover, LogVerdict
<1>2. CASE \/ RefuseName \/ RefuseRoute \/ ResumeUnknownRun \/ ProviderFails
           \/ Crash \/ ReturnResult
  BY <1>2 DEF RefuseName, RefuseRoute, ResumeUnknownRun, ProviderFails,
              Crash, ReturnResult, Raise, DropLocals
<1>3. CASE Analyze \/ Validate \/ ConfirmEscalation
  BY <1>3 DEF Analyze, Validate, ConfirmEscalation
<1>4. CASE CompleteRun \/ HaltRun
  BY <1>4 DEF CompleteRun, HaltRun
<1>5. CASE ProviderAnswers \/ RecordUsage
  BY <1>5 DEF ProviderAnswers, RecordUsage
<1>6. CASE UNCHANGED vars
  BY <1>6 DEF vars
<1> QED
  BY <1>1, <1>2, <1>3, <1>4, <1>5, <1>6 DEF Next, ProgramStep

\* Only the two ends of a run and the entries change its status or its
\* checkpoint.
LEMMA RowKept ==
    ASSUME TypeOK, [Next]_vars, ~(StartReconciliation \/ ResumeReconciliation),
           ~(CompleteRun \/ HaltRun)
    PROVE  run'.resume_index = run.resume_index /\ run'.status = run.status
<1>1. CASE LoggedRow
  BY <1>1, LoggedRowIsAppended
<1>2. CASE RefuseName \/ RefuseRoute \/ Analyze \/ Validate \/ ConfirmEscalation
  BY <1>2 DEF RefuseName, RefuseRoute, Analyze, Validate, ConfirmEscalation, storeVars
<1>3. CASE ReturnResult \/ ProviderAnswers \/ ProviderFails \/ Crash \/ ResumeUnknownRun
  BY <1>3 DEF ReturnResult, ProviderAnswers, ProviderFails, Crash, ResumeUnknownRun,
              storeVars
<1>4. CASE RecordUsage
  BY <1>4 DEF RecordUsage, record_usage, store_record_usage, TypeOK, RunRow
<1>5. CASE UNCHANGED vars
  BY <1>5 DEF vars, storeVars
<1> QED
  BY <1>1, <1>2, <1>3, <1>4, <1>5 DEF Next, ProgramStep, LoggedRow

\* What a call has passed is decided, step by step.
LEMMA PassedStep ==
    ASSUME TypeOK, [Next]_vars, PassedIsDecided, CheckpointDecided
    PROVE  PassedIsDecided'
<1> SUFFICES ASSUME pc' # "idle", NEW i \in Positions, i < idx'
             PROVE  DecidedInLog(i)'
  BY DEF PassedIsDecided
<1>1. i \in Nat
  BY BatchLength DEF Positions
<1>2. CASE StartReconciliation \/ ResumeReconciliation
  <2>1. i < run.resume_index
    BY <1>1, <1>2, EntryIndex
  <2> QED
    BY <2>1, DecidedStays DEF CheckpointDecided
<1>3. CASE CloseInvoice \/ HandToHuman \/ EscalateCapped
  <2>1. pc # "idle" /\ idx \in Nat /\ idx' = idx + 1
    BY <1>3, BatchLength
    DEF CloseInvoice, HandToHuman, EscalateCapped, NextInvoice, TypeOK
  <2>2. CASE i < idx
    BY <2>1, <2>2, DecidedStays DEF PassedIsDecided
  <2>3. CASE i = idx
    <3>1. "closed" \in Terminal /\ "human_review" \in Terminal
      BY DEF Terminal
    <3>2. CASE CloseInvoice
      BY <2>3, <3>1, <3>2, TerminalRowDecides DEF CloseInvoice
    <3>3. CASE HandToHuman
      BY <2>3, <3>1, <3>3, TerminalRowDecides DEF HandToHuman
    <3>4. CASE EscalateCapped
      BY <2>3, <3>1, <3>4, TerminalRowDecides DEF EscalateCapped
    <3> QED
      BY <1>3, <3>2, <3>3, <3>4
  <2> QED
    BY <1>1, <2>1, <2>2, <2>3
<1>4. CASE /\ ~(StartReconciliation \/ ResumeReconciliation)
           /\ ~(CloseInvoice \/ HandToHuman \/ EscalateCapped)
  <2>1. pc # "idle" /\ i < idx
    BY <1>4, IndexKept
  <2> QED
    BY <2>1, DecidedStays DEF PassedIsDecided
<1> QED
  BY <1>2, <1>3, <1>4

\* The checkpoint moves only over what the call has passed.
LEMMA CheckpointStep ==
    ASSUME TypeOK, [Next]_vars, PassedIsDecided, CheckpointDecided
    PROVE  CheckpointDecided'
<1> SUFFICES ASSUME NEW i \in Positions,
                    i < run'.resume_index \/ run'.status = "completed"
             PROVE  DecidedInLog(i)'
  BY DEF CheckpointDecided
<1>1. i \in Nat
  BY BatchLength DEF Positions
<1>2. CASE StartReconciliation \/ ResumeReconciliation
  <2>1. i < run.resume_index \/ run.status = "completed"
    BY <1>1, <1>2, EntryIndex
  <2> QED
    BY <2>1, DecidedStays DEF CheckpointDecided
<1>3. CASE CompleteRun
  <2>1. pc # "idle" /\ i < idx
    BY <1>3, BatchLength DEF CompleteRun, Positions
  <2> QED
    BY <2>1, DecidedStays DEF PassedIsDecided
<1>4. CASE HaltRun
  <2>1. /\ pc # "idle"
        /\ run' = [run EXCEPT !.status = "halted", !.resume_index = idx]
    BY <1>4 DEF HaltRun, halt_run
  <2>2. i < idx
    BY <2>1 DEF TypeOK, RunRow
  <2> QED
    BY <2>1, <2>2, DecidedStays DEF PassedIsDecided
<1>5. CASE /\ ~(StartReconciliation \/ ResumeReconciliation)
           /\ ~(CompleteRun \/ HaltRun)
  <2>1. run'.resume_index = run.resume_index /\ run'.status = run.status
    BY <1>5, RowKept
  <2> QED
    BY <2>1, DecidedStays DEF CheckpointDecided
<1> QED
  BY <1>2, <1>3, <1>4, <1>5

\* The checkpoint never passes an invoice without a verdict in the log.
THEOREM CheckpointCorrect == Spec => []CheckpointDecided
<1>1. Init => PassedIsDecided /\ CheckpointDecided
  BY BatchLength DEF Init, StoreInit, NoRun, PassedIsDecided, CheckpointDecided, Positions
<1>2. /\ TypeOK /\ PassedIsDecided /\ CheckpointDecided
      /\ [Next]_vars
      => PassedIsDecided' /\ CheckpointDecided'
  BY PassedStep, CheckpointStep
<1> QED
  BY <1>1, <1>2, TypeCorrect, PTL DEF Spec

\* A call starts at the checkpoint, moves forward and halts where it is.
LEMMA PastCheckpointStep ==
    ASSUME TypeOK, [Next]_vars, CallIsPastCheckpoint, AbsentRunIsBlank
    PROVE  CallIsPastCheckpoint'
<1>1. CASE StartReconciliation \/ ResumeReconciliation
  <2>1. ASSUME NEW start \in {0, run.resume_index}, NEW g, NEW ps,
               Reconcile(start, g, ps), pc' # "idle"
        PROVE  idx' = start /\ run'.resume_index = start
    BY <2>1 DEF Reconcile, start_run, EnterLoop, Raise, DropLocals, storeVars,
                TypeOK, RunRow
  <2>2. pc' # "idle" => idx' = run'.resume_index /\ idx' \in Int
    BY <1>1, <2>1 DEF StartReconciliation, ResumeReconciliation, TypeOK, RunRow
  <2> QED
    BY <2>2 DEF CallIsPastCheckpoint
<1>2. CASE CloseInvoice \/ HandToHuman \/ EscalateCapped
  <2>1. pc # "idle" /\ idx \in Int /\ idx' = idx + 1 /\ run' = run
    BY <1>2, LoggedRowIsAppended, BatchLength
    DEF LoggedRow, CloseInvoice, HandToHuman, EscalateCapped, NextInvoice, TypeOK
  <2> QED
    BY <2>1 DEF CallIsPastCheckpoint, TypeOK, RunRow
<1>3. CASE CompleteRun \/ HaltRun
  <2>1. idx' = idx /\ run'.resume_index \in {idx, run.resume_index} /\ pc # "idle"
    BY <1>3 DEF CompleteRun, complete_run, HaltRun, halt_run, TypeOK, RunRow
  <2> QED
    BY <2>1 DEF CallIsPastCheckpoint, TypeOK
<1>4. CASE /\ ~(StartReconciliation \/ ResumeReconciliation)
           /\ ~(CloseInvoice \/ HandToHuman \/ EscalateCapped)
           /\ ~(CompleteRun \/ HaltRun)
  BY <1>4, IndexKept, RowKept DEF CallIsPastCheckpoint
<1> QED
  BY <1>1, <1>2, <1>3, <1>4

\* No step moves the checkpoint back, and only the halt moves it.
LEMMA MonotoneStep ==
    ASSUME TypeOK, [Next]_vars, CallIsPastCheckpoint, AbsentRunIsBlank
    PROVE  /\ run'.resume_index >= run.resume_index
           /\ run'.resume_index # run.resume_index => run'.status = "halted"
<1>1. run.resume_index \in Int
  BY DEF TypeOK, RunRow
<1>2. CASE StartReconciliation \/ ResumeReconciliation
  <2>1. run' = run \/ (~RunExists /\ run'.resume_index = 0)
    BY <1>2 DEF StartReconciliation, ResumeReconciliation, Reconcile, start_run, storeVars
  <2> QED
    BY <1>1, <2>1 DEF AbsentRunIsBlank
<1>3. CASE CompleteRun
  BY <1>1, <1>3 DEF CompleteRun, complete_run, TypeOK, RunRow
<1>4. CASE HaltRun
  <2>1. run' = [run EXCEPT !.status = "halted", !.resume_index = idx] /\ pc # "idle"
    BY <1>4 DEF HaltRun, halt_run
  <2> QED
    BY <2>1 DEF CallIsPastCheckpoint, TypeOK, RunRow
<1>5. CASE /\ ~(StartReconciliation \/ ResumeReconciliation)
           /\ ~(CompleteRun \/ HaltRun)
  BY <1>1, <1>5, RowKept
<1> QED
  BY <1>2, <1>3, <1>4, <1>5

\* The checkpoint only moves forward, and only when a call halts.
THEOREM CheckpointIsMonotone == Spec => CheckpointMonotone
<1>1. Init => CallIsPastCheckpoint /\ AbsentRunIsBlank
  BY DEF Init, StoreInit, NoRun, CallIsPastCheckpoint, AbsentRunIsBlank, RunExists
<1>2. /\ TypeOK /\ CallIsPastCheckpoint /\ AbsentRunIsBlank
      /\ [Next]_vars
      => CallIsPastCheckpoint' /\ AbsentRunIsBlank'
  BY PastCheckpointStep, AbsentStep
<1>3. /\ TypeOK /\ CallIsPastCheckpoint /\ AbsentRunIsBlank
      /\ [Next]_vars
      => [ /\ run'.resume_index >= run.resume_index
           /\ run'.resume_index # run.resume_index => run'.status = "halted" ]_vars
  BY MonotoneStep
<1> QED
  BY <1>1, <1>2, <1>3, TypeCorrect, PTL DEF Spec, CheckpointMonotone

-----------------------------------------------------------------------------
(* The verdicts.                                                           *)

\* The only steps that leave the call at a verdict; any other leads elsewhere
\* or does nothing at all.
LEMMA VerdictPoints ==
    ASSUME [Next]_vars,
           ~(Validate \/ LogVerdict \/ ConfirmEscalation \/ RecordUsage)
    PROVE  \/ pc' \notin {"judged", "approved", "escalated", "confirmed"}
           \/ pc' = pc /\ idx' = idx /\ decision' = decision
<1>1. CASE StartReconciliation \/ ResumeReconciliation
  BY <1>1 DEF StartReconciliation, ResumeReconciliation, Reconcile, EnterLoop,
              Raise, DropLocals
<1>2. CASE \/ RefuseName \/ RefuseRoute \/ ResumeUnknownRun \/ ProviderFails
           \/ Crash \/ ReturnResult
  BY <1>2 DEF RefuseName, RefuseRoute, ResumeUnknownRun, ProviderFails,
              Crash, ReturnResult, Raise, DropLocals
<1>3. CASE BeginInvoice \/ LogProposal \/ LogHandover \/ CompleteRun \/ HaltRun
  BY <1>3 DEF BeginInvoice, LogProposal, LogHandover, CompleteRun, HaltRun
<1>4. CASE CloseInvoice \/ HandToHuman \/ EscalateCapped
  BY <1>4 DEF CloseInvoice, HandToHuman, EscalateCapped, NextInvoice
<1>5. CASE Analyze
  BY <1>5 DEF Analyze, AskModel
<1>6. CASE ProviderAnswers
  BY <1>6 DEF ProviderAnswers
<1>7. CASE UNCHANGED vars
  BY <1>7 DEF vars, localVars
<1> QED
  BY <1>1, <1>2, <1>3, <1>4, <1>5, <1>6, <1>7 DEF Next, ProgramStep

\* An agreement is sound when it is made and until the invoice is closed.
LEMMA ApprovalStep ==
    ASSUME TypeOK, [Next]_vars, ApprovalIsSound
    PROVE  ApprovalIsSound'
<1>1. CASE Validate
  <2>1. Current' = Current /\ pc' \in {"judged", "calling", "capped", "misrouted"}
    BY <1>1 DEF Validate, Current, WriteUp, AskModel
  <2>2. pc' = "judged" /\ decision'.agrees => ValidatorAgrees(Current, proposal)
    BY <1>1 DEF Validate, WriteUp, AskModel, Decision
  <2> QED
    BY <2>1, <2>2 DEF ApprovalIsSound, ValidatorAgrees
<1>2. CASE LogVerdict
  BY <1>2 DEF LogVerdict, ApprovalIsSound, localVars, Current
<1>3. CASE ConfirmEscalation
  <2>1. pc' = "confirmed" => ~decision'.agrees
    BY <1>3 DEF ConfirmEscalation, WriteUp, AskModel, Decision
  <2>2. pc' \in {"confirmed", "calling", "capped", "misrouted"}
    BY <1>3 DEF ConfirmEscalation, WriteUp, AskModel
  <2> QED
    BY <2>1, <2>2 DEF ApprovalIsSound
<1>4. CASE RecordUsage
  <2>1. pc' \in {"judged", "confirmed"} => ~decision'.agrees
    BY <1>4 DEF RecordUsage, ReadAnswer, Decision
  <2>2. pc' \in {"proposed", "judged", "confirmed", "halting"}
    BY <1>4 DEF RecordUsage, ReadAnswer
  <2> QED
    BY <2>1, <2>2 DEF ApprovalIsSound
<1>5. CASE ~(Validate \/ LogVerdict \/ ConfirmEscalation \/ RecordUsage)
  <2>1. CASE pc' \notin {"judged", "approved", "escalated", "confirmed"}
    BY <2>1 DEF ApprovalIsSound
  <2>2. CASE pc' = pc /\ idx' = idx /\ decision' = decision
    BY <2>2 DEF ApprovalIsSound, Current
  <2> QED
    BY <1>5, <2>1, <2>2, VerdictPoints
<1> QED
  BY <1>1, <1>2, <1>3, <1>4, <1>5

\* Only an approved invoice gets a closed row.
LEMMA DoubtfulStep ==
    ASSUME TypeOK, [Next]_vars, ApprovalIsSound, DoubtfulDateNeverClosed
    PROVE  DoubtfulDateNeverClosed'
<1>1. CASE ~LoggedRow
  BY <1>1, OthersKeepLog DEF DoubtfulDateNeverClosed
<1>2. CASE LoggedRow
  <2>1. PICK from, to, tier :
            /\ Log(from, to, tier)
            /\ to = "closed" => pc = "approved"
    BY <1>2 DEF LoggedRow, BeginInvoice, LogProposal, LogHandover, LogVerdict,
                CloseInvoice, HandToHuman, EscalateCapped
  <2> SUFFICES ASSUME NEW k \in DOMAIN log', log'[k].to_state = "closed"
               PROVE  ValidatorFinding(Invoice(log'[k].step_index))
                          \notin {"date_drift", "unparseable_date"}
    BY DEF DoubtfulDateNeverClosed
  <2>2. CASE k \in DOMAIN log
    BY <2>1, <2>2, AppendedLog DEF DoubtfulDateNeverClosed
  <2>3. CASE k = Len(log) + 1
    BY <2>1, <2>3, AppendedLog DEF ApprovalIsSound, Current
  <2> QED
    BY <2>1, <2>2, <2>3, AppendedLog
<1> QED
  BY <1>1, <1>2

\* Whatever the providers answer, an invoice dated beyond the Validator's
\* tolerance of its job, or unreadably, is never closed.
THEOREM DoubtfulDatesEscalate == Spec => []DoubtfulDateNeverClosed
<1>1. Init => ApprovalIsSound /\ DoubtfulDateNeverClosed
  BY DEF Init, StoreInit, NoRun, ApprovalIsSound, DoubtfulDateNeverClosed
<1>2. /\ TypeOK /\ ApprovalIsSound /\ DoubtfulDateNeverClosed
      /\ [Next]_vars
      => ApprovalIsSound' /\ DoubtfulDateNeverClosed'
  BY ApprovalStep, DoubtfulStep
<1> QED
  BY <1>1, <1>2, TypeCorrect, PTL DEF Spec

-----------------------------------------------------------------------------
(* The log follows the Validator.                                          *)

\* The control points that stand for a verdict already logged.
LEMMA ControlStep ==
    ASSUME TypeOK, [Next]_vars, ApprovalIsSound, ControlFollowsLog
    PROVE  ControlFollowsLog'
<1>1. CASE Validate
  <2>1. /\ pc' \in {"judged", "calling", "capped", "misrouted"}
        /\ pc' = "calling" => llm'.route = "disagreement_writeup"
    BY <1>1 DEF Validate, WriteUp, AskModel, NoCall
  <2> QED
    BY <2>1 DEF ControlFollowsLog
<1>2. CASE LogVerdict
  <2> DEFINE verdict == IF decision.agrees THEN "validator_approved"
                                           ELSE "validator_escalated"
             tier == TierIf(decision.used_llm, "mid")
  <2>1. Log("validator_reviewing", verdict, tier) /\ idx' = idx
    BY <1>2 DEF LogVerdict
  <2>2. pc' = IF decision.agrees THEN "approved" ELSE "escalated"
    BY <1>2 DEF LogVerdict
  <2>3. PICK v, t : v = verdict /\ Log("validator_reviewing", v, t)
    BY <2>1
  <2>4. LastRowIs(v)'
    BY <2>1, <2>3, AppendedLog DEF LastRowIs
  <2> QED
    BY <2>2, <2>3, <2>4 DEF ControlFollowsLog
<1>3. CASE ConfirmEscalation
  <2>1. pc = "escalated" /\ log' = log /\ idx' = idx
    BY <1>3 DEF ConfirmEscalation, storeVars
  <2>2. pc' \in {"confirmed", "calling", "capped", "misrouted"}
    BY <1>3 DEF ConfirmEscalation, WriteUp, AskModel
  <2>3. LastRowIs("validator_escalated")'
    BY <2>1 DEF ControlFollowsLog, LastRowIs
  <2> QED
    BY <2>2, <2>3 DEF ControlFollowsLog
<1>4. CASE RecordUsage
  <2>1. /\ pc' \in {"proposed", "judged", "confirmed", "halting"}
        /\ pc' = "confirmed" => llm.route = "disagreement_writeup_escalated"
        /\ pc = "recording" /\ log' = log /\ idx' = idx
    BY <1>4 DEF RecordUsage, ReadAnswer, record_usage, store_record_usage
  <2> QED
    BY <2>1 DEF ControlFollowsLog, LastRowIs
<1>5. CASE Analyze
  <2>1. /\ pc' \in {"proposed", "calling", "capped", "misrouted"}
        /\ pc' = "calling" => llm'.route = "ambiguous_discrepancy"
    BY <1>5 DEF Analyze, AskModel, NoCall
  <2> QED
    BY <2>1 DEF ControlFollowsLog
<1>6. CASE ProviderAnswers
  <2>1. /\ pc = "calling" /\ pc' = "recording" /\ llm'.route = llm.route
        /\ log' = log /\ idx' = idx
    BY <1>6 DEF ProviderAnswers, storeVars, TypeOK
  <2> QED
    BY <2>1 DEF ControlFollowsLog, LastRowIs
<1>7. CASE StartReconciliation \/ ResumeReconciliation
  <2>1. pc' \in {"idle", "loop"}
    BY <1>7 DEF StartReconciliation, ResumeReconciliation, Reconcile, EnterLoop,
                Raise, DropLocals
  <2> QED
    BY <2>1 DEF ControlFollowsLog
<1>8. CASE \/ RefuseName \/ RefuseRoute \/ ResumeUnknownRun \/ ProviderFails
           \/ Crash \/ ReturnResult
  <2>1. pc' = "idle"
    BY <1>8 DEF RefuseName, RefuseRoute, ResumeUnknownRun, ProviderFails,
                Crash, ReturnResult, Raise, DropLocals
  <2> QED
    BY <2>1 DEF ControlFollowsLog
<1>9. CASE BeginInvoice \/ LogProposal \/ LogHandover \/ CompleteRun \/ HaltRun
  <2>1. pc' \in {"analyze", "handover", "validate", "returning"}
    BY <1>9 DEF BeginInvoice, LogProposal, LogHandover, CompleteRun, HaltRun
  <2> QED
    BY <2>1 DEF ControlFollowsLog
<1>10. CASE CloseInvoice \/ HandToHuman \/ EscalateCapped
  <2>1. pc' = "loop"
    BY <1>10 DEF CloseInvoice, HandToHuman, EscalateCapped, NextInvoice
  <2> QED
    BY <2>1 DEF ControlFollowsLog
<1>11. CASE UNCHANGED vars
  BY <1>11 DEF vars, storeVars, localVars, ControlFollowsLog, LastRowIs
<1> QED
  BY <1>1, <1>2, <1>3, <1>4, <1>5, <1>6, <1>7, <1>8, <1>9, <1>10, <1>11
  DEF Next, ProgramStep

\* The rows a step can append: a verdict on the last row, or a row that
\* neither gives nor follows a verdict of the Validator.
LEMMA AppendedRow ==
    ASSUME TypeOK, LoggedRow, ControlFollowsLog
    PROVE  \E from, to, tier :
               /\ Log(from, to, tier)
               /\ \/ /\ from = "validator_approved" /\ to = "closed"
                     /\ LastRowIs("validator_approved")
                  \/ /\ from = "validator_escalated" /\ to = "human_review"
                     /\ LastRowIs("validator_escalated")
                  \/ /\ from \notin {"validator_approved", "validator_escalated"}
                     /\ to # "closed"
<1>1. CASE BeginInvoice
  BY <1>1 DEF BeginInvoice
<1>2. CASE LogProposal
  BY <1>2 DEF LogProposal
<1>3. CASE LogHandover
  BY <1>3 DEF LogHandover
<1>4. CASE LogVerdict
  BY <1>4 DEF LogVerdict
<1>5. CASE CloseInvoice
  BY <1>5 DEF CloseInvoice, ControlFollowsLog
<1>6. CASE HandToHuman
  BY <1>6 DEF HandToHuman, ControlFollowsLog
<1>7. CASE EscalateCapped
  BY <1>7 DEF EscalateCapped
<1> QED
  BY <1>1, <1>2, <1>3, <1>4, <1>5, <1>6, <1>7 DEF LoggedRow

\* Every step of the run keeps the verdict rows next to the Validator rows
\* they rest on.
LEMMA VerdictStep ==
    ASSUME TypeOK, [Next]_vars, ControlFollowsLog, VerdictFollowsValidator
    PROVE  VerdictFollowsValidator'
<1>1. CASE ~LoggedRow
  BY <1>1, OthersKeepLog DEF VerdictFollowsValidator
<1>2. CASE LoggedRow
  <2>1. PICK from, to, tier :
            /\ Log(from, to, tier)
            /\ \/ /\ from = "validator_approved" /\ to = "closed"
                  /\ LastRowIs("validator_approved")
               \/ /\ from = "validator_escalated" /\ to = "human_review"
                  /\ LastRowIs("validator_escalated")
               \/ /\ from \notin {"validator_approved", "validator_escalated"}
                  /\ to # "closed"
    BY <1>2, AppendedRow
  <2> DEFINE n == Len(log)
  <2>2. /\ n \in Nat /\ DOMAIN log = 1 .. n /\ DOMAIN log' = 1 .. n + 1
        /\ \A k \in DOMAIN log : log'[k] = log[k]
        /\ log'[n + 1].step_index = idx /\ log'[n + 1].from_state = from
        /\ log'[n + 1].to_state = to
    BY <2>1, AppendedLog
  <2>3. log # <<>> => n > 0
    BY <2>2 DEF TypeOK
  <2> HIDE DEF n
  <2> SUFFICES ASSUME NEW k \in DOMAIN log'
               PROVE
         /\ log'[k].from_state = "validator_approved" \/ log'[k].to_state = "closed" =>
                /\ k > 1
                /\ log'[k].to_state = "closed"
                /\ log'[k - 1].to_state = "validator_approved"
                /\ log'[k - 1].step_index = log'[k].step_index
         /\ log'[k].from_state = "validator_escalated" =>
                /\ k > 1
                /\ log'[k].to_state = "human_review"
                /\ log'[k - 1].to_state = "validator_escalated"
                /\ log'[k - 1].step_index = log'[k].step_index
    BY DEF VerdictFollowsValidator
  <2>4. CASE k \in DOMAIN log
    <3>1. log'[k] = log[k] /\ (k > 1 => log'[k - 1] = log[k - 1])
      BY <2>2, <2>4
    <3> QED
      BY <2>4, <3>1 DEF VerdictFollowsValidator
  <2>5. CASE k = n + 1
    <3>1. LastRowIs("validator_approved") =>
              /\ k > 1 /\ log'[k - 1].to_state = "validator_approved"
              /\ log'[k - 1].step_index = idx
      BY <2>2, <2>3, <2>5 DEF LastRowIs, n
    <3>2. LastRowIs("validator_escalated") =>
              /\ k > 1 /\ log'[k - 1].to_state = "validator_escalated"
              /\ log'[k - 1].step_index = idx
      BY <2>2, <2>3, <2>5 DEF LastRowIs, n
    <3> QED
      BY <2>1, <2>2, <2>5, <3>1, <3>2
  <2> QED
    BY <2>2, <2>4, <2>5
<1> QED
  BY <1>1, <1>2

\* Every closing and every hand-over to a human rests on the Validator's row
\* right before it.
THEOREM VerdictsFollowValidator == Spec => []VerdictFollowsValidator
<1>1. Init => ApprovalIsSound /\ ControlFollowsLog /\ VerdictFollowsValidator
  BY DEF Init, StoreInit, NoRun, ApprovalIsSound, ControlFollowsLog, VerdictFollowsValidator
<1>2. /\ TypeOK /\ ApprovalIsSound /\ ControlFollowsLog /\ VerdictFollowsValidator
      /\ [Next]_vars
      => ApprovalIsSound' /\ ControlFollowsLog' /\ VerdictFollowsValidator'
  BY ApprovalStep, ControlStep, VerdictStep
<1> QED
  BY <1>1, <1>2, TypeCorrect, PTL DEF Spec

-----------------------------------------------------------------------------
(* The budget.                                                             *)

\* Recording is the only spending, and it either stays within the budget or
\* leads to the halt.
LEMMA SpendStep ==
    ASSUME TypeOK, [Next]_vars, AbsentRunIsBlank, SpendStopsAtBudget
    PROVE  SpendStopsAtBudget'
<1>1. CASE StartReconciliation \/ ResumeReconciliation
  <2>1. pc' # "idle" => run'.tokens_used = run.tokens_used
                        /\ segment'.tokens = run.tokens_used
    BY <1>1 DEF StartReconciliation, ResumeReconciliation, Reconcile, start_run, Raise,
                DropLocals, EnterLoop, storeVars, AbsentRunIsBlank
  <2> QED
    BY <2>1 DEF SpendStopsAtBudget
<1>2. CASE \/ ResumeUnknownRun \/ RefuseName \/ RefuseRoute \/ ReturnResult
           \/ ProviderFails \/ Crash \/ CompleteRun \/ HaltRun
  <2>1. pc' \in {"idle", "returning"}
    BY <1>2 DEF ResumeUnknownRun, RefuseName, RefuseRoute, ReturnResult,
                ProviderFails, Crash, Raise, DropLocals, CompleteRun, HaltRun
  <2> QED
    BY <2>1 DEF SpendStopsAtBudget
<1>3. CASE LoggedRow
  <2>1. /\ run' = run /\ guard' = guard /\ segment' = segment
        /\ pc \notin {"idle", "halting", "returning"}
    BY <1>3, LoggedRowIsAppended
    DEF LoggedRow, BeginInvoice, LogProposal, LogHandover, LogVerdict, CloseInvoice,
        HandToHuman, EscalateCapped, NextInvoice
  <2> QED
    BY <2>1 DEF SpendStopsAtBudget
<1>4. CASE Analyze \/ Validate \/ ConfirmEscalation \/ ProviderAnswers
  <2>1. /\ run' = run /\ segment' = segment
        /\ pc \notin {"idle", "halting", "returning"}
    BY <1>4 DEF Analyze, Validate, ConfirmEscalation, ProviderAnswers, storeVars
  <2>2. guard'.token_budget = guard.token_budget
    BY <1>4 DEF Analyze, Validate, ConfirmEscalation, ProviderAnswers, WriteUp,
                AskModel, CountIteration, TypeOK, GuardState
  <2> QED
    BY <2>1, <2>2 DEF SpendStopsAtBudget
<1>5. CASE RecordUsage
  <2>1. /\ run' = [run EXCEPT !.tokens_used = @ + llm.tokens]
        /\ pc' # "halting" => ~BudgetExceededBy(llm.tokens)
    BY <1>5 DEF RecordUsage, record_usage, store_record_usage
  <2>2. guard'.token_budget = guard.token_budget
    BY <1>5 DEF RecordUsage, record_usage, TypeOK, GuardState
  <2>3. run'.tokens_used = run.tokens_used + llm.tokens
    <3>1. run \in RunRow
      BY DEF TypeOK
    <3> QED
      BY ONLY <2>1, <3>1 DEF RunRow
  <2>4. ~BudgetExceededBy(llm.tokens) =>
            run.tokens_used + llm.tokens <= guard.token_budget
    <3>1. run.tokens_used \in Nat /\ llm.tokens \in Nat /\ guard.token_budget \in Nat
      BY DEF TypeOK, RunRow, GuardState
    <3> QED
      BY <3>1 DEF BudgetExceededBy
  <2> QED
    BY <2>1, <2>2, <2>3, <2>4 DEF SpendStopsAtBudget
<1>6. CASE UNCHANGED vars
  BY <1>6 DEF vars, storeVars, SpendStopsAtBudget
<1> QED
  BY <1>1, <1>2, <1>3, <1>4, <1>5, <1>6 DEF Next, ProgramStep, LoggedRow

\* At most one answer is recorded past the budget in a call.
THEOREM BudgetRespected == Spec => []SpendStopsAtBudget
<1>1. Init => AbsentRunIsBlank /\ SpendStopsAtBudget
  BY DEF Init, StoreInit, NoRun, RunExists, AbsentRunIsBlank, SpendStopsAtBudget
<1>2. /\ TypeOK /\ AbsentRunIsBlank /\ SpendStopsAtBudget
      /\ [Next]_vars
      => AbsentRunIsBlank' /\ SpendStopsAtBudget'
  BY AbsentStep, SpendStep
<1> QED
  BY <1>1, <1>2, TypeCorrect, PTL DEF Spec

-----------------------------------------------------------------------------
(* What a person is told.                                                 *)

\* The finding survives both write-ups, with a provider or without.
LEMMA FindingStep ==
    ASSUME TypeOK, [Next]_vars, DecisionIsFinding
    PROVE  DecisionIsFinding'
<1>1. CASE Validate
  <2>1. Current' = Current /\ pc' \in {"judged", "calling", "capped", "misrouted"}
    BY <1>1 DEF Validate, Current, WriteUp, AskModel
  <2>2. pc' = "judged" => decision'.discrepancy = ValidatorFinding(Current)
    BY <1>1 DEF Validate, WriteUp, AskModel, Decision
  <2>3. pc' = "calling" => llm'.route = "disagreement_writeup"
    BY <1>1 DEF Validate, WriteUp, AskModel, NoCall
  <2> QED
    BY <2>1, <2>2, <2>3 DEF DecisionIsFinding
<1>2. CASE LogVerdict
  BY <1>2 DEF LogVerdict, DecisionIsFinding, localVars, Current
<1>3. CASE ConfirmEscalation
  <2>1. /\ Current' = Current
        /\ pc' \in {"confirmed", "calling", "capped", "misrouted"}
    BY <1>3 DEF ConfirmEscalation, Current, WriteUp, AskModel
  <2>2. pc' \in {"confirmed", "calling"} =>
            decision'.discrepancy = decision.discrepancy
    BY <1>3 DEF ConfirmEscalation, WriteUp, AskModel, Decision
  <2>3. decision.discrepancy = ValidatorFinding(Current)
    BY <1>3 DEF ConfirmEscalation, DecisionIsFinding
  <2> QED
    BY <2>1, <2>2, <2>3 DEF DecisionIsFinding
<1>4. CASE RecordUsage
  <2>1. Current' = Current /\ pc' \in {"proposed", "judged", "confirmed", "halting"}
    BY <1>4 DEF RecordUsage, ReadAnswer, Current
  <2>2. pc' = "judged" => decision'.discrepancy = ValidatorFinding(Current)
    BY <1>4 DEF RecordUsage, ReadAnswer, Decision
  <2>3. pc' = "confirmed" =>
            /\ llm.route = "disagreement_writeup_escalated" /\ pc = "recording"
            /\ decision'.discrepancy = decision.discrepancy
    BY <1>4 DEF RecordUsage, ReadAnswer, Decision
  <2> QED
    BY <2>1, <2>2, <2>3 DEF DecisionIsFinding
<1>5. CASE Analyze
  <2>1. /\ pc' \in {"proposed", "calling", "capped", "misrouted"}
        /\ pc' = "calling" => llm'.route = "ambiguous_discrepancy"
    BY <1>5 DEF Analyze, AskModel, NoCall
  <2> QED
    BY <2>1 DEF DecisionIsFinding
<1>6. CASE ProviderAnswers
  <2>1. /\ pc = "calling" /\ pc' = "recording" /\ llm'.route = llm.route
        /\ decision' = decision /\ Current' = Current
    BY <1>6 DEF ProviderAnswers, TypeOK, Current
  <2> QED
    BY <2>1 DEF DecisionIsFinding
<1>7. CASE \/ StartReconciliation \/ ResumeReconciliation \/ ResumeUnknownRun
           \/ RefuseName \/ RefuseRoute \/ ProviderFails \/ Crash \/ ReturnResult
  <2>1. pc' \in {"idle", "loop"}
    BY <1>7
    DEF StartReconciliation, ResumeReconciliation, Reconcile, EnterLoop, Raise,
        DropLocals, ResumeUnknownRun, RefuseName, RefuseRoute, ProviderFails, Crash,
        ReturnResult
  <2> QED
    BY <2>1 DEF DecisionIsFinding
<1>8. CASE \/ BeginInvoice \/ LogProposal \/ LogHandover \/ CompleteRun \/ HaltRun
           \/ CloseInvoice \/ HandToHuman \/ EscalateCapped
  <2>1. pc' \in {"analyze", "handover", "validate", "returning", "loop"}
    BY <1>8 DEF BeginInvoice, LogProposal, LogHandover, CompleteRun, HaltRun,
                CloseInvoice, HandToHuman, EscalateCapped, NextInvoice
  <2> QED
    BY <2>1 DEF DecisionIsFinding
<1>9. CASE UNCHANGED vars
  BY <1>9 DEF vars, localVars, DecisionIsFinding, Current
<1> QED
  BY <1>1, <1>2, <1>3, <1>4, <1>5, <1>6, <1>7, <1>8, <1>9 DEF Next, ProgramStep

\* Only two steps add an item; the ends of a call drop the list.
LEMMA ReviewListKept ==
    ASSUME [Next]_vars, ~(HandToHuman \/ EscalateCapped)
    PROVE  human_review' = human_review \/ human_review' = <<>>
<1>1. CASE StartReconciliation \/ ResumeReconciliation
  BY <1>1 DEF StartReconciliation, ResumeReconciliation, Reconcile, EnterLoop,
              Raise, DropLocals
<1>2. CASE \/ ResumeUnknownRun \/ RefuseName \/ RefuseRoute \/ ProviderFails
           \/ Crash \/ ReturnResult
  BY <1>2 DEF ResumeUnknownRun, RefuseName, RefuseRoute, ProviderFails, Crash,
              ReturnResult, Raise, DropLocals
<1>3. CASE \/ BeginInvoice \/ LogProposal \/ LogHandover \/ LogVerdict
           \/ CompleteRun \/ HaltRun \/ CloseInvoice
  BY <1>3 DEF BeginInvoice, LogProposal, LogHandover, LogVerdict, CompleteRun,
              HaltRun, CloseInvoice, localVars
<1>4. CASE Analyze \/ Validate \/ ConfirmEscalation \/ ProviderAnswers \/ RecordUsage
  BY <1>4 DEF Analyze, Validate, ConfirmEscalation, ProviderAnswers, RecordUsage
<1>5. CASE UNCHANGED vars
  BY <1>5 DEF vars, localVars
<1> QED
  BY <1>1, <1>2, <1>3, <1>4, <1>5 DEF Next, ProgramStep

\* What one item says of the invoice it names.
CarriesFinding(item) ==
    \E i \in Positions :
        /\ item.invoice_id = Invoice(i).invoice_id
        /\ \/ item.validator_decision.discrepancy = ValidatorFinding(Invoice(i))
           \/ /\ item.analyst_proposal = CappedProposal
              /\ item.validator_decision = CappedDecision

\* An item that is added carries the finding, or is the one of the cap.
LEMMA ReviewStep ==
    ASSUME TypeOK, [Next]_vars, DecisionIsFinding, ReviewCarriesFinding
    PROVE  ReviewCarriesFinding'
<1>1. \A k \in DOMAIN human_review : CarriesFinding(human_review[k])
  BY DEF ReviewCarriesFinding, CarriesFinding
<1>2. human_review \in Seq(HumanReviewItem)
  BY DEF TypeOK
<1>3. CASE HandToHuman \/ EscalateCapped
  <2>1. PICK item : /\ human_review' = Append(human_review, item)
                    /\ CarriesFinding(item)
    <3>1. idx \in Positions
      BY <1>3 DEF TypeOK, HandToHuman, EscalateCapped
    <3>2. CASE HandToHuman
      <4>1. CarriesFinding(ReviewItem(proposal, decision))
        BY <3>1, <3>2
        DEF HandToHuman, DecisionIsFinding, CarriesFinding, ReviewItem, Current
      <4> QED
        BY <3>2, <4>1 DEF HandToHuman
    <3>3. CASE EscalateCapped
      <4>1. CarriesFinding(CapFallback)
        BY <3>1 DEF CarriesFinding, CapFallback, ReviewItem, Current
      <4> QED
        BY <3>3, <4>1 DEF EscalateCapped
    <3> QED
      BY <1>3, <3>2, <3>3
  <2>2. \A k \in DOMAIN human_review' : CarriesFinding(human_review'[k])
    BY <1>1, <1>2, <2>1
  <2> QED
    BY <2>2 DEF ReviewCarriesFinding, CarriesFinding
<1>4. CASE ~(HandToHuman \/ EscalateCapped)
  <2>1. human_review' = human_review \/ human_review' = <<>>
    BY <1>4, ReviewListKept
  <2> QED
    BY <2>1 DEF ReviewCarriesFinding
<1> QED
  BY <1>3, <1>4

\* Whatever the providers answer, the items for a person carry what the
\* Validator's own checks found, or say that the cap was hit.
THEOREM ReviewsCarryFindings == Spec => []ReviewCarriesFinding
<1>1. Init => DecisionIsFinding /\ ReviewCarriesFinding
  BY DEF Init, DecisionIsFinding, ReviewCarriesFinding
<1>2. /\ TypeOK /\ DecisionIsFinding /\ ReviewCarriesFinding
      /\ [Next]_vars
      => DecisionIsFinding' /\ ReviewCarriesFinding'
  BY FindingStep, ReviewStep
<1> QED
  BY <1>1, <1>2, TypeCorrect, PTL DEF Spec

-----------------------------------------------------------------------------
(* All together.                                                           *)

\* The inductive invariant that TLC checks holds for every instance.
THEOREM InductionHolds == Spec => []Induction
<1>1. Init => /\ PassedIsDecided /\ CheckpointDecided /\ CallIsPastCheckpoint
              /\ ApprovalIsSound /\ ControlFollowsLog /\ AbsentRunIsBlank
              /\ DecisionIsFinding
  BY BatchLength
  DEF Init, StoreInit, NoRun, RunExists, PassedIsDecided, CheckpointDecided, Positions,
      CallIsPastCheckpoint, ApprovalIsSound, ControlFollowsLog, AbsentRunIsBlank,
      DecisionIsFinding
<1>2. /\ TypeOK /\ PassedIsDecided /\ CheckpointDecided /\ CallIsPastCheckpoint
      /\ ApprovalIsSound /\ ControlFollowsLog /\ AbsentRunIsBlank /\ DecisionIsFinding
      /\ [Next]_vars
      => /\ PassedIsDecided' /\ CheckpointDecided' /\ CallIsPastCheckpoint'
         /\ ApprovalIsSound' /\ ControlFollowsLog' /\ AbsentRunIsBlank'
         /\ DecisionIsFinding'
  BY PassedStep, CheckpointStep, PastCheckpointStep, ApprovalStep, ControlStep,
     AbsentStep, FindingStep
<1>3. /\ TypeOK /\ PassedIsDecided /\ CheckpointDecided /\ CallIsPastCheckpoint
      /\ ApprovalIsSound /\ DoubtfulDateNeverClosed
      /\ ControlFollowsLog /\ VerdictFollowsValidator
      /\ AbsentRunIsBlank /\ SpendStopsAtBudget
      /\ DecisionIsFinding /\ ReviewCarriesFinding
      => Induction
  BY DEF Induction
<1> QED
  BY <1>1, <1>2, <1>3, TypeCorrect, DoubtfulDatesEscalate, VerdictsFollowValidator,
     BudgetRespected, ReviewsCarryFindings, PTL DEF Spec

=============================================================================
