--------------------------- MODULE FrontierProofs ---------------------------
(***************************************************************************)
(* Proofs about the cost-vs-accuracy frontier, for every golden corpus and *)
(* every list of routing tables: its runs are runs of Pipeline, one after  *)
(* the other, each on an empty store, so what holds of their steps holds   *)
(* of its own.                                                             *)
(***************************************************************************)
EXTENDS Frontier, PipelineCallProofs, FiniteSetTheorems

-----------------------------------------------------------------------------
(* The runs of the report.                                                 *)

\* What is known of the run in progress, or of none.
RunTrail ==
    /\ TypeOK /\ AbsentRunIsBlank
    /\ ApprovalIsSound /\ DecisionIsFinding /\ AmbiguityTrail /\ CapTrail
    /\ CallExtent /\ CallAccountsForItsInvoices

\* Every run starts from an empty store with Guardrails of its own and both
\* providers, and ends before the next one is opened.
StageTrail ==
    /\ stage \in {"between", "opened", "running", "raised"}
    /\ stage # "running" => pc = "idle"
    /\ stage = "opened" => /\ ~RunExists /\ ~guard.live /\ log = <<>> /\ results = <<>>
                           /\ Len(points) + 1 \in DOMAIN Configs
    /\ \E S : points \in Seq(S)
    /\ pc # "idle" => /\ segment.start = 0 /\ ~segment.reused /\ results = <<>>
                      /\ providers = {"analyst", "validator"}

LEMMA RunStep ==
    ASSUME RunTrail, [Next]_vars
    PROVE  RunTrail'
<1>1. TypeOK' /\ AbsentRunIsBlank'
  BY NextType, AbsentStep DEF RunTrail
<1>2. ApprovalIsSound' /\ DecisionIsFinding'
  BY ApprovalStep, FindingStep DEF RunTrail
<1>3. AmbiguityTrail' /\ CapTrail'
  BY AmbiguityStep, CapStep, FrontierAssumption DEF RunTrail
<1>4. CallExtent' /\ CallAccountsForItsInvoices'
  BY ExtentStep, AccountStep DEF RunTrail
<1> QED
  BY <1>1, <1>2, <1>3, <1>4 DEF RunTrail

\* An empty store between two runs.
LEMMA OpenKeepsRun ==
    ASSUME RunTrail, StageTrail, OpenStore
    PROVE  RunTrail'
<1>1. /\ pc = "idle" /\ pc' = pc /\ idx' = idx /\ segment' = segment /\ calls' = calls
      /\ run' = NoRun /\ log' = <<>> /\ guard' = NoGuardrails
      /\ results' = <<>> /\ outcome' = "none"
      /\ proposal' = proposal /\ decision' = decision /\ closed' = closed
      /\ human_review' = human_review /\ llm' = llm /\ providers' = providers
  BY DEF OpenStore, StageTrail, localVars
<1>2. TypeOK'
  <2>1. run' \in RunRow /\ log' \in Seq(LogRow) /\ results' \in Seq(ReconciliationRunResult)
    BY <1>1, BatchLength DEF NoRun, RunRow, RunStatus
  <2>2. guard' \in GuardState /\ outcome' \in Outcomes
    BY <1>1, NewGuardrailsType DEF Outcomes
  <2> QED
    BY <1>1, <2>1, <2>2 DEF RunTrail, TypeOK
<1>3. AbsentRunIsBlank'
  BY <1>1 DEF NoRun, AbsentRunIsBlank
<1>4. ApprovalIsSound' /\ DecisionIsFinding' /\ AmbiguityTrail' /\ CapTrail'
  BY <1>1 DEF ApprovalIsSound, DecisionIsFinding, AmbiguityTrail, CapTrail
<1>5. CallExtent' /\ CallAccountsForItsInvoices'
  BY <1>1 DEF RunTrail, CallExtent, CallAccountsForItsInvoices
<1> QED
  BY <1>2, <1>3, <1>4, <1>5 DEF RunTrail

\* The corpus is run by a first call.
LEMMA CorpusIsStarted ==
    ASSUME StageTrail, RunCorpus
    PROVE  StartReconciliation
<1>1. Configs[Len(points) + 1] \in Routings
  BY FrontierAssumption DEF RunCorpus, StageTrail
<1> QED
  BY <1>1, FrontierAssumption DEF RunCorpus, StartReconciliation

\* It enters the loop, at the first invoice.
LEMMA CorpusIsEntered ==
    ASSUME RunTrail, StageTrail, RunCorpus
    PROVE  /\ pc' = "loop" /\ idx' = 0 /\ stage' = "running" /\ points' = points
           /\ segment'.start = 0 /\ ~segment'.reused
           /\ results' = <<>> /\ log' = <<>> /\ closed' = <<>> /\ human_review' = <<>>
           /\ providers' = {"analyst", "validator"} /\ guard'.calls = <<>>
           /\ run'.status = "running"
<1>1. PICK b \in Budgets :
          Reconcile(0, NewGuardrails(b, Configs[Len(points) + 1]), {"analyst", "validator"})
  BY DEF RunCorpus
<1>2. /\ stage = "opened" /\ stage' = "running" /\ points' = points
      /\ ~RunExists /\ ~guard.live /\ log = <<>> /\ results = <<>>
  BY DEF RunCorpus, StageTrail
<1>3. pc = "idle" /\ closed = <<>> /\ human_review = <<>>
  BY <1>1 DEF Reconcile, RunTrail, CallExtent
<1> DEFINE g == NewGuardrails(b, Configs[Len(points) + 1])
<1>4. start_run(g.token_budget) /\ EnterLoop(0, g, {"analyst", "validator"})
  BY <1>1, <1>2 DEF Reconcile
<1>5. g.calls = <<>>
  BY DEF NewGuardrails
<1> QED
  BY <1>2, <1>3, <1>4, <1>5 DEF start_run, EnterLoop

\* A step inside a run leaves the call in progress, or ends it: by an
\* exception that the corpus and its tables allow, or with its result.
LEMMA RunContinuesOrEnds ==
    ASSUME RunTrail, StageTrail, ReconcileStep
    PROVE  /\ Next /\ pc # "idle" /\ stage' = "running" /\ points' = points
           /\ \/ pc' # "idle" /\ segment' = segment /\ results' = results
                 /\ providers' = providers /\ ~ReturnResult
              \/ pc' = "idle" /\ outcome' \in {"provider_error", "routing_error"}
              \/ ReturnResult
<1>1. Next /\ stage' = "running" /\ points' = points
  BY DEF ReconcileStep, Next
<1>2. CASE RefuseRoute \/ ProviderFails
  BY <1>1, <1>2 DEF RefuseRoute, ProviderFails, Raise, DropLocals
<1>3. CASE ReturnResult
  BY <1>1, <1>3 DEF ReturnResult
<1>4. ~RefuseName
  <2>1. pc = "analyze" => idx \in Positions
    BY DEF RunTrail, TypeOK
  <2> QED
    BY <2>1, FrontierAssumption DEF RefuseName, Current
<1>5. CASE BeginInvoice \/ LogProposal \/ LogHandover \/ LogVerdict \/ CompleteRun \/ HaltRun
  BY <1>1, <1>5 DEF BeginInvoice, LogProposal, LogHandover, LogVerdict, CompleteRun, HaltRun,
                    ReturnResult, localVars, callerVars
<1>6. CASE Analyze \/ Validate \/ ConfirmEscalation \/ ProviderAnswers \/ RecordUsage
  BY <1>1, <1>6 DEF Analyze, Validate, ConfirmEscalation, WriteUp, AskModel, ProviderAnswers,
                    RecordUsage, ReadAnswer, ReturnResult, callerVars
<1>7. CASE CloseInvoice \/ HandToHuman \/ EscalateCapped
  BY <1>1, <1>7 DEF CloseInvoice, HandToHuman, EscalateCapped, NextInvoice, ReturnResult,
                    callerVars
<1> QED
  BY <1>2, <1>3, <1>4, <1>5, <1>6, <1>7 DEF ReconcileStep, ProgramStep

LEMMA StageStep ==
    ASSUME RunTrail, StageTrail, [FrontierNext]_frontierVars
    PROVE  RunTrail' /\ StageTrail'
<1>1. PICK S : points \in Seq(S)
  BY DEF StageTrail
<1>2. CASE OpenStore
  <2>1. Len(points) + 1 \in DOMAIN Configs
    BY <1>1, <1>2, FrontierAssumption DEF OpenStore
  <2>2. /\ pc' = "idle" /\ stage' = "opened" /\ points' = points
        /\ run' = NoRun /\ log' = <<>> /\ guard' = NoGuardrails /\ results' = <<>>
    BY <1>2 DEF OpenStore, StageTrail
  <2>3. NoRun.status = "absent" /\ ~NoGuardrails.live
    BY DEF NoRun, NoGuardrails, NewGuardrails
  <2>4. StageTrail'
    BY <1>1, <2>1, <2>2, <2>3 DEF StageTrail, RunExists
  <2> QED
    BY <1>2, <2>4, OpenKeepsRun
<1>3. CASE RunCorpus
  <2>1. RunTrail'
    BY <1>3, CorpusIsStarted, RunStep DEF Next
  <2>2. StageTrail'
    BY <1>1, <1>3, CorpusIsEntered DEF StageTrail
  <2> QED
    BY <2>1, <2>2
<1>4. CASE ReconcileStep
  <2>1. RunTrail'
    BY <1>4, RunContinuesOrEnds, RunStep
  <2>2. ReturnResult => pc' = "idle"
    BY DEF ReturnResult, DropLocals
  <2>3. StageTrail'
    BY <1>1, <1>4, <2>2, RunContinuesOrEnds DEF StageTrail
  <2> QED
    BY <2>1, <2>3
<1>5. CASE ScorePoint \/ ReportRaises \/ UNCHANGED frontierVars
  <2>1. UNCHANGED vars
    BY <1>5 DEF ScorePoint, ReportRaises, frontierVars
  <2>2. RunTrail'
    BY <2>1, RunStep
  <2>3. \E T : points' \in Seq(T)
    <3>1. CASE points' = points
      BY <1>1, <3>1
    <3>2. CASE ScorePoint
      <4>1. points \in Seq(S \cup {FrontierPoint})
        BY <1>1
      <4>2. Append(points, FrontierPoint) \in Seq(S \cup {FrontierPoint})
        BY <4>1
      <4> QED
        BY <3>2, <4>2 DEF ScorePoint
    <3> QED
      BY <1>5, <3>1, <3>2 DEF ReportRaises, frontierVars
  <2>4. StageTrail'
    BY <1>5, <2>1, <2>3
    DEF StageTrail, ScorePoint, ReportRaises, frontierVars, vars, storeVars, localVars,
        callerVars, RunExists
  <2> QED
    BY <2>2, <2>4
<1> QED
  BY <1>2, <1>3, <1>4, <1>5 DEF FrontierNext

-----------------------------------------------------------------------------
(* The labels.                                                             *)

\* What a finished invoice is scored as: checks that settle it are agreed on
\* and closed, whatever they found; where a model was asked, the Validator's
\* finding either goes to a person or is that nothing is wrong.
LabelOf(inv) ==
    IF AnalystVerdict(inv) = "ambiguous" THEN ValidatorFinding(inv) ELSE "none"

\* The two lists of a call, or of its result, say of each invoice its label.
ClosedAsLabelled(c) ==
    \A k \in DOMAIN c : \A i \in Positions :
        Invoice(i).invoice_id = c[k] => LabelOf(Invoice(i)) = "none"
ReviewedAsLabelled(h) ==
    \A k \in DOMAIN h : \A i \in Positions :
        Invoice(i).invoice_id = h[k].invoice_id =>
            h[k].validator_decision.discrepancy = LabelOf(Invoice(i))

LabelTrail == ClosedAsLabelled(closed) /\ ReviewedAsLabelled(human_review)

\* An ambiguous invoice is wrong by its date or not at all.
LEMMA AmbiguityIsAboutDates ==
    ASSUME NEW inv, AnalystVerdict(inv) = "ambiguous"
    PROVE  ValidatorFinding(inv) \in {"none", "date_drift", "unparseable_date"}
BY DEF AnalystVerdict, ValidatorFinding, DateDiscrepancy

\* One more invoice closed as it is labelled, or handed over as it is.
LEMMA ClosedExtends ==
    ASSUME NEW S, NEW c \in Seq(S), NEW id \in S, ClosedAsLabelled(c),
           \A i \in Positions : Invoice(i).invoice_id = id => LabelOf(Invoice(i)) = "none"
    PROVE  ClosedAsLabelled(Append(c, id))
<1> DEFINE after == Append(c, id)
<1>1. /\ DOMAIN after = DOMAIN c \cup {Len(c) + 1}
      /\ \A k \in DOMAIN c : after[k] = c[k]
      /\ after[Len(c) + 1] = id
  OBVIOUS
<1> HIDE DEF after
<1>2. ClosedAsLabelled(after)
  BY <1>1 DEF ClosedAsLabelled
<1> QED
  BY <1>2 DEF after

LEMMA ReviewExtends ==
    ASSUME NEW S, NEW h \in Seq(S), NEW item \in S, ReviewedAsLabelled(h),
           \A i \in Positions : Invoice(i).invoice_id = item.invoice_id =>
               item.validator_decision.discrepancy = LabelOf(Invoice(i))
    PROVE  ReviewedAsLabelled(Append(h, item))
<1> DEFINE after == Append(h, item)
<1>1. /\ DOMAIN after = DOMAIN h \cup {Len(h) + 1}
      /\ \A k \in DOMAIN h : after[k] = h[k]
      /\ after[Len(h) + 1] = item
  OBVIOUS
<1> HIDE DEF after
<1>2. ReviewedAsLabelled(after)
  BY <1>1 DEF ReviewedAsLabelled
<1> QED
  BY <1>2 DEF after

\* The end of an invoice: closed on an approval, handed over on an
\* escalation, and never capped.
LEMMA EndIsLabelled ==
    ASSUME RunTrail, StageTrail, LabelTrail, CloseInvoice \/ HandToHuman \/ EscalateCapped
    PROVE  LabelTrail'
<1>1. /\ idx \in Positions /\ Current = Invoice(idx) /\ Current.invoice_id \in TaskIds
      /\ closed \in Seq(TaskIds) /\ human_review \in Seq(HumanReviewItem)
  BY TaskIdType DEF RunTrail, TypeOK, CloseInvoice, HandToHuman, EscalateCapped, Current
<1>2. \A i \in Positions : Invoice(i).invoice_id = Current.invoice_id => i = idx
  BY <1>1, FrontierAssumption DEF DistinctIds
<1>3. CASE CloseInvoice
  <2>1. LabelOf(Current) = "none"
    BY <1>3, AmbiguityIsAboutDates DEF CloseInvoice, RunTrail, ApprovalIsSound, LabelOf
  <2>2. ClosedAsLabelled(Append(closed, Current.invoice_id))
    BY <1>1, <1>2, <2>1, ClosedExtends DEF LabelTrail
  <2> QED
    BY <1>3, <2>2 DEF CloseInvoice, LabelTrail, ReviewedAsLabelled, ClosedAsLabelled
<1>4. CASE HandToHuman
  <2> DEFINE item == ReviewItem(proposal, decision)
  <2>1. item \in HumanReviewItem
    BY <1>1, ReviewItemType DEF RunTrail, TypeOK
  <2>2. /\ item.invoice_id = Current.invoice_id
        /\ item.validator_decision.discrepancy = decision.discrepancy
    BY DEF ReviewItem
  <2>3. decision.discrepancy = LabelOf(Current)
    BY <1>4 DEF HandToHuman, RunTrail, DecisionIsFinding, AmbiguityTrail, LabelOf
  <2> HIDE DEF item
  <2>4. ReviewedAsLabelled(Append(human_review, item))
    BY <1>1, <1>2, <2>1, <2>2, <2>3, ReviewExtends DEF LabelTrail
  <2>5. human_review' = Append(human_review, item) /\ closed' = closed
    BY <1>4 DEF HandToHuman, item
  <2> QED
    BY <2>4, <2>5 DEF LabelTrail, ReviewedAsLabelled, ClosedAsLabelled
<1>5. CASE EscalateCapped
  BY <1>5, FrontierAssumption, PipelineAssumption
  DEF EscalateCapped, StageTrail, RunTrail, CapTrail
<1> QED
  BY <1>3, <1>4, <1>5

\* Every step of a run keeps its lists, empties them or ends an invoice.
LEMMA LabelStep ==
    ASSUME RunTrail, StageTrail, LabelTrail, [FrontierNext]_frontierVars
    PROVE  LabelTrail'
<1>1. CASE closed' = closed /\ human_review' = human_review
  BY <1>1 DEF LabelTrail, ClosedAsLabelled, ReviewedAsLabelled
<1>2. CASE closed' = <<>> /\ human_review' = <<>>
  BY <1>2 DEF LabelTrail, ClosedAsLabelled, ReviewedAsLabelled
<1>3. CASE ReconcileStep
  <2>1. CASE CloseInvoice \/ HandToHuman \/ EscalateCapped
    BY <2>1, EndIsLabelled
  <2>2. CASE ~(CloseInvoice \/ HandToHuman \/ EscalateCapped)
    <3>1. ~(StartReconciliation \/ ResumeReconciliation)
      BY <1>3, RunContinuesOrEnds
      DEF StartReconciliation, ResumeReconciliation, Reconcile
    <3> QED
      BY <1>1, <1>2, <1>3, <2>2, <3>1, RunContinuesOrEnds, ListsKept
  <2> QED
    BY <2>1, <2>2
<1>4. CASE RunCorpus
  BY <1>2, <1>4, CorpusIsEntered
<1>5. CASE OpenStore \/ ScorePoint \/ ReportRaises \/ UNCHANGED frontierVars
  BY <1>1, <1>5 DEF OpenStore, ScorePoint, ReportRaises, frontierVars, vars, localVars
<1> QED
  BY <1>3, <1>4, <1>5 DEF FrontierNext

-----------------------------------------------------------------------------
(* The results.                                                            *)

\* A result with the labels and, of a whole corpus, all of its invoices.
Concluded(r) ==
    /\ ClosedAsLabelled(r.closed_invoice_ids) /\ ReviewedAsLabelled(r.human_review)
    /\ r.status \in {"completed", "halted"}
    /\ r.status = "completed" =>
           TaskIds = {r.closed_invoice_ids[k] : k \in DOMAIN r.closed_invoice_ids}
                     \cup {r.human_review[k].invoice_id : k \in DOMAIN r.human_review}

\* Where a run can have ended, and why a report can be lost.
EndTrail ==
    /\ stage = "running" /\ pc = "idle" =>
           \/ outcome \in {"provider_error", "routing_error"}
           \/ outcome = "returned" /\ results # <<>> /\ Concluded(Result)
    /\ CompletedIsScored

LEMMA ResultIsConcluded ==
    ASSUME RunTrail, StageTrail, LabelTrail, ReturnResult
    PROVE  outcome' = "returned" /\ results' # <<>> /\ Concluded(Result')
<1>1. /\ results = <<>> /\ results' = Append(results, RunResult) /\ pc = "returning"
      /\ outcome' = "returned" /\ segment.start = 0
  BY DEF ReturnResult, StageTrail
<1>2. results' = <<RunResult>> /\ Result' = RunResult
  BY <1>1 DEF Result
<1>3. /\ RunResult.closed_invoice_ids = closed /\ RunResult.human_review = human_review
      /\ RunResult.status = IF idx = Len(Invoices) THEN "completed" ELSE "halted"
  BY DEF RunResult
<1>4. ASSUME idx = Len(Invoices)
      PROVE  TaskIds = {closed[k] : k \in DOMAIN closed}
                       \cup {human_review[k].invoice_id : k \in DOMAIN human_review}
  <2>1. TaskIds = Ids(segment.start .. idx - 1)
    BY <1>1, <1>4, FrontierAssumption DEF Positions
  <2> QED
    BY <1>1, <2>1 DEF RunTrail, CallAccountsForItsInvoices
<1>5. Concluded(RunResult)
  BY <1>3, <1>4 DEF Concluded, LabelTrail
<1> QED
  BY <1>1, <1>2, <1>5

\* A result of the whole corpus can be scored.
LEMMA ConcludedIsScorable ==
    ASSUME NEW r, Concluded(r), r.status = "completed"
    PROVE  Scorable(r, TrueDiscrepancy)
<1>1. DOMAIN TrueDiscrepancy = TaskIds
  BY FrontierAssumption
<1> QED
  BY <1>1 DEF Concluded, Scorable, PredictedLabels

LEMMA EndStep ==
    ASSUME RunTrail, StageTrail, LabelTrail, EndTrail, [FrontierNext]_frontierVars
    PROVE  EndTrail'
<1>1. CASE OpenStore
  <2>1. stage' = "opened"
    BY <1>1 DEF OpenStore
  <2> QED
    BY <2>1 DEF EndTrail, CompletedIsScored
<1>2. CASE RunCorpus
  BY <1>2, CorpusIsEntered DEF EndTrail, CompletedIsScored
<1>3. CASE ReconcileStep
  <2>1. stage' = "running"
    BY <1>3, RunContinuesOrEnds
  <2>2. CASE ReturnResult
    BY <2>1, <2>2, ResultIsConcluded DEF EndTrail, CompletedIsScored
  <2>3. CASE ~ReturnResult
    BY <1>3, <2>1, <2>3, RunContinuesOrEnds DEF EndTrail, CompletedIsScored
  <2> QED
    BY <2>2, <2>3
<1>4. CASE ScorePoint
  <2>1. stage' = "between"
    BY <1>4 DEF ScorePoint
  <2> QED
    BY <2>1 DEF EndTrail, CompletedIsScored
<1>5. CASE ReportRaises
  <2>1. /\ stage = "running" /\ pc = "idle" /\ stage' = "raised"
        /\ outcome' = outcome /\ results' = results
        /\ outcome = "returned" => ~Scorable(Result, TrueDiscrepancy)
    BY <1>5 DEF ReportRaises, vars, callerVars
  <2>2. Result' = Result
    BY <2>1 DEF Result
  <2>3. outcome = "returned" => Result.status = "halted"
    BY <2>1, ConcludedIsScorable DEF EndTrail, Concluded
  <2> QED
    BY <2>1, <2>2, <2>3 DEF EndTrail, CompletedIsScored
<1>6. CASE UNCHANGED frontierVars
  <2>1. stage' = stage /\ pc' = pc /\ outcome' = outcome /\ results' = results
    BY <1>6 DEF frontierVars, vars, callerVars
  <2>2. Result' = Result
    BY <2>1 DEF Result
  <2> QED
    BY <2>1, <2>2 DEF EndTrail, CompletedIsScored
<1> QED
  BY <1>1, <1>2, <1>3, <1>4, <1>5, <1>6 DEF FrontierNext

\* Nothing is known before the first run.
LEMMA FrontierBegins == FrontierInit => RunTrail /\ StageTrail /\ LabelTrail /\ EndTrail
<1> SUFFICES ASSUME FrontierInit PROVE RunTrail /\ StageTrail /\ LabelTrail /\ EndTrail
  OBVIOUS
<1>1. RunTrail
  BY InitType
  DEF FrontierInit, Init, StoreInit, NoRun, RunExists, RunTrail, AbsentRunIsBlank,
      ApprovalIsSound, DecisionIsFinding, AmbiguityTrail, CapTrail, CallExtent,
      CallAccountsForItsInvoices
<1>2. StageTrail
  BY DEF FrontierInit, Init, StageTrail
<1>3. LabelTrail /\ EndTrail
  BY DEF FrontierInit, Init, LabelTrail, ClosedAsLabelled, ReviewedAsLabelled, EndTrail,
         CompletedIsScored
<1> QED
  BY <1>1, <1>2, <1>3

\* A report is lost to a failing provider, a route its table does not
\* resolve or a halt, and to nothing else: no run meets what another one left
\* behind, and a completed one is scored (run_cost_accuracy_frontier).
THEOREM OnlyFailuresLoseReports == FrontierSpec => []CompletedIsScored
<1>1. FrontierInit => RunTrail /\ StageTrail /\ LabelTrail /\ EndTrail
  BY FrontierBegins
<1>2. RunTrail /\ StageTrail /\ LabelTrail /\ EndTrail /\ [FrontierNext]_frontierVars
      => RunTrail' /\ StageTrail' /\ LabelTrail' /\ EndTrail'
  BY StageStep, LabelStep, EndStep
<1>3. EndTrail => CompletedIsScored
  BY DEF EndTrail
<1> QED
  BY <1>1, <1>2, <1>3, PTL DEF FrontierSpec

-----------------------------------------------------------------------------
(* The scores.                                                             *)

\* The labels of the corpus, whatever its models answer and cost.
GoldenLabels ==
    [id \in TaskIds |->
        LabelOf(Invoice(CHOOSE i \in Positions : Invoice(i).invoice_id = id))]

\* The counts of a prediction, and those of the corpus.
ScoreOf(predicted) ==
    [total_invoices |-> Cardinality(DOMAIN TrueDiscrepancy),
     correct_exact_label |->
         Cardinality({id \in DOMAIN TrueDiscrepancy :
                          predicted[id] = TrueDiscrepancy[id]}),
     true_discrepancies |-> Cardinality(Discrepancies(TrueDiscrepancy)),
     detected_discrepancies |-> Cardinality(Discrepancies(predicted)),
     correctly_detected_discrepancies |->
         Cardinality(Discrepancies(TrueDiscrepancy) \cap Discrepancies(predicted))]

ScoreTrail == \A m \in DOMAIN points : points[m].score = ScoreOf(GoldenLabels)

\* Of several entries of one invoice there is a latest.
LEMMA LatestEntry ==
    ASSUME NEW S, NEW h \in Seq(S), NEW id,
           {k \in DOMAIN h : h[k].invoice_id = id} # {}
    PROVE  LET entries == {k \in DOMAIN h : h[k].invoice_id = id}
           IN  (CHOOSE k \in entries : \A l \in entries : l <= k) \in entries
<1> DEFINE entries == {k \in DOMAIN h : h[k].invoice_id = id}
<1>1. Len(h) \in Nat /\ entries \in SUBSET (1 .. Len(h))
  OBVIOUS
<1>2. \E k \in entries : \A l \in entries : l <= k
  BY <1>1, LastPosition
<1> QED
  BY <1>2

\* A scorable result predicts the labels of the corpus.
LEMMA PredictionIsGolden ==
    ASSUME NEW r, Concluded(r), Scorable(r, TrueDiscrepancy),
           r.human_review \in Seq(HumanReviewItem)
    PROVE  PredictedLabels(r) = GoldenLabels
<1> DEFINE c == r.closed_invoice_ids
           h == r.human_review
           Entries(id) == {k \in DOMAIN h : h[k].invoice_id = id}
           Latest(id) == CHOOSE k \in Entries(id) : \A l \in Entries(id) : l <= k
           ids == {c[k] : k \in DOMAIN c} \cup {h[k].invoice_id : k \in DOMAIN h}
<1>1. PredictedLabels(r) =
          [id \in ids |-> IF Entries(id) = {} THEN "none"
                          ELSE h[Latest(id)].validator_decision.discrepancy]
  BY DEF PredictedLabels
<1>2. ids = TaskIds
  BY <1>1, FrontierAssumption DEF Scorable
<1>3. ASSUME NEW id \in TaskIds
      PROVE  (IF Entries(id) = {} THEN "none"
              ELSE h[Latest(id)].validator_decision.discrepancy) = GoldenLabels[id]
  <2> DEFINE i == CHOOSE j \in Positions : Invoice(j).invoice_id = id
  <2>1. \E j \in Positions : Invoice(j).invoice_id = id
    BY FrontierAssumption DEF Ids
  <2>2. i \in Positions /\ Invoice(i).invoice_id = id
    BY <2>1
  <2>3. GoldenLabels[id] = LabelOf(Invoice(i))
    BY DEF GoldenLabels
  <2> HIDE DEF i
  <2>4. CASE Entries(id) = {}
    <3>1. PICK k \in DOMAIN c : c[k] = id
      BY <1>2, <2>4
    <3>2. LabelOf(Invoice(i)) = "none"
      BY <2>2, <3>1 DEF Concluded, ClosedAsLabelled
    <3> QED
      BY <2>3, <2>4, <3>2
  <2>5. CASE Entries(id) # {}
    <3>1. Latest(id) \in Entries(id)
      BY <2>5, LatestEntry
    <3> HIDE DEF Latest
    <3>2. h[Latest(id)].validator_decision.discrepancy = LabelOf(Invoice(i))
      BY <2>2, <3>1 DEF Concluded, ReviewedAsLabelled
    <3> QED
      BY <2>3, <2>5, <3>2
  <2> QED
    BY <2>4, <2>5
<1> HIDE DEF Entries, Latest, ids
<1>4. PredictedLabels(r) = [id \in TaskIds |-> GoldenLabels[id]]
  BY <1>1, <1>2, <1>3
<1> QED
  BY <1>4 DEF GoldenLabels

\* So every point has the score of the corpus.
LEMMA ScoreStep ==
    ASSUME RunTrail, StageTrail, EndTrail, ScoreTrail, [FrontierNext]_frontierVars
    PROVE  ScoreTrail'
<1>1. CASE points' = points
  BY <1>1 DEF ScoreTrail
<1>2. CASE ScorePoint
  <2>1. /\ stage = "running" /\ pc = "idle" /\ outcome = "returned"
        /\ Scorable(Result, TrueDiscrepancy) /\ points' = Append(points, FrontierPoint)
    BY <1>2 DEF ScorePoint
  <2>2. results # <<>> /\ Concluded(Result)
    BY <2>1 DEF EndTrail
  <2>3. Result.human_review \in Seq(HumanReviewItem)
    <3>1. results \in Seq(ReconciliationRunResult)
      BY DEF RunTrail, TypeOK
    <3>2. Result \in ReconciliationRunResult
      BY <2>2, <3>1 DEF Result
    <3> QED
      BY <3>2 DEF ReconciliationRunResult
  <2>4. PredictedLabels(Result) = GoldenLabels
    BY <2>1, <2>2, <2>3, PredictionIsGolden
  <2>5. score_reconciliation(Result, TrueDiscrepancy) = ScoreOf(PredictedLabels(Result))
    BY DEF score_reconciliation, ScoreOf
  <2>6. FrontierPoint.score = ScoreOf(GoldenLabels)
    BY <2>4, <2>5 DEF FrontierPoint
  <2>7. PICK S : points \in Seq(S)
    BY DEF StageTrail
  <2> DEFINE p == FrontierPoint
  <2> HIDE DEF p
  <2>8. /\ DOMAIN Append(points, p) = DOMAIN points \cup {Len(points) + 1}
        /\ \A m \in DOMAIN points : Append(points, p)[m] = points[m]
        /\ Append(points, p)[Len(points) + 1] = p
    BY <2>7
  <2> QED
    BY <2>1, <2>6, <2>8 DEF ScoreTrail, p
<1>3. CASE ~ScorePoint
  <2>1. points' = points
    BY <1>3, RunContinuesOrEnds, CorpusIsEntered
    DEF FrontierNext, OpenStore, ReportRaises, frontierVars
  <2> QED
    BY <1>1, <2>1
<1> QED
  BY <1>2, <1>3

\* No routing table, no answer of a model and no price moves the accuracy or
\* the recall of a report: both are those of the corpus
\* (run_cost_accuracy_frontier, score_reconciliation).
THEOREM TablesDoNotMoveScores == FrontierSpec => []ConfigsScoreAlike
<1>1. FrontierInit => RunTrail /\ StageTrail /\ LabelTrail /\ EndTrail /\ ScoreTrail
  BY FrontierBegins DEF FrontierInit, ScoreTrail
<1>2. /\ RunTrail /\ StageTrail /\ LabelTrail /\ EndTrail /\ ScoreTrail
      /\ [FrontierNext]_frontierVars
      => RunTrail' /\ StageTrail' /\ LabelTrail' /\ EndTrail' /\ ScoreTrail'
  BY StageStep, LabelStep, EndStep, ScoreStep
<1>3. ScoreTrail => ConfigsScoreAlike
  BY DEF ScoreTrail, ConfigsScoreAlike
<1> QED
  BY <1>1, <1>2, <1>3, PTL DEF FrontierSpec

-----------------------------------------------------------------------------
(* The log.                                                                *)

\* The tier of a call that is recorded and whose row is still to be written.
Owed ==
    IF pc = "proposed" /\ proposal.used_llm THEN "cheap"
    ELSE IF pc = "judged" /\ decision.used_llm THEN "mid"
    ELSE IF pc = "confirmed" /\ decision.used_llm THEN "expensive"
    ELSE "no_llm"

\* The rows name the calls, up to the one that is owed; only the call that
\* breaches the budget is never named.
LogMatchesCalls ==
    CallTiers = IF Owed = "no_llm" THEN LogTiers ELSE Append(LogTiers, Owed)
RowsTrail ==
    /\ stage = "running" /\ pc \notin {"idle", "halting"}
    /\ ~(pc = "returning" /\ run.status = "halted")
    /\ guard.routing = ShippedRouting
    => LogMatchesCalls

\* Every row names the tier that is owed, and owes none.
LEMMA RowNamesOwed ==
    ASSUME LoggedRow
    PROVE  /\ \E from, to : Log(from, to, Owed)
           /\ Owed' = "no_llm" /\ guard' = guard
<1>1. CASE BeginInvoice
  BY <1>1 DEF BeginInvoice, Owed
<1>2. CASE LogProposal
  BY <1>2 DEF LogProposal, Owed, TierIf
<1>3. CASE LogHandover
  BY <1>3 DEF LogHandover, Owed
<1>4. CASE LogVerdict
  <2>1. \E from, to : Log(from, to, TierIf(decision.used_llm, "mid"))
    BY <1>4 DEF LogVerdict
  <2>2. pc = "judged" /\ pc' \in {"approved", "escalated"} /\ guard' = guard
    BY <1>4 DEF LogVerdict
  <2> QED
    BY <2>1, <2>2 DEF Owed, TierIf
<1>5. CASE CloseInvoice
  BY <1>5 DEF CloseInvoice, NextInvoice, Owed
<1>6. CASE HandToHuman
  BY <1>6 DEF HandToHuman, NextInvoice, Owed, TierIf
<1>7. CASE EscalateCapped
  BY <1>7 DEF EscalateCapped, NextInvoice, Owed
<1> QED
  BY <1>1, <1>2, <1>3, <1>4, <1>5, <1>6, <1>7 DEF LoggedRow

\* A row adds its tier to those of the log, unless no model was asked.
LEMMA LogTiersGrow ==
    ASSUME TypeOK, NEW from, NEW to, NEW tier \in Tiers \cup {"no_llm"},
           Log(from, to, tier)
    PROVE  LogTiers' = IF tier = "no_llm" THEN LogTiers ELSE Append(LogTiers, tier)
<1> DEFINE n == Len(log)
           s == [k \in DOMAIN log |-> log[k].model_tier]
           t == [k \in DOMAIN log' |-> log'[k].model_tier]
           Named == {k \in DOMAIN log : log[k].model_tier # "no_llm"}
           NamedNow == {k \in DOMAIN log' : log'[k].model_tier # "no_llm"}
<1>1. /\ n \in Nat /\ DOMAIN log = 1 .. n /\ DOMAIN log' = 1 .. n + 1
      /\ \A k \in DOMAIN log : k \in DOMAIN log' /\ log'[k] = log[k]
      /\ log'[n + 1].model_tier = tier
  BY AppendedLog
<1>2. /\ LogTiers = Selected(s, Named) /\ LogTiers' = Selected(t, NamedNow)
  BY DEF LogTiers
<1>3. s \in Seq(Tiers \cup {"no_llm"}) /\ Len(s) = n
  <2>1. \A k \in 1 .. n : log[k].model_tier \in Tiers \cup {"no_llm"}
    <3>1. log \in Seq(LogRow)
      BY DEF TypeOK
    <3>2. \A k \in 1 .. n : log[k] \in LogRow
      BY <1>1, <3>1
    <3> QED
      BY <3>2 DEF LogRow
  <2>2. s = [k \in 1 .. n |-> log[k].model_tier]
    BY <1>1
  <2> QED
    BY <1>1, <2>1, <2>2
<1>4. t = Append(s, tier)
  <2> DEFINE a == Append(s, tier)
  <2>1. /\ a \in Seq(Tiers \cup {"no_llm"}) /\ DOMAIN a = 1 .. n + 1
        /\ \A k \in 1 .. n : a[k] = s[k]
        /\ a[n + 1] = tier
    BY <1>1, <1>3
  <2>2. \A k \in 1 .. n : k \in 1 .. n + 1 /\ s[k] = log[k].model_tier
    BY <1>1
  <2>3. \A k \in 1 .. n + 1 : k \in 1 .. n \/ k = n + 1
    BY <1>1
  <2>4. t = [k \in 1 .. n + 1 |-> log'[k].model_tier]
    BY <1>1
  <2> HIDE DEF a, s, t, n
  <2>5. \A k \in 1 .. n + 1 : a[k] = log'[k].model_tier
    BY <1>1, <2>1, <2>2, <2>3
  <2>6. a = [k \in 1 .. n + 1 |-> a[k]]
    BY <2>1
  <2> QED
    BY <2>4, <2>5, <2>6 DEF a
<1>5. /\ \A k \in 1 .. n : k \in Named <=> k \in NamedNow
      /\ n + 1 \in NamedNow <=> tier # "no_llm"
  BY <1>1
<1> HIDE DEF n, s, t, Named, NamedNow
<1>6. Selected(t, NamedNow) =
          IF n + 1 \in NamedNow THEN Append(Selected(s, NamedNow), tier)
          ELSE Selected(s, NamedNow)
  BY <1>3, <1>4, SelectedAppend
<1>7. Selected(s, NamedNow) = Selected(s, Named)
  BY <1>1, <1>3, <1>5, SelectedAgrees
<1> QED
  BY <1>2, <1>5, <1>6, <1>7

\* A step that neither logs nor records leaves both lists alone.
LEMMA TiersKept ==
    ASSUME log' = log, guard'.calls = guard.calls
    PROVE  LogTiers' = LogTiers /\ CallTiers' = CallTiers
BY DEF LogTiers, CallTiers

\* The routes of the shipped table.
LEMMA ShippedTiers ==
    ASSUME guard.routing = ShippedRouting
    PROVE  /\ TierFor("ambiguous_discrepancy") = "cheap"
           /\ TierFor("disagreement_writeup") = "mid"
           /\ TierFor("disagreement_writeup_escalated") = "expensive"
<1> DEFINE TierOf(r) == CASE r = "ambiguous_discrepancy"          -> "cheap"
                          [] r = "disagreement_writeup"           -> "mid"
                          [] r = "disagreement_writeup_escalated" -> "expensive"
<1>1. \A r \in Routes : ShippedRouting.routes[r] = TierOf(r)
  <2> HIDE DEF TierOf
  <2>1. ShippedRouting.routes = [r \in Routes |-> TierOf(r)]
    BY Zenon DEF ShippedRouting, TierOf
  <2> QED
    BY <2>1
<1>2. \A r \in Routes : TierFor(r) = TierOf(r)
  BY <1>1 DEF TierFor
<1> QED
  BY <1>2 DEF Routes

\* A recorded call is owed.
LEMMA RecordedIsOwed ==
    ASSUME TypeOK, RecordUsage, guard.routing = ShippedRouting, pc' # "halting"
    PROVE  /\ Owed = "no_llm" /\ Owed' # "no_llm"
           /\ CallTiers' = Append(CallTiers, Owed') /\ log' = log
<1>1. /\ pc = "recording" /\ ReadAnswer /\ log' = log
      /\ guard' = [guard EXCEPT !.calls = Append(@, CallRecord(llm.route, llm.tokens))]
  BY DEF RecordUsage, record_usage, store_record_usage
<1>2. Owed = "no_llm"
  BY <1>1 DEF Owed
<1>3. Owed' = TierFor(llm.route) /\ Owed' # "no_llm"
  <2>1. /\ TierFor("ambiguous_discrepancy") = "cheap"
        /\ TierFor("disagreement_writeup") = "mid"
        /\ TierFor("disagreement_writeup_escalated") = "expensive"
    BY ShippedTiers
  <2>2. CASE llm.route = "ambiguous_discrepancy"
    BY <1>1, <2>1, <2>2 DEF ReadAnswer, Owed, JudgedProposal, AnalystProposal
  <2>3. CASE llm.route = "disagreement_writeup"
    BY <1>1, <2>1, <2>3 DEF ReadAnswer, Owed, Decision
  <2>4. CASE llm.route = "disagreement_writeup_escalated"
    BY <1>1, <2>1, <2>4 DEF ReadAnswer, Owed, Decision
  <2> QED
    BY <1>1, <2>2, <2>3, <2>4 DEF ReadAnswer
<1> DEFINE c == CallRecord(llm.route, llm.tokens)
<1>4. c.tier = TierFor(llm.route)
  BY DEF CallRecord
<1>5. guard.calls \in Seq(CallRecords) /\ guard'.calls = Append(guard.calls, c)
  BY <1>1 DEF TypeOK, GuardState
<1> HIDE DEF c
<1>6. CallTiers' = Append(CallTiers, c.tier)
  <2> DEFINE n == Len(guard.calls)
  <2>1. /\ n \in Nat /\ DOMAIN guard.calls = 1 .. n /\ DOMAIN guard'.calls = 1 .. n + 1
        /\ \A k \in 1 .. n : guard'.calls[k] = guard.calls[k]
        /\ guard'.calls[n + 1] = c
    BY <1>5
  <2>2. /\ CallTiers = [k \in 1 .. n |-> guard.calls[k].tier]
        /\ CallTiers' = [k \in 1 .. n + 1 |-> guard'.calls[k].tier]
    BY <2>1 DEF CallTiers
  <2> HIDE DEF n
  <2> DEFINE X == {guard.calls[k].tier : k \in 1 .. n} \cup {c.tier}
             a == Append(CallTiers, c.tier)
  <2>3. CallTiers \in Seq(X) /\ Len(CallTiers) = n
    <3> DEFINE tiers == [k \in 1 .. n |-> guard.calls[k].tier]
    <3>1. tiers \in [1 .. n -> X]
      OBVIOUS
    <3> HIDE DEF tiers, X
    <3>2. n \in Nat
      BY <2>1
    <3>3. tiers \in Seq(X) /\ Len(tiers) = n
      BY ONLY <3>1, <3>2, SequenceOf
    <3> QED
      BY ONLY <2>2, <3>3 DEF tiers
  <2>4. /\ DOMAIN a = 1 .. n + 1 /\ a = [k \in 1 .. n + 1 |-> a[k]]
        /\ \A k \in 1 .. n : a[k] = CallTiers[k]
        /\ a[n + 1] = c.tier
    BY <2>1, <2>3
  <2>5. \A k \in 1 .. n + 1 : k \in 1 .. n \/ k = n + 1
    BY <2>1
  <2> HIDE DEF a, X
  <2>6. \A k \in 1 .. n + 1 : a[k] = guard'.calls[k].tier
    BY <2>1, <2>2, <2>4, <2>5
  <2> QED
    BY <2>2, <2>4, <2>6 DEF a
<1> QED
  BY <1>1, <1>2, <1>3, <1>4, <1>6

LEMMA RowsStep ==
    ASSUME RunTrail, StageTrail, RowsTrail, [FrontierNext]_frontierVars
    PROVE  RowsTrail'
<1>1. TypeOK
  BY DEF RunTrail
<1>2. CASE RunCorpus
  <2>1. pc' = "loop" /\ log' = <<>> /\ guard'.calls = <<>>
    BY <1>2, CorpusIsEntered
  <2>2. CallTiers' = <<>> /\ Owed' = "no_llm"
    BY <2>1 DEF CallTiers, Owed
  <2>3. LogTiers' = <<>>
    <3> DEFINE s == [k \in DOMAIN log' |-> log'[k].model_tier]
    <3>1. s \in Seq(STRING) /\ \A k \in DOMAIN s : FALSE
      BY <2>1
    <3>2. \A S : Selected(s, S) = <<>>
      BY <3>1, SelectedKeeps
    <3> QED
      BY <3>2 DEF LogTiers
  <2> QED
    BY <2>2, <2>3 DEF RowsTrail, LogMatchesCalls
<1>3. CASE ReconcileStep
  <2> SUFFICES ASSUME pc' \notin {"idle", "halting"},
                      ~(pc' = "returning" /\ run'.status = "halted"),
                      guard'.routing = ShippedRouting
               PROVE  LogMatchesCalls'
    BY DEF RowsTrail
  <2>1. /\ Next /\ pc # "idle" /\ stage = "running"
        /\ ~(StartReconciliation \/ ResumeReconciliation \/ ResumeUnknownRun) /\ ~Crash
    BY <1>3, RunContinuesOrEnds
    DEF ReconcileStep, StartReconciliation, ResumeReconciliation, ResumeUnknownRun,
        Reconcile, Crash, DropLocals
  <2>2. guard.routing = ShippedRouting
    BY <1>1, <2>1, RoutingKept
  <2>3. ~HaltRun /\ pc \notin {"halting", "returning"}
    BY <1>1, <1>3
    DEF ReconcileStep, HaltRun, halt_run, ProgramStep, ProviderFails, Raise, DropLocals,
        ReturnResult, BeginInvoice, RefuseName, RefuseRoute, Analyze, LogProposal,
        LogHandover, Validate, LogVerdict, CloseInvoice, ConfirmEscalation, HandToHuman,
        EscalateCapped, CompleteRun, ProviderAnswers, RecordUsage, TypeOK, RunRow
  <2>4. LogMatchesCalls
    BY <2>1, <2>2, <2>3 DEF RowsTrail
  <2>5. CASE LoggedRow
    <3>1. PICK from, to : Log(from, to, Owed)
      BY <2>5, RowNamesOwed
    <3>2. Owed \in Tiers \cup {"no_llm"}
      BY DEF Owed, Tiers
    <3>3. LogTiers' = IF Owed = "no_llm" THEN LogTiers ELSE Append(LogTiers, Owed)
      BY <1>1, <3>1, <3>2, LogTiersGrow
    <3>4. CallTiers' = CallTiers /\ Owed' = "no_llm"
      BY <2>5, RowNamesOwed DEF CallTiers
    <3> QED
      BY <2>4, <3>3, <3>4 DEF LogMatchesCalls
  <2>6. CASE RecordUsage
    <3>1. LogTiers' = LogTiers
      BY <1>1, <2>2, <2>6, RecordedIsOwed DEF LogTiers
    <3> QED
      BY <1>1, <2>2, <2>4, <2>6, <3>1, RecordedIsOwed DEF LogMatchesCalls
  <2>7. CASE Analyze \/ Validate \/ ConfirmEscalation
    <3>1. log' = log /\ pc \in {"analyze", "validate", "escalated"}
      BY <2>7 DEF Analyze, Validate, ConfirmEscalation, storeVars
    <3>2. guard'.calls = guard.calls
      BY <1>1, <2>7
      DEF Analyze, Validate, ConfirmEscalation, WriteUp, AskModel, CountIteration, TypeOK,
          GuardState
    <3>3. Owed = "no_llm"
      BY <3>1 DEF Owed
    <3>4. Owed' = "no_llm"
      BY <2>7, VerdictTypes
      DEF Analyze, Validate, ConfirmEscalation, WriteUp, AskModel, Owed, ClearCutProposal,
          UnassistedProposal, AnalystProposal, Decision
    <3> QED
      BY <2>4, <3>1, <3>2, <3>3, <3>4, TiersKept DEF LogMatchesCalls
  <2>8. CASE ProviderAnswers \/ CompleteRun
    <3>1. log' = log /\ guard' = guard /\ Owed = "no_llm" /\ Owed' = "no_llm"
      BY <2>8 DEF ProviderAnswers, CompleteRun, complete_run, storeVars, Owed
    <3> QED
      BY <2>4, <3>1, TiersKept DEF LogMatchesCalls
  <2>9. ~(RefuseName \/ RefuseRoute \/ ProviderFails \/ ReturnResult)
    BY DEF RefuseName, RefuseRoute, ProviderFails, ReturnResult, Raise, DropLocals
  <2> QED
    BY <2>1, <2>3, <2>5, <2>6, <2>7, <2>8, <2>9 DEF Next, ProgramStep, LoggedRow
<1>4. CASE OpenStore \/ ScorePoint \/ ReportRaises
  <2>1. stage' # "running"
    BY <1>4 DEF OpenStore, ScorePoint, ReportRaises
  <2> QED
    BY <2>1 DEF RowsTrail
<1>5. CASE UNCHANGED frontierVars
  <2>1. /\ stage' = stage /\ pc' = pc /\ run' = run /\ log' = log /\ guard' = guard
        /\ proposal' = proposal /\ decision' = decision
    BY <1>5 DEF frontierVars, vars, storeVars, localVars
  <2>2. Owed' = Owed
    BY <2>1 DEF Owed
  <2> QED
    BY <2>1, <2>2, TiersKept DEF RowsTrail, LogMatchesCalls
<1> QED
  BY <1>2, <1>3, <1>4, <1>5 DEF FrontierNext

\* Under the shipped table the log names, row by row, the tiers that were
\* paid for (reconcile_invoices, Guardrails.record_usage).
THEOREM RowsNameTheirCalls == FrontierSpec => []LogNamesCallTiers
<1>1. FrontierInit => RunTrail /\ StageTrail /\ RowsTrail
  BY FrontierBegins DEF FrontierInit, RowsTrail
<1>2. RunTrail /\ StageTrail /\ RowsTrail /\ [FrontierNext]_frontierVars
      => RunTrail' /\ StageTrail' /\ RowsTrail'
  BY StageStep, RowsStep
<1>3. RowsTrail => LogNamesCallTiers
  BY DEF RowsTrail, LogMatchesCalls, Owed, LogNamesCallTiers
<1> QED
  BY <1>1, <1>2, <1>3, PTL DEF FrontierSpec

-----------------------------------------------------------------------------
(* The calls.                                                              *)

\* The invoices whose date a model has judged.
DateJudged ==
    \/ pc \in {"proposed", "handover", "validate", "judged", "approved", "escalated",
               "confirmed"}
    \/ pc \in {"calling", "recording"} /\ llm.route # "ambiguous_discrepancy"
JudgedDates ==
    {i \in Positions : /\ AnalystVerdict(Invoice(i)) = "ambiguous"
                       /\ i < idx \/ (i = idx /\ DateJudged)}

\* The disagreements written up so far, by the first tier and by the second.
WrittenUp ==
    \/ pc = "judged" /\ ~decision.agrees
    \/ pc \in {"escalated", "confirmed"}
    \/ pc \in {"calling", "recording"} /\ llm.route = "disagreement_writeup_escalated"
FirstWriteUps  == Len(human_review) + IF WrittenUp THEN 1 ELSE 0
SecondWriteUps == Len(human_review) + IF pc = "confirmed" THEN 1 ELSE 0

\* Until it halts or is refused a route, a corpus has paid for what it has
\* been answered; what it completes is all of it.
PaidFor(t) ==
    ShareOf(t, "ambiguous_discrepancy", Cardinality(JudgedDates))
    + ShareOf(t, "disagreement_writeup", FirstWriteUps)
    + ShareOf(t, "disagreement_writeup_escalated", SecondWriteUps)
Answered ==
    /\ stage = "running" /\ pc \notin {"idle", "halting", "capped", "misrouted"}
    /\ ~(pc = "returning" /\ run.status = "halted")
PaidTrail ==
    /\ Answered => \A t \in TierNames : CallsOn(t) = PaidFor(t)
    /\ pc = "returning" /\ run.status = "completed" => idx = Len(Invoices)

LEMMA ShareGrows ==
    ASSUME NEW t, NEW route, NEW n \in Nat
    PROVE  /\ ShareOf(t, route, n) \in Nat
           /\ ShareOf(t, route, n + 1) =
                  ShareOf(t, route, n) + IF TierFor(route) = t THEN 1 ELSE 0
BY DEF ShareOf

\* One more call is one more on its tier.
LEMMA CallsGrow ==
    ASSUME TypeOK, NEW c, guard' = [guard EXCEPT !.calls = Append(@, c)], NEW t
    PROVE  CallsOn(t)' = CallsOn(t) + IF c.tier = t THEN 1 ELSE 0
<1> DEFINE n == Len(guard.calls)
           On == {k \in DOMAIN guard.calls : guard.calls[k].tier = t}
           OnNow == {k \in DOMAIN guard'.calls : guard'.calls[k].tier = t}
<1>1. /\ n \in Nat /\ DOMAIN guard.calls = 1 .. n /\ DOMAIN guard'.calls = 1 .. n + 1
      /\ \A k \in 1 .. n : guard'.calls[k] = guard.calls[k]
      /\ guard'.calls[n + 1] = c
  <2>1. guard.calls \in Seq(CallRecords) /\ guard'.calls = Append(guard.calls, c)
    BY DEF TypeOK, GuardState
  <2> QED
    BY <2>1
<1>2. OnNow = IF c.tier = t THEN On \cup {n + 1} ELSE On
  <2> HIDE DEF n
  <2>1. \A k \in 1 .. n + 1 : k \in 1 .. n \/ k = n + 1
    BY <1>1
  <2>2. \A k \in 1 .. n : k \in 1 .. n + 1
    BY <1>1
  <2>3. n + 1 \in 1 .. n + 1
    BY <1>1
  <2>4. \A k : k \in OnNow <=> k \in (IF c.tier = t THEN On \cup {n + 1} ELSE On)
    BY <1>1, <2>1, <2>2, <2>3
  <2> QED
    BY <2>4
<1>3. IsFiniteSet(On) /\ n + 1 \notin On
  <2> DEFINE one == 1
  <2>1. IsFiniteSet(one .. n)
    <3>1. one \in Int /\ n \in Int
      BY <1>1
    <3> HIDE DEF one, n
    <3> QED
      BY ONLY <3>1, FS_Interval
  <2>2. On \subseteq one .. n /\ n + 1 \notin one .. n
    BY <1>1
  <2> QED
    BY <2>1, <2>2, FS_Subset
<1>4. CallsOn(t) = Cardinality(On) /\ CallsOn(t)' = Cardinality(OnNow)
  BY DEF CallsOn
<1> HIDE DEF On, OnNow, n
<1>5. Cardinality(On) \in Nat /\ Cardinality(On \cup {n + 1}) = Cardinality(On) + 1
  BY <1>3, FS_AddElement, FS_CardinalityType
<1> QED
  BY <1>2, <1>4, <1>5

\* The dates that are judged are finitely many.
LEMMA DatesAreCounted == IsFiniteSet(JudgedDates) /\ Cardinality(JudgedDates) \in Nat
<1>1. IsFiniteSet(Positions)
  BY BatchLength, FS_Interval DEF Positions
<1>2. JudgedDates \subseteq Positions
  BY DEF JudgedDates
<1> QED
  BY <1>1, <1>2, FS_Subset, FS_CardinalityType

\* What is paid for is what it was while nothing that counts moves.
LEMMA PaidKept ==
    ASSUME guard'.calls = guard.calls, guard'.routing = guard.routing,
           JudgedDates' = JudgedDates, FirstWriteUps' = FirstWriteUps,
           SecondWriteUps' = SecondWriteUps
    PROVE  \A t : CallsOn(t)' = CallsOn(t) /\ PaidFor(t)' = PaidFor(t)
BY DEF CallsOn, PaidFor, ShareOf, TierFor

\* The judged dates move with the current invoice alone.
LEMMA DatesKept ==
    ASSUME idx' = idx, idx \in Positions,
           AnalystVerdict(Current) = "ambiguous" => (DateJudged' <=> DateJudged)
    PROVE  JudgedDates' = JudgedDates
BY DEF JudgedDates, Current

\* An answer is paid for once: it judges a date, or is the first or the
\* second write-up of a disagreement.
LEMMA AnswerIsPaid ==
    ASSUME RunTrail, RecordUsage, pc' # "halting",
           \A t \in TierNames : CallsOn(t) = PaidFor(t)
    PROVE  \A t \in TierNames : CallsOn(t)' = PaidFor(t)'
<1> DEFINE c == CallRecord(llm.route, llm.tokens)
           One(t) == IF TierFor(llm.route) = t THEN 1 ELSE 0
<1>1. /\ pc = "recording" /\ ReadAnswer /\ idx' = idx /\ human_review' = human_review
      /\ guard' = [guard EXCEPT !.calls = Append(@, c)]
      /\ TypeOK /\ idx \in Positions /\ AnalystVerdict(Current) = "ambiguous"
  BY DEF RecordUsage, record_usage, RunTrail, TypeOK, AmbiguityTrail
<1>2. guard'.routing = guard.routing
  BY <1>1 DEF TypeOK, GuardState
<1>3. \A t : CallsOn(t)' = CallsOn(t) + One(t)
  <2>1. c.tier = TierFor(llm.route)
    BY DEF CallRecord
  <2> HIDE DEF c
  <2> QED
    BY <1>1, <2>1, CallsGrow
<1>4. /\ Len(human_review) \in Nat /\ Cardinality(JudgedDates) \in Nat
      /\ FirstWriteUps \in Nat /\ SecondWriteUps \in Nat
  <2>1. Len(human_review) \in Nat
    BY <1>1 DEF TypeOK
  <2> QED
    BY <2>1, DatesAreCounted DEF FirstWriteUps, SecondWriteUps
<1>5. \A t, r, n : ShareOf(t, r, n)' = ShareOf(t, r, n')
  BY <1>2 DEF ShareOf, TierFor
<1>6. \A t \in TierNames :
          /\ CallsOn(t) = ShareOf(t, "ambiguous_discrepancy", Cardinality(JudgedDates))
                          + ShareOf(t, "disagreement_writeup", FirstWriteUps)
                          + ShareOf(t, "disagreement_writeup_escalated", SecondWriteUps)
          /\ ShareOf(t, "ambiguous_discrepancy", Cardinality(JudgedDates)) \in Nat
          /\ ShareOf(t, "disagreement_writeup", FirstWriteUps) \in Nat
          /\ ShareOf(t, "disagreement_writeup_escalated", SecondWriteUps) \in Nat
          /\ One(t) \in Nat
  BY <1>4, ShareGrows DEF PaidFor
<1>10. \A t : \A n \in Nat :
           ShareOf(t, llm.route, n + 1) = ShareOf(t, llm.route, n) + One(t)
  BY ShareGrows
<1>7. CASE llm.route = "ambiguous_discrepancy"
  <2>1. pc' = "proposed"
    BY <1>1, <1>7 DEF ReadAnswer
  <2>2. FirstWriteUps' = FirstWriteUps /\ SecondWriteUps' = SecondWriteUps
    BY <1>1, <1>7, <2>1 DEF FirstWriteUps, SecondWriteUps, WrittenUp
  <2>3. JudgedDates' = JudgedDates \cup {idx} /\ idx \notin JudgedDates
    <3>1. ~DateJudged /\ DateJudged'
      BY <1>1, <1>7, <2>1 DEF DateJudged
    <3>2. ~(idx < idx)
      BY <1>1 DEF Positions
    <3> QED
      BY <1>1, <3>1, <3>2 DEF JudgedDates, Current
  <2>4. Cardinality(JudgedDates)' = Cardinality(JudgedDates) + 1
    BY <2>3, DatesAreCounted, FS_AddElement
  <2>5. ASSUME NEW t \in TierNames PROVE CallsOn(t)' = PaidFor(t)'
    <3>1. PaidFor(t)' = ShareOf(t, "ambiguous_discrepancy", Cardinality(JudgedDates) + 1)
                        + ShareOf(t, "disagreement_writeup", FirstWriteUps)
                        + ShareOf(t, "disagreement_writeup_escalated", SecondWriteUps)
      BY <1>2, <2>2, <2>4 DEF PaidFor, ShareOf, TierFor
    <3>2. ShareOf(t, "ambiguous_discrepancy", Cardinality(JudgedDates) + 1) =
              ShareOf(t, "ambiguous_discrepancy", Cardinality(JudgedDates)) + One(t)
      BY ONLY <1>4, <1>7, <1>10
    <3> HIDE DEF One
    <3> QED
      BY <1>3, <1>6, <3>1, <3>2
  <2> QED
    BY <2>5
<1>8. CASE llm.route = "disagreement_writeup"
  <2>1. pc' = "judged" /\ ~decision'.agrees
    BY <1>1, <1>8 DEF ReadAnswer, Decision
  <2>2. SecondWriteUps' = SecondWriteUps /\ FirstWriteUps' = FirstWriteUps + 1
    BY <1>1, <1>4, <1>8, <2>1 DEF FirstWriteUps, SecondWriteUps, WrittenUp
  <2>3. JudgedDates' = JudgedDates
    BY <1>1, <1>8, <2>1, DatesKept DEF DateJudged
  <2>4. ASSUME NEW t \in TierNames PROVE CallsOn(t)' = PaidFor(t)'
    <3>1. PaidFor(t)' = ShareOf(t, "ambiguous_discrepancy", Cardinality(JudgedDates))
                        + ShareOf(t, "disagreement_writeup", FirstWriteUps + 1)
                        + ShareOf(t, "disagreement_writeup_escalated", SecondWriteUps)
      BY <1>2, <2>2, <2>3 DEF PaidFor, ShareOf, TierFor
    <3>2. ShareOf(t, "disagreement_writeup", FirstWriteUps + 1) =
              ShareOf(t, "disagreement_writeup", FirstWriteUps) + One(t)
      BY ONLY <1>4, <1>8, <1>10
    <3> HIDE DEF One
    <3> QED
      BY <1>3, <1>6, <3>1, <3>2
  <2> QED
    BY <2>4
<1>9. CASE llm.route = "disagreement_writeup_escalated"
  <2>1. pc' = "confirmed"
    BY <1>1, <1>9 DEF ReadAnswer
  <2>2. SecondWriteUps' = SecondWriteUps + 1 /\ FirstWriteUps' = FirstWriteUps
    BY <1>1, <1>4, <1>9, <2>1 DEF FirstWriteUps, SecondWriteUps, WrittenUp
  <2>3. JudgedDates' = JudgedDates
    BY <1>1, <1>9, <2>1, DatesKept DEF DateJudged
  <2>4. ASSUME NEW t \in TierNames PROVE CallsOn(t)' = PaidFor(t)'
    <3>1. PaidFor(t)' = ShareOf(t, "ambiguous_discrepancy", Cardinality(JudgedDates))
                        + ShareOf(t, "disagreement_writeup", FirstWriteUps)
                        + ShareOf(t, "disagreement_writeup_escalated", SecondWriteUps + 1)
      BY <1>2, <2>2, <2>3 DEF PaidFor, ShareOf, TierFor
    <3>2. ShareOf(t, "disagreement_writeup_escalated", SecondWriteUps + 1) =
              ShareOf(t, "disagreement_writeup_escalated", SecondWriteUps) + One(t)
      BY ONLY <1>4, <1>9, <1>10
    <3> HIDE DEF One
    <3> QED
      BY <1>3, <1>6, <3>1, <3>2
  <2> QED
    BY <2>4
<1> QED
  BY <1>1, <1>7, <1>8, <1>9 DEF ReadAnswer

\* The end of an invoice leaves what was paid for it behind.
LEMMA EndIsPaid ==
    ASSUME RunTrail, CloseInvoice \/ HandToHuman
    PROVE  /\ JudgedDates' = JudgedDates /\ FirstWriteUps' = FirstWriteUps
           /\ SecondWriteUps' = SecondWriteUps /\ guard' = guard
<1>1. /\ pc' = "loop" /\ idx' = idx + 1 /\ guard' = guard /\ idx \in Positions
      /\ pc \in {"approved", "confirmed"}
      /\ human_review \in Seq(HumanReviewItem)
  BY DEF CloseInvoice, HandToHuman, NextInvoice, RunTrail, TypeOK
<1>2. DateJudged /\ ~DateJudged' /\ ~WrittenUp'
  BY <1>1 DEF DateJudged, WrittenUp
<1>3. \A i \in Positions : i < idx + 1 <=> i < idx \/ i = idx
  BY <1>1 DEF Positions
<1>4. JudgedDates' = JudgedDates
  BY <1>1, <1>2, <1>3 DEF JudgedDates
<1>5. CASE CloseInvoice
  <2>1. pc = "approved" /\ human_review' = human_review
    BY <1>5 DEF CloseInvoice
  <2> QED
    BY <1>1, <1>2, <1>4, <2>1 DEF FirstWriteUps, SecondWriteUps, WrittenUp
<1>6. CASE HandToHuman
  <2> DEFINE item == ReviewItem(proposal, decision)
  <2>1. pc = "confirmed" /\ human_review' = Append(human_review, item)
    BY <1>6 DEF HandToHuman
  <2> HIDE DEF item
  <2>2. Len(human_review') = Len(human_review) + 1 /\ Len(human_review) \in Nat
    BY <1>1, <2>1
  <2> QED
    BY <1>1, <1>2, <1>4, <2>1, <2>2 DEF FirstWriteUps, SecondWriteUps, WrittenUp
<1> QED
  BY <1>5, <1>6

\* Every other step of a call leaves it as it is.
LEMMA NothingIsPaid ==
    ASSUME RunTrail, StageTrail, pc # "idle", pc' \notin {"capped", "misrouted"},
           \/ BeginInvoice \/ Analyze \/ LogProposal \/ LogHandover \/ Validate
           \/ LogVerdict \/ ConfirmEscalation \/ ProviderAnswers \/ CompleteRun
    PROVE  /\ JudgedDates' = JudgedDates /\ FirstWriteUps' = FirstWriteUps
           /\ SecondWriteUps' = SecondWriteUps
           /\ guard'.calls = guard.calls /\ guard'.routing = guard.routing
<1>1. TypeOK /\ providers = {"analyst", "validator"}
  BY DEF RunTrail, StageTrail
<1>2. ASSUME NEW route, AskModel(route), pc' # "capped", pc' # "misrouted"
      PROVE  /\ pc' = "calling" /\ llm'.route = route
             /\ guard'.calls = guard.calls /\ guard'.routing = guard.routing
  BY <1>1, <1>2 DEF AskModel, CountIteration, NoCall, TypeOK, GuardState
<1>3. CASE BeginInvoice \/ CompleteRun
  <2>1. /\ pc = "loop" /\ pc' \in {"analyze", "returning"} /\ idx' = idx
        /\ guard' = guard /\ human_review' = human_review
    BY <1>3 DEF BeginInvoice, CompleteRun, localVars
  <2>2. ~DateJudged /\ ~DateJudged' /\ ~WrittenUp /\ ~WrittenUp'
    BY <2>1 DEF DateJudged, WrittenUp
  <2> QED
    BY <2>1, <2>2 DEF JudgedDates, FirstWriteUps, SecondWriteUps
<1>4. CASE Analyze
  <2>1. /\ pc = "analyze" /\ idx' = idx /\ human_review' = human_review /\ idx \in Positions
    BY <1>1, <1>4 DEF Analyze, TypeOK
  <2>2. CASE AnalystVerdict(Current) # "ambiguous"
    <3>1. pc' = "proposed" /\ guard' = guard
      BY <1>4, <2>2 DEF Analyze
    <3> QED
      BY <2>1, <2>2, <3>1, DatesKept DEF FirstWriteUps, SecondWriteUps, WrittenUp
  <2>3. CASE AnalystVerdict(Current) = "ambiguous"
    <3>1. AskModel("ambiguous_discrepancy")
      BY <1>1, <1>4, <2>3 DEF Analyze
    <3>2. /\ pc' = "calling" /\ llm'.route = "ambiguous_discrepancy"
          /\ guard'.calls = guard.calls /\ guard'.routing = guard.routing
      BY <1>2, <3>1
    <3>3. ~DateJudged /\ ~DateJudged' /\ ~WrittenUp /\ ~WrittenUp'
      BY <2>1, <3>2 DEF DateJudged, WrittenUp
    <3> QED
      BY <2>1, <3>2, <3>3, DatesKept DEF FirstWriteUps, SecondWriteUps
  <2> QED
    BY <2>2, <2>3
<1>5. CASE LogProposal \/ LogHandover
  <2>1. /\ pc \in {"proposed", "handover"} /\ pc' \in {"handover", "validate"}
        /\ idx' = idx /\ guard' = guard /\ human_review' = human_review
        /\ idx \in Positions
    BY <1>1, <1>5 DEF LogProposal, LogHandover, localVars, TypeOK
  <2>2. DateJudged /\ DateJudged' /\ ~WrittenUp /\ ~WrittenUp'
    BY <2>1 DEF DateJudged, WrittenUp
  <2> QED
    BY <2>1, <2>2, DatesKept DEF FirstWriteUps, SecondWriteUps
<1>6. CASE Validate
  <2>1. /\ pc = "validate" /\ idx' = idx /\ human_review' = human_review
        /\ idx \in Positions
    BY <1>1, <1>6 DEF Validate, TypeOK
  <2>2. /\ guard'.calls = guard.calls /\ guard'.routing = guard.routing
        /\ \/ pc' = "judged" /\ decision'.agrees
           \/ pc' = "calling" /\ llm'.route = "disagreement_writeup"
    BY <1>1, <1>2, <1>6 DEF Validate, WriteUp, Decision
  <2>3. DateJudged /\ DateJudged' /\ ~WrittenUp /\ ~WrittenUp'
    BY <2>1, <2>2 DEF DateJudged, WrittenUp
  <2> QED
    BY <2>1, <2>2, <2>3, DatesKept DEF FirstWriteUps, SecondWriteUps
<1>7. CASE LogVerdict
  <2>1. /\ pc = "judged" /\ pc' = IF decision.agrees THEN "approved" ELSE "escalated"
        /\ idx' = idx /\ guard' = guard /\ human_review' = human_review
        /\ idx \in Positions
    BY <1>1, <1>7 DEF LogVerdict, localVars, TypeOK
  <2>2. DateJudged /\ DateJudged' /\ (WrittenUp' <=> WrittenUp)
    BY <2>1 DEF DateJudged, WrittenUp
  <2> QED
    BY <2>1, <2>2, DatesKept DEF FirstWriteUps, SecondWriteUps
<1>8. CASE ConfirmEscalation
  <2>1. /\ pc = "escalated" /\ idx' = idx /\ human_review' = human_review
        /\ idx \in Positions
    BY <1>1, <1>8 DEF ConfirmEscalation, TypeOK
  <2>2. /\ guard'.calls = guard.calls /\ guard'.routing = guard.routing
        /\ pc' = "calling" /\ llm'.route = "disagreement_writeup_escalated"
    BY <1>1, <1>2, <1>8 DEF ConfirmEscalation, WriteUp
  <2>3. DateJudged /\ DateJudged' /\ WrittenUp /\ WrittenUp'
    BY <2>1, <2>2 DEF DateJudged, WrittenUp
  <2> QED
    BY <2>1, <2>2, <2>3, DatesKept DEF FirstWriteUps, SecondWriteUps
<1>9. CASE ProviderAnswers
  <2>1. /\ pc = "calling" /\ pc' = "recording" /\ llm'.route = llm.route
        /\ idx' = idx /\ guard' = guard /\ human_review' = human_review
        /\ idx \in Positions
    BY <1>1, <1>9 DEF ProviderAnswers, TypeOK
  <2>2. (DateJudged' <=> DateJudged) /\ (WrittenUp' <=> WrittenUp)
    BY <2>1 DEF DateJudged, WrittenUp
  <2> QED
    BY <2>1, <2>2, DatesKept DEF FirstWriteUps, SecondWriteUps
<1> QED
  BY <1>3, <1>4, <1>5, <1>6, <1>7, <1>8, <1>9

LEMMA PaidStep ==
    ASSUME RunTrail, StageTrail, PaidTrail, [FrontierNext]_frontierVars
    PROVE  PaidTrail'
<1>1. CASE RunCorpus
  <2>1. /\ pc' = "loop" /\ idx' = 0 /\ guard'.calls = <<>> /\ human_review' = <<>>
    BY <1>1, CorpusIsEntered
  <2>2. JudgedDates' = {}
    <3>1. ~DateJudged' /\ \A i \in Positions : ~(i < 0)
      BY <2>1 DEF DateJudged, Positions
    <3> QED
      BY <2>1, <3>1 DEF JudgedDates
  <2>3. Cardinality(JudgedDates') = 0 /\ FirstWriteUps' = 0 /\ SecondWriteUps' = 0
    BY <2>1, <2>2, FS_EmptySet DEF FirstWriteUps, SecondWriteUps, WrittenUp
  <2>4. ASSUME NEW t PROVE CallsOn(t)' = 0 /\ PaidFor(t)' = 0
    <3>1. {k \in DOMAIN guard'.calls : guard'.calls[k].tier = t} = {}
      BY <2>1
    <3> QED
      BY <2>3, <3>1, FS_EmptySet DEF CallsOn, PaidFor, ShareOf
  <2> QED
    BY <2>1, <2>4 DEF PaidTrail
<1>2. CASE ReconcileStep
  <2>1. /\ Next /\ pc # "idle" /\ stage = "running" /\ stage' = "running"
    BY <1>2, RunContinuesOrEnds DEF ReconcileStep
  <2>2. pc' = "returning" /\ run'.status = "completed" => idx' = Len(Invoices)
    <3>1. CASE CompleteRun
      BY <3>1 DEF CompleteRun
    <3>2. CASE HaltRun
      <4>1. run'.status = "halted"
        BY <3>2 DEF HaltRun, halt_run, RunTrail, TypeOK, RunRow
      <4> QED
        BY <4>1
    <3>3. CASE ~(CompleteRun \/ HaltRun)
      <4>1. pc' # "returning"
        BY <1>2, <3>3
        DEF ReconcileStep, ProgramStep, ProviderFails, Raise, DropLocals, ReturnResult,
            BeginInvoice, RefuseName, RefuseRoute, Analyze, LogProposal, LogHandover,
            Validate, WriteUp, AskModel, LogVerdict, CloseInvoice, ConfirmEscalation,
            HandToHuman, EscalateCapped, NextInvoice, ProviderAnswers, RecordUsage,
            ReadAnswer
      <4> QED
        BY <4>1
    <3> QED
      BY <3>1, <3>2, <3>3
  <2>3. ASSUME Answered' PROVE \A t \in TierNames : CallsOn(t)' = PaidFor(t)'
    <3>1. /\ pc' \notin {"idle", "halting", "capped", "misrouted"}
          /\ ~(pc' = "returning" /\ run'.status = "halted")
      BY <2>3 DEF Answered
    <3>2. pc # "capped"
      BY <2>1, FrontierAssumption, PipelineAssumption DEF StageTrail, RunTrail, CapTrail
    <3>3. ~(EscalateCapped \/ ReturnResult \/ RefuseRoute \/ RefuseName \/ ProviderFails)
      BY <3>1, <3>2
      DEF EscalateCapped, ReturnResult, RefuseRoute, RefuseName, ProviderFails, Raise,
          DropLocals
    <3>4. ~HaltRun
      BY <3>1 DEF HaltRun, halt_run, RunTrail, TypeOK, RunRow
    <3>5. pc \notin {"halting", "misrouted", "returning"}
      BY <1>2, <3>3, <3>4
      DEF ReconcileStep, ProgramStep, BeginInvoice, Analyze, LogProposal, LogHandover,
          Validate, LogVerdict, CloseInvoice, ConfirmEscalation, HandToHuman, CompleteRun,
          ProviderAnswers, RecordUsage
    <3>6. \A t \in TierNames : CallsOn(t) = PaidFor(t)
      BY <2>1, <3>2, <3>5 DEF PaidTrail, Answered
    <3>7. CASE RecordUsage
      BY <3>1, <3>6, <3>7, AnswerIsPaid
    <3>8. CASE CloseInvoice \/ HandToHuman
      BY <3>6, <3>8, EndIsPaid, PaidKept
    <3>9. CASE ~(RecordUsage \/ CloseInvoice \/ HandToHuman)
      <4>1. \/ BeginInvoice \/ Analyze \/ LogProposal \/ LogHandover \/ Validate
            \/ LogVerdict \/ ConfirmEscalation \/ ProviderAnswers \/ CompleteRun
        BY <1>2, <3>3, <3>4, <3>9 DEF ReconcileStep, ProgramStep
      <4> QED
        BY <2>1, <3>1, <3>6, <4>1, NothingIsPaid, PaidKept
    <3> QED
      BY <3>7, <3>8, <3>9
  <2> QED
    BY <2>2, <2>3 DEF PaidTrail
<1>3. CASE OpenStore \/ ScorePoint \/ ReportRaises
  <2>1. stage' # "running" /\ pc' = "idle"
    BY <1>3 DEF OpenStore, ScorePoint, ReportRaises, StageTrail, vars
  <2> QED
    BY <2>1 DEF PaidTrail, Answered
<1>4. CASE UNCHANGED frontierVars
  BY <1>4
  DEF frontierVars, vars, storeVars, localVars, PaidTrail, Answered, CallsOn, PaidFor,
      ShareOf, TierFor, JudgedDates, DateJudged, FirstWriteUps, SecondWriteUps, WrittenUp
<1> QED
  BY <1>1, <1>2, <1>3, <1>4 DEF FrontierNext

\* A finished corpus has paid for every ambiguous date once and for every
\* escalated invoice twice, on the tiers its table routes them to, for every
\* list of routing tables and every answer (analyze, _write_up_disagreement,
\* confirm_escalation, Guardrails.record_usage).
THEOREM EscalationsArePaidOnce == FrontierSpec => []CallsFollowEscalations
<1>1. FrontierInit => RunTrail /\ StageTrail /\ PaidTrail
  BY FrontierBegins DEF FrontierInit, Init, PaidTrail, Answered
<1>2. RunTrail /\ StageTrail /\ PaidTrail /\ [FrontierNext]_frontierVars
      => RunTrail' /\ StageTrail' /\ PaidTrail'
  BY StageStep, PaidStep
<1>3. RunTrail /\ PaidTrail => CallsFollowEscalations
  <2> SUFFICES ASSUME RunTrail, PaidTrail, CorpusIsDone PROVE CallsFollowEscalations
    BY DEF CallsFollowEscalations
  <2>1. /\ idx = Len(Invoices) /\ \A t \in TierNames : CallsOn(t) = PaidFor(t)
        /\ pc = "returning"
    BY DEF CorpusIsDone, PaidTrail, Answered
  <2>2. JudgedDates = {i \in Positions : AnalystVerdict(Invoice(i)) = "ambiguous"}
    <3>1. \A i \in Positions : i < idx
      BY <2>1, BatchLength DEF Positions
    <3> QED
      BY <3>1 DEF JudgedDates
  <2>3. FirstWriteUps = Len(human_review) /\ SecondWriteUps = Len(human_review)
    <3>1. Len(human_review) \in Nat
      BY DEF RunTrail, TypeOK
    <3> QED
      BY <2>1, <3>1 DEF FirstWriteUps, SecondWriteUps, WrittenUp
  <2> QED
    BY <2>1, <2>2, <2>3 DEF CallsFollowEscalations, PaidFor
<1> QED
  BY <1>1, <1>2, <1>3, PTL DEF FrontierSpec

=============================================================================
