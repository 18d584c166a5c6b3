------------------------- MODULE PipelineCallProofs -------------------------
(***************************************************************************)
(* The LLM calls of a run: the expensive tier comes right after the mid    *)
(* one, about the same invoice; only invoices the checks leave open reach  *)
(* a provider; the cap spares who does not reuse Guardrails; and a cost    *)
(* report says what the run was charged.                                   *)
(*                                                                         *)
(* And its results: a call accounts to its caller for the invoices it      *)
(* passed, it cannot go on for ever, no invoice is in two results of one   *)
(* run, and what the store keeps of it implements the ledger.              *)
(***************************************************************************)
EXTENDS CostReport, PipelineRefinement, PipelineProofs, AgentsProofs

-----------------------------------------------------------------------------
(* The tiers in the log.                                                   *)

MidIsLast ==
    /\ log # <<>>
    /\ log[Len(log)].model_tier = "mid"
    /\ log[Len(log)].step_index = idx

\* With a provider, a disagreement is always written up by it, and the row of
\* that write-up is the last one until the escalation is confirmed.
TierTrail ==
    /\ pc = "judged" /\ "validator" \in providers =>
           decision.agrees \/ decision.used_llm
    /\ pc = "escalated" /\ "validator" \in providers => MidIsLast
    /\ pc = "confirmed" /\ decision.used_llm => MidIsLast
    /\ pc \in {"calling", "recording"}
       /\ llm.route = "disagreement_writeup_escalated" => MidIsLast

LEMMA TierStep ==
    ASSUME TypeOK, [Next]_vars, ApprovalIsSound, TierTrail
    PROVE  TierTrail'
<1>1. CASE Validate
  <2>1. /\ pc' \in {"judged", "calling", "capped", "misrouted"}
        /\ pc' = "calling" => llm'.route = "disagreement_writeup"
        /\ providers' = providers
    BY <1>1 DEF Validate, WriteUp, AskModel, NoCall
  <2>2. pc' = "judged" /\ "validator" \in providers => decision'.agrees
    BY <1>1 DEF Validate, WriteUp, AskModel, Decision
  <2> QED
    BY <2>1, <2>2 DEF TierTrail
<1>2. CASE LogVerdict
  <2>1. /\ pc' = IF decision.agrees THEN "approved" ELSE "escalated"
        /\ idx' = idx /\ providers' = providers
    BY <1>2 DEF LogVerdict, localVars
  <2>2. ASSUME ~decision.agrees, "validator" \in providers PROVE MidIsLast'
    <3>1. decision.used_llm
      BY <1>2, <2>2 DEF LogVerdict, TierTrail
    <3>2. PICK verdict, tier :
              Log("validator_reviewing", verdict, tier) /\ tier = "mid"
      BY <1>2, <3>1 DEF LogVerdict, TierIf
    <3>3. /\ Len(log) \in Nat /\ Len(log') = Len(log) + 1
          /\ DOMAIN log' = 1 .. Len(log) + 1
          /\ log'[Len(log) + 1].step_index = idx
          /\ log'[Len(log) + 1].model_tier = tier
      BY <3>2, AppendedLog
    <3>4. log' # <<>>
      BY <3>3
    <3> QED
      BY <2>1, <3>2, <3>3, <3>4 DEF MidIsLast
  <2> QED
    BY <2>1, <2>2 DEF TierTrail
<1>3. CASE ConfirmEscalation
  <2>1. /\ pc = "escalated" /\ log' = log /\ idx' = idx /\ providers' = providers
        /\ pc' \in {"confirmed", "calling", "capped", "misrouted"}
    BY <1>3 DEF ConfirmEscalation, WriteUp, AskModel, storeVars
  <2>2. "validator" \in providers => MidIsLast'
    BY <2>1 DEF TierTrail, MidIsLast
  <2>3. "validator" \notin providers => pc' = "confirmed" /\ ~decision'.used_llm
    BY <1>3 DEF ConfirmEscalation, WriteUp, Decision
  <2> QED
    BY <2>1, <2>2, <2>3 DEF TierTrail
<1>4. CASE RecordUsage
  <2>1. /\ pc' \in {"proposed", "judged", "confirmed", "halting"}
        /\ pc' = "confirmed" => llm.route = "disagreement_writeup_escalated"
        /\ pc' = "judged" => decision'.used_llm
        /\ pc = "recording" /\ log' = log /\ idx' = idx
    BY <1>4 DEF RecordUsage, ReadAnswer, record_usage, store_record_usage, Decision
  <2> QED
    BY <2>1 DEF TierTrail, MidIsLast
<1>5. CASE Analyze
  <2>1. /\ pc' \in {"proposed", "calling", "capped", "misrouted"}
        /\ pc' = "calling" => llm'.route = "ambiguous_discrepancy"
    BY <1>5 DEF Analyze, AskModel, NoCall
  <2> QED
    BY <2>1 DEF TierTrail
<1>6. CASE ProviderAnswers
  <2>1. /\ pc = "calling" /\ pc' = "recording" /\ llm'.route = llm.route
        /\ log' = log /\ idx' = idx
    BY <1>6 DEF ProviderAnswers, storeVars, TypeOK
  <2> QED
    BY <2>1 DEF TierTrail, MidIsLast
<1>7. CASE \/ StartReconciliation \/ ResumeReconciliation \/ ResumeUnknownRun
           \/ RefuseName \/ RefuseRoute \/ ProviderFails \/ Crash \/ ReturnResult
  <2>1. pc' \in {"idle", "loop"}
    BY <1>7
    DEF StartReconciliation, ResumeReconciliation, Reconcile, EnterLoop, Raise,
        DropLocals, ResumeUnknownRun, RefuseName, RefuseRoute, ProviderFails, Crash,
        ReturnResult
  <2> QED
    BY <2>1 DEF TierTrail
<1>8. CASE \/ BeginInvoice \/ LogProposal \/ LogHandover \/ CompleteRun \/ HaltRun
           \/ CloseInvoice \/ HandToHuman \/ EscalateCapped
  <2>1. pc' \in {"analyze", "handover", "validate", "returning", "loop"}
    BY <1>8 DEF BeginInvoice, LogProposal, LogHandover, CompleteRun, HaltRun,
                CloseInvoice, HandToHuman, EscalateCapped, NextInvoice
  <2> QED
    BY <2>1 DEF TierTrail
<1>9. CASE UNCHANGED vars
  BY <1>9 DEF vars, storeVars, localVars, TierTrail, MidIsLast
<1> QED
  BY <1>1, <1>2, <1>3, <1>4, <1>5, <1>6, <1>7, <1>8, <1>9 DEF Next, ProgramStep

\* A row of the expensive tier is only appended to one of the mid tier.
LEMMA ExpensiveRow ==
    ASSUME TypeOK, LoggedRow, TierTrail
    PROVE  \E from, to, tier :
               Log(from, to, tier) /\ (tier = "expensive" => MidIsLast)
<1>1. CASE BeginInvoice
  BY <1>1 DEF BeginInvoice
<1>2. CASE LogProposal
  BY <1>2 DEF LogProposal, TierIf
<1>3. CASE LogHandover
  BY <1>3 DEF LogHandover
<1>4. CASE LogVerdict
  BY <1>4 DEF LogVerdict, TierIf
<1>5. CASE CloseInvoice
  BY <1>5 DEF CloseInvoice
<1>6. CASE HandToHuman
  BY <1>6 DEF HandToHuman, TierIf, TierTrail
<1>7. CASE EscalateCapped
  BY <1>7 DEF EscalateCapped
<1> QED
  BY <1>1, <1>2, <1>3, <1>4, <1>5, <1>6, <1>7 DEF LoggedRow

LEMMA ExpensiveStep ==
    ASSUME TypeOK, [Next]_vars, TierTrail, ExpensiveFollowsMid
    PROVE  ExpensiveFollowsMid'
<1>1. CASE ~LoggedRow
  BY <1>1, OthersKeepLog DEF ExpensiveFollowsMid
<1>2. CASE LoggedRow
  <2>1. PICK from, to, tier :
            Log(from, to, tier) /\ (tier = "expensive" => MidIsLast)
    BY <1>2, ExpensiveRow
  <2> DEFINE n == Len(log)
  <2>2. /\ n \in Nat /\ DOMAIN log = 1 .. n /\ DOMAIN log' = 1 .. n + 1
        /\ \A k \in DOMAIN log : log'[k] = log[k]
        /\ log'[n + 1].step_index = idx /\ log'[n + 1].model_tier = tier
    BY <2>1, AppendedLog
  <2>3. log # <<>> => n > 0
    BY <2>2 DEF TypeOK
  <2> HIDE DEF n
  <2> SUFFICES ASSUME NEW k \in DOMAIN log', log'[k].model_tier = "expensive"
               PROVE  /\ k > 1
                      /\ log'[k - 1].model_tier = "mid"
                      /\ log'[k - 1].step_index = log'[k].step_index
    BY DEF ExpensiveFollowsMid
  <2>4. CASE k \in DOMAIN log
    <3>1. log'[k] = log[k] /\ (k > 1 => log'[k - 1] = log[k - 1])
      BY <2>2, <2>4
    <3> QED
      BY <2>4, <3>1 DEF ExpensiveFollowsMid
  <2>5. CASE k = n + 1
    <3>1. MidIsLast
      BY <2>1, <2>2, <2>5
    <3>2. k > 1 /\ log'[k - 1].model_tier = "mid" /\ log'[k - 1].step_index = idx
      BY <2>2, <2>3, <2>5, <3>1 DEF MidIsLast, n
    <3> QED
      BY <2>2, <2>5, <3>2
  <2> QED
    BY <2>2, <2>4, <2>5
<1> QED
  BY <1>1, <1>2

\* The expensive tier never writes up a disagreement that the mid tier has
\* not written up in the row before, across halts, crashes and resumptions
\* (_write_up_disagreement, confirm_escalation).
THEOREM MidBeforeExpensive == Spec => []ExpensiveFollowsMid
<1>1. Init => ApprovalIsSound /\ TierTrail /\ ExpensiveFollowsMid
  BY DEF Init, StoreInit, ApprovalIsSound, TierTrail, ExpensiveFollowsMid
<1>2. /\ TypeOK /\ ApprovalIsSound /\ TierTrail /\ ExpensiveFollowsMid
      /\ [Next]_vars
      => ApprovalIsSound' /\ TierTrail' /\ ExpensiveFollowsMid'
  BY ApprovalStep, TierStep, ExpensiveStep
<1> QED
  BY <1>1, <1>2, TypeCorrect, PTL DEF Spec

-----------------------------------------------------------------------------
(* Who is asked.                                                           *)

\* Every invoice of the batch has a date or none.
LEMMA BilledDateType ==
    ASSUME TypeOK, pc \notin {"idle", "loop", "returning"}
    PROVE  Current.service_date \in Int \cup {None}
<1>1. Invoices \in Seq(InvoiceLineItem) /\ idx + 1 \in 1 .. Len(Invoices)
  BY PipelineAssumption DEF TypeOK, Positions
<1>2. Invoices[idx + 1] \in InvoiceLineItem
  BY <1>1
<1> QED
  BY <1>2 DEF InvoiceLineItem, Current, Invoice

\* Until the verdict, an invoice is ambiguous or its proposal clear-cut; from
\* then on it is ambiguous or approved.
AmbiguityTrail ==
    /\ pc \in {"calling", "recording", "capped", "misrouted", "escalated", "confirmed"} =>
           AnalystVerdict(Current) = "ambiguous"
    /\ pc \in {"proposed", "handover", "validate"} =>
           \/ AnalystVerdict(Current) = "ambiguous"
           \/ proposal = ClearCutProposal(Current)
    /\ pc = "judged" => AnalystVerdict(Current) = "ambiguous" \/ decision.agrees

LEMMA AmbiguityStep ==
    ASSUME TypeOK, [Next]_vars, AmbiguityTrail
    PROVE  AmbiguityTrail'
<1>1. CASE Analyze
  <2>1. /\ Current' = Current
        /\ pc' \in {"proposed", "calling", "capped", "misrouted"}
        /\ \/ AnalystVerdict(Current) = "ambiguous"
           \/ pc' = "proposed" /\ proposal' = ClearCutProposal(Current)
    BY <1>1 DEF Analyze, AskModel, Current
  <2> QED
    BY <2>1 DEF AmbiguityTrail
<1>2. CASE Validate
  <2>1. /\ Current' = Current
        /\ pc' \in {"judged", "calling", "capped", "misrouted"}
        /\ ValidatorAgrees(Current, proposal) => pc' = "judged" /\ decision'.agrees
    BY <1>2 DEF Validate, WriteUp, AskModel, Current, Decision
  <2>2. AnalystVerdict(Current) = "ambiguous" \/ ValidatorAgrees(Current, proposal)
    <3>1. Current.service_date \in Int \cup {None}
      BY <1>2, BilledDateType DEF Validate
    <3> QED
      BY <1>2, <3>1, ClearCutIsAgreed DEF Validate, AmbiguityTrail
  <2> QED
    BY <2>1, <2>2 DEF AmbiguityTrail
<1>3. CASE LogProposal \/ LogHandover
  <2>1. /\ Current' = Current /\ proposal' = proposal
        /\ pc \in {"proposed", "handover"} /\ pc' \in {"handover", "validate"}
    BY <1>3 DEF LogProposal, LogHandover, localVars, Current
  <2> QED
    BY <2>1 DEF AmbiguityTrail
<1>4. CASE LogVerdict
  <2>1. /\ Current' = Current /\ pc = "judged"
        /\ pc' = IF decision.agrees THEN "approved" ELSE "escalated"
    BY <1>4 DEF LogVerdict, Current
  <2> QED
    BY <2>1 DEF AmbiguityTrail
<1>5. CASE ConfirmEscalation
  <2>1. /\ Current' = Current /\ pc = "escalated"
        /\ pc' \in {"confirmed", "calling", "capped", "misrouted"}
    BY <1>5 DEF ConfirmEscalation, WriteUp, AskModel, Current
  <2> QED
    BY <2>1 DEF AmbiguityTrail
<1>6. CASE ProviderAnswers \/ RecordUsage
  <2>1. /\ Current' = Current /\ pc \in {"calling", "recording"}
        /\ pc' \in {"recording", "proposed", "judged", "confirmed", "halting"}
    BY <1>6 DEF ProviderAnswers, RecordUsage, ReadAnswer, Current
  <2> QED
    BY <2>1 DEF AmbiguityTrail
<1>7. CASE \/ StartReconciliation \/ ResumeReconciliation \/ ResumeUnknownRun
           \/ RefuseName \/ RefuseRoute \/ ProviderFails \/ Crash \/ ReturnResult
  <2>1. pc' \in {"idle", "loop"}
    BY <1>7
    DEF StartReconciliation, ResumeReconciliation, Reconcile, EnterLoop, Raise,
        DropLocals, ResumeUnknownRun, RefuseName, RefuseRoute, ProviderFails, Crash,
        ReturnResult
  <2> QED
    BY <2>1 DEF AmbiguityTrail
<1>8. CASE \/ BeginInvoice \/ CompleteRun \/ HaltRun
           \/ CloseInvoice \/ HandToHuman \/ EscalateCapped
  <2>1. pc' \in {"analyze", "returning", "loop"}
    BY <1>8 DEF BeginInvoice, CompleteRun, HaltRun, CloseInvoice, HandToHuman,
                EscalateCapped, NextInvoice
  <2> QED
    BY <2>1 DEF AmbiguityTrail
<1>9. CASE UNCHANGED vars
  BY <1>9 DEF vars, localVars, AmbiguityTrail, Current
<1> QED
  BY <1>1, <1>2, <1>3, <1>4, <1>5, <1>6, <1>7, <1>8, <1>9 DEF Next, ProgramStep

\* No invoice that the checks settle ever costs a token, for every job list
\* and every answer of a provider (analyze, validate).
THEOREM OnlyDoubtCosts == Spec => []OnlyAmbiguityCallsModels
<1>1. Init => AmbiguityTrail
  BY DEF Init, AmbiguityTrail
<1>2. TypeOK /\ AmbiguityTrail /\ [Next]_vars => AmbiguityTrail'
  BY AmbiguityStep
<1>3. AmbiguityTrail => OnlyAmbiguityCallsModels
  BY DEF AmbiguityTrail, OnlyAmbiguityCallsModels
<1> QED
  BY <1>1, <1>2, <1>3, TypeCorrect, PTL DEF Spec

-----------------------------------------------------------------------------
(* The iteration cap.                                                      *)

StepsOf(i) == guard.iterations[Invoice(i).invoice_id]

\* The steps a task has been charged for once a call on this route is counted.
StepsBy(route) ==
    IF route = "ambiguous_discrepancy" THEN 1
    ELSE IF route = "disagreement_writeup" THEN 2 ELSE 3

\* Under Guardrails of its own, a call has charged nothing to the invoices
\* ahead of it, and to the current one at most the steps on the way here.
CapTrail ==
    pc # "idle" /\ ~segment.reused =>
        /\ \A i \in Positions : i > idx => StepsOf(i) = 0
        /\ pc \in {"loop", "analyze"} => \A i \in Positions : i = idx => StepsOf(i) = 0
        /\ pc \in {"proposed", "handover", "validate"} => StepsOf(idx) <= 1
        /\ pc \in {"calling", "recording"} => StepsOf(idx) <= StepsBy(llm.route)
        /\ pc \in {"judged", "approved", "escalated"} => StepsOf(idx) <= 2
        /\ pc = "capped" => MaxIterationsPerTask < 3

LEMMA StepsType ==
    ASSUME TypeOK, NEW i \in Positions
    PROVE  StepsOf(i) \in Nat
<1>1. Invoice(i).invoice_id \in TaskIds
  BY TaskIdType
<1>2. \A n \in 0 .. MaxIterationsPerTask : n \in Nat
  BY PipelineAssumption
<1>3. guard.iterations[Invoice(i).invoice_id] \in 0 .. MaxIterationsPerTask
  BY <1>1 DEF TypeOK, GuardState
<1> QED
  BY <1>2, <1>3 DEF StepsOf

\* Asking a model charges one step to the current invoice, and to no other;
\* a cap met on the way leaves no room for the steps so far and this one.
LEMMA AskModelCharges ==
    ASSUME TypeOK, DistinctIds, idx \in Positions, NEW route, AskModel(route),
           idx' = idx, StepsOf(idx) + 1 <= StepsBy(route)
    PROVE  /\ \A i \in Positions : i # idx => StepsOf(i)' = StepsOf(i)
           /\ pc' \in {"calling", "capped", "misrouted"}
           /\ pc' = "calling" => llm'.route = route /\ StepsOf(idx)' <= StepsBy(route)
           /\ pc' = "capped" => MaxIterationsPerTask < 3
<1> DEFINE t == Current.invoice_id
<1>1. t \in TaskIds /\ t = Invoice(idx).invoice_id
  BY TaskIdType DEF Current
<1>2. StepsOf(idx) \in Nat /\ StepsBy(route) <= 3 /\ StepsBy(route) \in Nat
      /\ MaxIterationsPerTask \in Nat
  BY StepsType, PipelineAssumption DEF StepsBy
<1>3. CASE UNCHANGED guard /\ pc' = "capped"
  <2>1. StepsOf(idx) + 1 > MaxIterationsPerTask
    BY <1>1, <1>3 DEF AskModel, CapReached, StepsOf
  <2> QED
    BY <1>2, <1>3, <2>1 DEF StepsOf
<1>4. CASE CountIteration(t)
  <2>1. guard'.iterations = [guard.iterations EXCEPT ![t] = @ + 1]
    BY <1>1, <1>4 DEF CountIteration, TypeOK, GuardState
  <2>2. ASSUME NEW i \in Positions, i # idx PROVE StepsOf(i)' = StepsOf(i)
    <3>1. Invoice(i).invoice_id \in TaskIds /\ Invoice(i).invoice_id # t
      BY <1>1, <2>2, TaskIdType DEF DistinctIds
    <3> QED
      BY <2>1, <3>1 DEF StepsOf, TypeOK, GuardState
  <2>3. guard'.iterations[t] = guard.iterations[t] + 1
    BY <1>1, <2>1 DEF TypeOK, GuardState
  <2>4. pc' = "calling" => llm'.route = route
    BY DEF AskModel, NoCall
  <2>5. pc' \in {"calling", "misrouted"} \/ (pc' = "capped" /\ UNCHANGED guard)
    BY DEF AskModel
  <2>6. StepsOf(idx)' = StepsOf(idx) + 1
    BY <1>1, <2>3 DEF StepsOf
  <2>7. pc' # "capped"
    BY <1>2, <2>5, <2>6 DEF StepsOf
  <2> QED
    BY <1>2, <2>2, <2>4, <2>5, <2>6, <2>7
<1> QED
  BY <1>3, <1>4 DEF AskModel

LEMMA CapStep ==
    ASSUME TypeOK, DistinctIds, [Next]_vars, CapTrail
    PROVE  CapTrail'
<1> DEFINE Inside == pc \notin {"idle", "loop", "returning"}
           Quiet == segment' = segment
<1>0. Inside => idx \in Positions
  BY DEF TypeOK
<1>1. ASSUME \/ RefuseName \/ RefuseRoute \/ ResumeUnknownRun \/ ProviderFails
             \/ Crash \/ ReturnResult
      PROVE  CapTrail'
  <2>1. pc' = "idle"
    BY <1>1 DEF RefuseName, RefuseRoute, ResumeUnknownRun, ProviderFails, Crash,
                ReturnResult, Raise, DropLocals
  <2> QED
    BY <2>1 DEF CapTrail
<1>2. ASSUME NEW start, NEW g \in OfferedGuardrails, NEW ps, Reconcile(start, g, ps)
      PROVE  CapTrail'
  <2>1. CASE Raise("duplicate_run")
    BY <2>1 DEF Raise, DropLocals, CapTrail
  <2>2. CASE EnterLoop(start, g, ps)
    <3>1. /\ pc' = "loop" /\ guard' = g
          /\ guard.live /\ g = guard => segment'.reused
      BY <2>2 DEF EnterLoop
    <3>2. ~segment'.reused => \A i \in Positions : StepsOf(i)' = 0
      <4>1. ASSUME ~segment'.reused, NEW i \in Positions
            PROVE  StepsOf(i)' = 0
        <5>1. PICK b \in Budgets, r \in Routings : g = NewGuardrails(b, r)
          <6>1. \/ g \in {NewGuardrails(b, r) : b \in Budgets, r \in Routings}
                \/ guard.live /\ g = guard
            BY DEF OfferedGuardrails
          <6> QED
            BY <3>1, <4>1, <6>1
        <5>2. Invoice(i).invoice_id \in TaskIds
          BY TaskIdType
        <5>3. guard'.iterations = [t \in TaskIds |-> 0]
          BY <3>1, <5>1 DEF NewGuardrails
        <5> QED
          BY <5>2, <5>3 DEF StepsOf
      <4> QED
        BY <4>1
    <3> QED
      BY <3>1, <3>2 DEF CapTrail
  <2> QED
    BY <1>2, <2>1, <2>2 DEF Reconcile
<1>3. CASE StartReconciliation
  BY <1>2, <1>3 DEF StartReconciliation, OfferedGuardrails
<1>4. CASE ResumeReconciliation
  BY <1>2, <1>4 DEF ResumeReconciliation
<1>5. CASE CloseInvoice \/ HandToHuman \/ EscalateCapped
  <2>1. /\ pc' = "loop" /\ idx' = idx + 1 /\ UNCHANGED <<guard, segment>> /\ Inside
    BY <1>5 DEF CloseInvoice, HandToHuman, EscalateCapped, NextInvoice
  <2>2. \A i \in Positions : i \in Nat
    BY DEF Positions
  <2> QED
    BY <1>0, <2>1, <2>2 DEF CapTrail, StepsOf
<1>6. CASE BeginInvoice \/ LogProposal \/ LogHandover \/ LogVerdict \/ CompleteRun
           \/ HaltRun
  <2>1. /\ UNCHANGED <<guard, segment, idx, llm>>
        /\ \/ pc = "loop" /\ pc' \in {"analyze", "returning"}
           \/ pc \in {"proposed", "handover"} /\ pc' \in {"handover", "validate"}
           \/ pc = "judged" /\ pc' \in {"approved", "escalated"}
           \/ pc = "halting" /\ pc' = "returning"
    BY <1>6 DEF BeginInvoice, LogProposal, LogHandover, LogVerdict, CompleteRun,
                HaltRun, localVars
  <2> QED
    BY <2>1 DEF CapTrail, StepsOf
<1>7. CASE ProviderAnswers
  <2>1. /\ UNCHANGED <<guard, segment, idx>> /\ llm'.route = llm.route
        /\ pc = "calling" /\ pc' = "recording"
    BY <1>7 DEF ProviderAnswers, TypeOK
  <2> QED
    BY <2>1 DEF CapTrail, StepsOf
<1>8. CASE RecordUsage
  <2>1. /\ guard'.iterations = guard.iterations /\ UNCHANGED <<segment, idx>>
        /\ pc = "recording"
        /\ \/ llm.route = "ambiguous_discrepancy" /\ pc' = "proposed"
           \/ llm.route = "disagreement_writeup" /\ pc' = "judged"
           \/ pc' \in {"confirmed", "halting"}
    BY <1>8 DEF RecordUsage, ReadAnswer, record_usage, TypeOK, GuardState
  <2> QED
    BY <2>1 DEF CapTrail, StepsOf, StepsBy
<1>9. ASSUME NEW route, AskModel(route), Inside, UNCHANGED <<idx, segment>>,
             ~segment.reused, StepsOf(idx) + 1 <= StepsBy(route)
      PROVE  CapTrail'
  <2>1. /\ \A i \in Positions : i # idx => StepsOf(i)' = StepsOf(i)
        /\ pc' \in {"calling", "capped", "misrouted"}
        /\ pc' = "calling" => llm'.route = route /\ StepsOf(idx)' <= StepsBy(route)
        /\ pc' = "capped" => MaxIterationsPerTask < 3
    BY <1>0, <1>9, AskModelCharges
  <2>2. \A i \in Positions : i > idx => i # idx
    BY <1>0, <1>9 DEF Positions
  <2>3. \A i \in Positions : i > idx => StepsOf(i)' = 0
    BY <1>9, <2>1, <2>2 DEF CapTrail
  <2> QED
    BY <1>9, <2>1, <2>3 DEF CapTrail
<1>10. CASE Analyze
  <2>1. /\ pc = "analyze" /\ UNCHANGED <<idx, segment>>
        /\ \/ pc' = "proposed" /\ UNCHANGED guard
           \/ AskModel("ambiguous_discrepancy")
    BY <1>10 DEF Analyze
  <2>2. ASSUME ~segment.reused PROVE StepsOf(idx) = 0
    BY <1>0, <2>1, <2>2 DEF CapTrail
  <2>3. StepsBy("ambiguous_discrepancy") = 1
    BY DEF StepsBy
  <2> QED
    BY <1>9, <2>1, <2>2, <2>3 DEF CapTrail, StepsOf
<1>11. CASE Validate
  <2>1. /\ pc = "validate" /\ UNCHANGED <<idx, segment>>
        /\ \/ pc' = "judged" /\ UNCHANGED guard
           \/ AskModel("disagreement_writeup")
    BY <1>11 DEF Validate, WriteUp
  <2>2. ASSUME ~segment.reused PROVE StepsOf(idx) \in Nat /\ StepsOf(idx) <= 1
    BY <1>0, <2>1, <2>2, StepsType DEF CapTrail
  <2>3. StepsBy("disagreement_writeup") = 2
    BY DEF StepsBy
  <2> QED
    BY <1>9, <2>1, <2>2, <2>3 DEF CapTrail, StepsOf
<1>12. CASE ConfirmEscalation
  <2>1. /\ pc = "escalated" /\ UNCHANGED <<idx, segment>>
        /\ \/ pc' = "confirmed" /\ UNCHANGED guard
           \/ AskModel("disagreement_writeup_escalated")
    BY <1>12 DEF ConfirmEscalation, WriteUp
  <2>2. ASSUME ~segment.reused PROVE StepsOf(idx) \in Nat /\ StepsOf(idx) <= 2
    BY <1>0, <2>1, <2>2, StepsType DEF CapTrail
  <2>3. StepsBy("disagreement_writeup_escalated") = 3
    BY DEF StepsBy
  <2> QED
    BY <1>9, <2>1, <2>2, <2>3 DEF CapTrail, StepsOf
<1>13. CASE UNCHANGED vars
  BY <1>13 DEF vars, localVars, CapTrail, StepsOf
<1> QED
  BY <1>1, <1>3, <1>4, <1>5, <1>6, <1>7, <1>8, <1>10, <1>11, <1>12, <1>13
  DEF Next, ProgramStep

\* Three LLM steps are enough for every invoice, whatever the providers
\* answer, unless the caller reuses Guardrails; two invoices of one id would
\* share their counter (check_iteration).
THEOREM FreshGuardrailsNeverCap ==
    ASSUME DistinctIds
    PROVE  Spec => []CapNeedsReusedGuardrails
<1>1. Init => CapTrail
  BY DEF Init, CapTrail
<1>2. TypeOK /\ CapTrail /\ [Next]_vars => CapTrail'
  BY CapStep
<1>3. CapTrail => CapNeedsReusedGuardrails
  BY PipelineAssumption DEF CapTrail, CapNeedsReusedGuardrails
<1> QED
  BY <1>1, <1>2, <1>3, TypeCorrect, PTL DEF Spec

-----------------------------------------------------------------------------
(* What a report says of the calls.                                        *)

\* One more call adds its tokens.
LEMMA TokensGrow ==
    ASSUME NEW cs \in Seq(CallRecords), NEW c \in CallRecords
    PROVE  Tokens(cs) \in Nat /\ Tokens(Append(cs, c)) = Tokens(cs) + c.tokens
<1> DEFINE n == Len(cs)
           ds == Append(cs, c)
           s == [k \in DOMAIN cs |-> cs[k].tokens]
           t == [k \in DOMAIN ds |-> ds[k].tokens]
<1>1. /\ n \in Nat /\ DOMAIN cs = 1 .. n /\ DOMAIN ds = 1 .. n + 1
      /\ \A k \in 1 .. n : ds[k] = cs[k] /\ cs[k] \in CallRecords
      /\ ds[n + 1] = c
  OBVIOUS
<1>2. \A r \in CallRecords : r.tokens \in Nat
  BY DEF CallRecords
<1> HIDE DEF n, ds
<1>3. /\ \A k \in 1 .. n : k \in 1 .. n + 1 /\ k \in DOMAIN cs /\ k \in DOMAIN ds
      /\ \A k \in 1 .. n + 1 : k \in 1 .. n \/ k = n + 1
      /\ n + 1 \in DOMAIN ds
  BY <1>1
<1>4. /\ \A k \in 1 .. n : s[k] = t[k] /\ t[k] \in Nat
      /\ t[n + 1] = c.tokens /\ c.tokens \in Nat
  BY <1>1, <1>2, <1>3
<1>5. \A k \in 1 .. n + 1 : t[k] \in Nat
  BY <1>3, <1>4
<1>6. Len(s) = n /\ Len(t) = n + 1
  <2>1. s = [k \in 1 .. n |-> cs[k].tokens] /\ t = [k \in 1 .. n + 1 |-> ds[k].tokens]
    BY <1>1
  <2> QED
    BY <1>1, <2>1
<1>7. Tokens(cs) = Total(s) /\ Tokens(ds) = Total(t)
  BY DEF Tokens
<1> HIDE DEF s, t
<1>8. n \in Nat /\ \A k \in 1 .. n : s[k] = t[k]
  BY <1>1, <1>4
<1>9. Total(s) \in Nat /\ Total(t) = Total(s) + t[n + 1]
  BY ONLY <1>5, <1>6, <1>8, TotalGrows
<1> QED
  BY <1>4, <1>7, <1>9 DEF ds

\* One more call is a call of its own tier, and of no other.
LEMMA CallsOfGrow ==
    ASSUME NEW cs \in Seq(CallRecords), NEW c \in CallRecords, NEW t
    PROVE  /\ CallsOf(t, cs) \in Seq(CallRecords)
           /\ CallsOf(t, Append(cs, c)) =
                  IF c.tier = t THEN Append(CallsOf(t, cs), c) ELSE CallsOf(t, cs)
<1> DEFINE n == Len(cs)
           ds == Append(cs, c)
           Old == {k \in DOMAIN cs : cs[k].tier = t}
           New == {k \in DOMAIN ds : ds[k].tier = t}
<1>1. /\ n \in Nat /\ DOMAIN cs = 1 .. n /\ DOMAIN ds = 1 .. n + 1
      /\ \A k \in 1 .. n : ds[k] = cs[k]
      /\ ds[n + 1] = c
  OBVIOUS
<1> HIDE DEF n, ds
<1>2. /\ \A k \in 1 .. n : k \in Old <=> k \in New
      /\ n + 1 \in New <=> c.tier = t
  <2>1. n + 1 \in 1 .. n + 1 /\ \A k \in 1 .. n : k \in 1 .. n + 1
    BY <1>1
  <2> QED
    BY <1>1, <2>1
<1>3. CallsOf(t, cs) = Selected(cs, Old) /\ CallsOf(t, ds) = Selected(ds, New)
  BY DEF CallsOf
<1> HIDE DEF Old, New
<1>4. Selected(ds, New) =
          IF n + 1 \in New THEN Append(Selected(cs, New), c) ELSE Selected(cs, New)
  BY SelectedAppend DEF ds, n
<1>5. Selected(cs, Old) = Selected(cs, New)
  <2>1. Len(cs) \in Nat /\ \A k \in 1 .. Len(cs) : k \in Old <=> k \in New
    BY <1>1, <1>2 DEF n
  <2> QED
    BY ONLY <2>1, SelectedAgrees
<1>6. Selected(cs, Old) \in Seq(CallRecords)
  BY SelectedKeeps
<1> QED
  BY <1>2, <1>3, <1>4, <1>5, <1>6 DEF ds

\* A report has the tokens of each tier, also of one without calls.
LEMMA ReportedTokens ==
    ASSUME NEW cs \in Seq(CallRecords), NEW t
    PROVE  TokensOn(t, cost_report(cs)) = Tokens(CallsOf(t, cs))
<1> DEFINE Used == {cs[k].tier : k \in DOMAIN cs}
<1>1. cost_report(cs).by_tier = [u \in Used |-> TierSpend(CallsOf(u, cs))]
  BY DEF cost_report
<1>2. CASE t \in Used
  BY <1>1, <1>2 DEF TokensOn, TierSpend
<1>3. CASE t \notin Used
  <2>1. \A k \in DOMAIN cs : k \notin {j \in DOMAIN cs : cs[j].tier = t}
    BY <1>3
  <2>2. CallsOf(t, cs) = <<>>
    BY <2>1, SelectedKeeps DEF CallsOf
  <2>3. Tokens(<<>>) = 0
    <3>1. [k \in DOMAIN << >> |-> << >>[k].tokens] = << >>
      OBVIOUS
    <3> QED
      BY <3>1, TotalEmpty DEF Tokens
  <2>4. TokensOn(t, cost_report(cs)) = 0
    BY <1>1, <1>3 DEF TokensOn
  <2> QED
    BY <2>2, <2>3, <2>4
<1> QED
  BY <1>2, <1>3

\* Integers: the sum of four sums.
LEMMA SumOfSums ==
    ASSUME NEW a \in Nat, NEW b \in Nat, NEW c \in Nat, NEW d \in Nat,
           NEW e \in Nat, NEW f \in Nat, NEW g \in Nat, NEW h \in Nat
    PROVE  (a + e) + (b + f) + (c + g) + (d + h) = a + b + c + d + (e + f + g + h)
OBVIOUS

\* A call adds its tokens to what is reported.
LEMMA ReportGrows ==
    ASSUME NEW cs \in Seq(CallRecords), NEW c \in CallRecords
    PROVE  /\ TokensOfAll(cost_report(cs)) \in Nat
           /\ TokensOfAll(cost_report(Append(cs, c))) =
                  TokensOfAll(cost_report(cs)) + c.tokens
<1> DEFINE ds == Append(cs, c)
           Old(t) == Tokens(CallsOf(t, cs))
           New(t) == Tokens(CallsOf(t, ds))
<1>1. /\ ds \in Seq(CallRecords) /\ c.tier \in TierNames /\ c.tokens \in Nat
  BY DEF CallRecords
<1>2. \A t \in TierNames :
          Old(t) \in Nat /\ New(t) = IF c.tier = t THEN Old(t) + c.tokens ELSE Old(t)
  BY CallsOfGrow, TokensGrow
<1> HIDE DEF ds
<1>3. /\ TokensOfAll(cost_report(cs)) =
             Old("cheap") + Old("mid") + Old("expensive") + Old("single")
      /\ TokensOfAll(cost_report(ds)) =
             New("cheap") + New("mid") + New("expensive") + New("single")
  BY <1>1, ReportedTokens DEF TokensOfAll
<1>4. TierNames = {"cheap", "mid", "expensive", "single"}
  BY DEF TierNames, Tiers
<1> HIDE DEF Old, New
<1>5. /\ Old("cheap") \in Nat /\ Old("mid") \in Nat /\ Old("expensive") \in Nat
      /\ Old("single") \in Nat
      /\ c.tier \in {"cheap", "mid", "expensive", "single"}
  BY <1>1, <1>2, <1>4
<1>6. New("cheap") + New("mid") + New("expensive") + New("single") =
          Old("cheap") + Old("mid") + Old("expensive") + Old("single") + c.tokens
  <2> DEFINE Gain(t) == IF c.tier = t THEN c.tokens ELSE 0
  <2>1. \A t \in TierNames : New(t) = Old(t) + Gain(t)
    BY <1>1, <1>2
  <2>2. /\ New("cheap") = Old("cheap") + Gain("cheap")
        /\ New("mid") = Old("mid") + Gain("mid")
        /\ New("expensive") = Old("expensive") + Gain("expensive")
        /\ New("single") = Old("single") + Gain("single")
    <3> HIDE DEF Gain
    <3> QED
      BY <1>4, <2>1
  <2>3. /\ Gain("cheap") + Gain("mid") + Gain("expensive") + Gain("single") = c.tokens
        /\ Gain("cheap") \in Nat /\ Gain("mid") \in Nat /\ Gain("expensive") \in Nat
        /\ Gain("single") \in Nat
    BY <1>1, <1>5
  <2> HIDE DEF Gain
  <2>4. /\ Old("cheap") \in Nat /\ Old("mid") \in Nat /\ Old("expensive") \in Nat
        /\ Old("single") \in Nat
    BY <1>5
  <2>5. (Old("cheap") + Gain("cheap")) + (Old("mid") + Gain("mid"))
        + (Old("expensive") + Gain("expensive")) + (Old("single") + Gain("single")) =
            Old("cheap") + Old("mid") + Old("expensive") + Old("single")
            + (Gain("cheap") + Gain("mid") + Gain("expensive") + Gain("single"))
    BY ONLY <2>3, <2>4, SumOfSums, SMTT(30)
  <2> QED
    BY ONLY <2>2, <2>3, <2>5
<1>7. Old("cheap") + Old("mid") + Old("expensive") + Old("single") \in Nat
  BY <1>5
<1> QED
  BY <1>3, <1>6, <1>7 DEF ds

\* New Guardrails report nothing.
LEMMA EmptyReport == TokensOfAll(cost_report(<<>>)) = 0
<1> DEFINE none == << >>
<1>1. none \in Seq(CallRecords) /\ DOMAIN none = {}
  OBVIOUS
<1> HIDE DEF none
<1>2. \A t : TokensOn(t, cost_report(none)) = 0
  BY <1>1 DEF TokensOn, cost_report
<1> QED
  BY <1>2 DEF TokensOfAll, none

Reported == TokensOfAll(cost_report(guard.calls))

LEMMA ReportStep ==
    ASSUME TypeOK, [Next]_vars, AbsentRunIsBlank, ReportCoversCall
    PROVE  ReportCoversCall'
<1>1. /\ Reported \in Nat /\ run.tokens_used \in Nat /\ run'.tokens_used \in Nat
      /\ segment.tokens \in Nat
  <2>1. \E c : c \in CallRecords
    <3> DEFINE c == [tier |-> "cheap", tokens |-> 0, cost |-> 0]
    <3>1. c \in CallRecords
      BY DEF CallRecords, TierNames, Tiers
    <3> QED
      BY <3>1
  <2>2. guard.calls \in Seq(CallRecords)
    BY DEF TypeOK, GuardState
  <2>3. TypeOK'
    BY NextType
  <2> QED
    BY <2>1, <2>2, <2>3, ReportGrows DEF Reported, TypeOK, RunRow
<1>2. /\ ReportCoversCall <=>
             /\ Reported <= run.tokens_used
             /\ pc # "idle" /\ ~segment.reused =>
                    Reported = run.tokens_used - segment.tokens
      /\ ReportCoversCall' <=>
             /\ Reported' <= run'.tokens_used
             /\ pc' # "idle" /\ ~segment'.reused =>
                    Reported' = run'.tokens_used - segment'.tokens
  BY DEF ReportCoversCall, Reported
<1>3. \A b, r : TokensOfAll(cost_report(NewGuardrails(b, r).calls)) = 0
  BY EmptyReport DEF NewGuardrails
<1>4. CASE StartReconciliation \/ ResumeReconciliation
  <2>1. \E start, g, ps : g \in OfferedGuardrails /\ Reconcile(start, g, ps)
    BY <1>4 DEF StartReconciliation, ResumeReconciliation, OfferedGuardrails
  <2>2. PICK start, g, ps : g \in OfferedGuardrails /\ Reconcile(start, g, ps)
    BY <2>1
  <2>3. /\ guard' = g /\ run'.tokens_used = run.tokens_used
        /\ pc' # "idle" => /\ segment'.tokens = run.tokens_used
                           /\ segment'.reused = (guard.live /\ g = guard)
    BY <2>2 DEF Reconcile, start_run, Raise, DropLocals, EnterLoop, storeVars,
                AbsentRunIsBlank
  <2>4. CASE guard.live /\ g = guard
    BY <1>2, <2>3, <2>4 DEF Reported
  <2>5. CASE ~(guard.live /\ g = guard)
    <3>1. TokensOfAll(cost_report(g.calls)) = 0
      BY <1>3, <2>2, <2>5 DEF OfferedGuardrails
    <3> QED
      BY <1>1, <1>2, <2>3, <3>1 DEF Reported
  <2> QED
    BY <2>4, <2>5
<1>5. CASE ResumeUnknownRun \/ RefuseName \/ RefuseRoute \/ ProviderFails \/ ReturnResult
  <2>1. guard' = guard /\ run' = run /\ pc' = "idle"
    BY <1>5 DEF ResumeUnknownRun, RefuseName, RefuseRoute, ReturnResult,
                ProviderFails, Raise, DropLocals, storeVars
  <2> QED
    BY <1>2, <2>1 DEF Reported
<1>6. CASE Crash
  <2>1. guard'.calls = <<>> /\ run' = run /\ pc' = "idle"
    BY <1>6 DEF Crash, DropLocals, storeVars, NoGuardrails, NewGuardrails
  <2> QED
    BY <1>1, <1>2, <2>1, EmptyReport DEF Reported
<1>7. CASE LoggedRow
  <2>1. /\ run' = run /\ guard' = guard /\ segment' = segment /\ pc # "idle"
    BY <1>7, LoggedRowIsAppended
    DEF LoggedRow, BeginInvoice, LogProposal, LogHandover, LogVerdict, CloseInvoice,
        HandToHuman, EscalateCapped, NextInvoice
  <2> QED
    BY <1>2, <2>1 DEF Reported
<1>8. CASE \/ Analyze \/ Validate \/ ConfirmEscalation \/ ProviderAnswers
           \/ CompleteRun \/ HaltRun
  <2>1. /\ run'.tokens_used = run.tokens_used /\ segment' = segment /\ pc # "idle"
    BY <1>8 DEF Analyze, Validate, ConfirmEscalation, ProviderAnswers, CompleteRun,
                HaltRun, halt_run, complete_run, storeVars, TypeOK, RunRow
  <2>2. guard'.calls = guard.calls
    BY <1>8 DEF Analyze, Validate, ConfirmEscalation, ProviderAnswers, CompleteRun,
                HaltRun, WriteUp, AskModel, CountIteration, TypeOK, GuardState
  <2> QED
    BY <1>2, <2>1, <2>2 DEF Reported
<1>9. CASE RecordUsage
  <2> DEFINE c == CallRecord(llm.route, llm.tokens)
  <2>1. /\ pc = "recording" /\ segment' = segment
        /\ guard'.calls = Append(guard.calls, c)
        /\ run'.tokens_used = run.tokens_used + llm.tokens
    BY <1>9 DEF RecordUsage, record_usage, store_record_usage, TypeOK, GuardState, RunRow
  <2>2. /\ guard.calls \in Seq(CallRecords) /\ c \in CallRecords
    BY <2>1, CallRecordType DEF TypeOK, GuardState
  <2>3. c.tokens = llm.tokens /\ llm.tokens \in Nat
    BY DEF CallRecord, TypeOK
  <2> HIDE DEF c
  <2>4. Reported' = Reported + llm.tokens
    BY <2>1, <2>2, <2>3, ReportGrows DEF Reported
  <2> QED
    BY <1>1, <1>2, <2>1, <2>3, <2>4
<1>10. CASE UNCHANGED vars
  BY <1>2, <1>10 DEF vars, storeVars, Reported
<1> QED
  BY <1>4, <1>5, <1>6, <1>7, <1>8, <1>9, <1>10 DEF Next, ProgramStep, LoggedRow

\* The tiers of a report account for all that its run was charged since the
\* call began, when the call has Guardrails of its own, whatever it was
\* charged before; no report claims more than the row holds (record_usage,
\* cost_report).
THEOREM ReportsCoverTheirCalls == Spec => []ReportCoversCall
<1>1. Init => AbsentRunIsBlank /\ ReportCoversCall
  BY EmptyReport
  DEF Init, StoreInit, NoRun, NoGuardrails, NewGuardrails, RunExists, AbsentRunIsBlank,
      ReportCoversCall
<1>2. /\ TypeOK /\ AbsentRunIsBlank /\ ReportCoversCall /\ [Next]_vars
      => AbsentRunIsBlank' /\ ReportCoversCall'
  BY AbsentStep, ReportStep
<1> QED
  BY <1>1, <1>2, TypeCorrect, PTL DEF Spec

-----------------------------------------------------------------------------
(* One call.                                                               *)

\* Between calls there are no lists; during one the index is past the start.
CallExtent ==
    /\ pc = "idle" => closed = <<>> /\ human_review = <<>>
    /\ pc # "idle" => segment.start <= idx

\* Entering the loop, or failing to.
LEMMA EntryStep ==
    ASSUME TypeOK, StartReconciliation \/ ResumeReconciliation, CallExtent
    PROVE  /\ closed' = <<>> /\ human_review' = <<>>
           /\ pc' # "idle" => segment'.start = idx' /\ idx' \in 0 .. Len(Invoices)
<1>1. ASSUME NEW start \in 0 .. Len(Invoices), NEW g, NEW ps, Reconcile(start, g, ps)
      PROVE  /\ closed' = <<>> /\ human_review' = <<>>
             /\ pc' # "idle" => segment'.start = idx' /\ idx' \in 0 .. Len(Invoices)
  <2>1. pc = "idle" /\ closed = <<>> /\ human_review = <<>>
    BY <1>1 DEF Reconcile, CallExtent
  <2>2. CASE EnterLoop(start, g, ps)
    BY <2>1, <2>2 DEF EnterLoop
  <2>3. CASE Raise("duplicate_run")
    BY <2>3 DEF Raise, DropLocals
  <2> QED
    BY <1>1, <2>2, <2>3 DEF Reconcile
<1>2. 0 \in 0 .. Len(Invoices) /\ run.resume_index \in 0 .. Len(Invoices)
  BY BatchLength DEF TypeOK, RunRow
<1> QED
  BY <1>1, <1>2 DEF StartReconciliation, ResumeReconciliation

\* Every step but an entry and the end of an invoice keeps the two lists, the
\* index and the start, or ends the call.
LEMMA ListsKept ==
    ASSUME [Next]_vars, ~(StartReconciliation \/ ResumeReconciliation),
           ~(CloseInvoice \/ HandToHuman \/ EscalateCapped)
    PROVE  \/ /\ closed' = closed /\ human_review' = human_review
              /\ idx' = idx /\ segment' = segment
              /\ pc' = "idle" <=> pc = "idle"
           \/ /\ pc' = "idle" /\ closed' = <<>> /\ human_review' = <<>>
<1>1. CASE BeginInvoice \/ LogProposal \/ LogHandover \/ LogVerdict
  BY <1>1 DEF BeginInvoice, LogProposal, LogHandover, LogVerdict, localVars
<1>2. CASE \/ RefuseName \/ RefuseRoute \/ ResumeUnknownRun \/ ProviderFails
           \/ Crash \/ ReturnResult
  BY <1>2 DEF RefuseName, RefuseRoute, ResumeUnknownRun, ProviderFails,
              Crash, ReturnResult, Raise, DropLocals
<1>3. CASE Analyze \/ Validate \/ ConfirmEscalation
  BY <1>3 DEF Analyze, Validate, ConfirmEscalation, WriteUp, AskModel
<1>4. CASE CompleteRun \/ HaltRun
  BY <1>4 DEF CompleteRun, HaltRun, localVars
<1>5. CASE ProviderAnswers \/ RecordUsage
  BY <1>5 DEF ProviderAnswers, RecordUsage, ReadAnswer
<1>6. CASE UNCHANGED vars
  BY <1>6 DEF vars, localVars
<1> QED
  BY <1>1, <1>2, <1>3, <1>4, <1>5, <1>6 DEF Next, ProgramStep


LEMMA ExtentStep ==
    ASSUME TypeOK, [Next]_vars, CallExtent
    PROVE  CallExtent'
<1>1. CASE StartReconciliation \/ ResumeReconciliation
  BY <1>1, EntryStep, BatchLength DEF CallExtent
<1>2. CASE CloseInvoice \/ HandToHuman \/ EscalateCapped
  <2>1. pc # "idle" /\ pc' = "loop" /\ idx' = idx + 1 /\ segment' = segment
    BY <1>2 DEF CloseInvoice, HandToHuman, EscalateCapped, NextInvoice
  <2>2. idx \in Nat /\ segment.start \in Nat
    BY BatchLength DEF TypeOK
  <2> QED
    BY <2>1, <2>2 DEF CallExtent
<1>3. CASE /\ ~(StartReconciliation \/ ResumeReconciliation)
           /\ ~(CloseInvoice \/ HandToHuman \/ EscalateCapped)
  BY <1>3, ListsKept DEF CallExtent
<1> QED
  BY <1>1, <1>2, <1>3

\* What an appended list holds.
LEMMA AppendedRange ==
    ASSUME NEW S, NEW list \in Seq(S), NEW e \in S
    PROVE  /\ Len(Append(list, e)) = Len(list) + 1 /\ Len(list) \in Nat
           /\ {Append(list, e)[k] : k \in DOMAIN Append(list, e)}
                  = {list[k] : k \in DOMAIN list} \cup {e}
<1> DEFINE after == Append(list, e)
<1>1. /\ Len(after) = Len(list) + 1 /\ Len(list) \in Nat
      /\ DOMAIN after = DOMAIN list \cup {Len(list) + 1}
      /\ \A k \in DOMAIN list : after[k] = list[k]
      /\ after[Len(list) + 1] = e
  OBVIOUS
<1> HIDE DEF after
<1>2. {after[k] : k \in DOMAIN after} = {list[k] : k \in DOMAIN list} \cup {e}
  BY <1>1
<1> QED
  BY <1>1, <1>2 DEF after

ReviewedIds == {human_review[k].invoice_id : k \in DOMAIN human_review}

LEMMA AppendedReview ==
    ASSUME TypeOK, NEW item \in HumanReviewItem,
           human_review' = Append(human_review, item)
    PROVE  /\ Len(human_review') = Len(human_review) + 1 /\ Len(human_review) \in Nat
           /\ ReviewedIds' = ReviewedIds \cup {item.invoice_id}
<1>1. human_review \in Seq(HumanReviewItem)
  BY DEF TypeOK
<1>2. /\ Len(human_review') = Len(human_review) + 1 /\ Len(human_review) \in Nat
      /\ DOMAIN human_review' = DOMAIN human_review \cup {Len(human_review) + 1}
      /\ \A k \in DOMAIN human_review : human_review'[k] = human_review[k]
      /\ human_review'[Len(human_review) + 1] = item
  BY <1>1
<1> QED
  BY <1>2 DEF ReviewedIds

\* The end of an invoice adds it to exactly one of the two lists.
LEMMA InvoiceEnds ==
    ASSUME TypeOK, CloseInvoice \/ HandToHuman \/ EscalateCapped
    PROVE  /\ {closed'[k] : k \in DOMAIN closed'} \cup ReviewedIds'
                  = {closed[k] : k \in DOMAIN closed} \cup ReviewedIds
                        \cup {Current.invoice_id}
           /\ Len(closed') + Len(human_review') = Len(closed) + Len(human_review) + 1
           /\ Len(closed) \in Nat /\ Len(human_review) \in Nat
<1>1. idx \in Positions /\ Current.invoice_id \in TaskIds
  BY TaskIdType DEF TypeOK, CloseInvoice, HandToHuman, EscalateCapped, Current
<1>2. Len(closed) \in Nat /\ Len(human_review) \in Nat /\ closed \in Seq(TaskIds)
  BY DEF TypeOK
<1>3. CASE CloseInvoice
  <2>1. closed' = Append(closed, Current.invoice_id) /\ human_review' = human_review
    BY <1>3 DEF CloseInvoice
  <2>2. /\ Len(closed') = Len(closed) + 1
        /\ {closed'[k] : k \in DOMAIN closed'}
               = {closed[k] : k \in DOMAIN closed} \cup {Current.invoice_id}
    BY <1>1, <1>2, <2>1, AppendedRange
  <2>3. ReviewedIds' = ReviewedIds
    BY <2>1 DEF ReviewedIds
  <2> QED
    BY <1>2, <2>1, <2>2, <2>3
<1>4. CASE HandToHuman \/ EscalateCapped
  <2>1. PICK item \in HumanReviewItem :
            /\ human_review' = Append(human_review, item) /\ closed' = closed
            /\ item.invoice_id = Current.invoice_id
    <3>1. CASE HandToHuman
      <4>1. ReviewItem(proposal, decision) \in HumanReviewItem
        BY <1>1, ReviewItemType DEF TypeOK
      <4> QED
        BY <3>1, <4>1 DEF HandToHuman, ReviewItem
    <3>2. CASE EscalateCapped
      <4>1. CappedDecision \in Decisions
        BY DEF CappedDecision, Decision, Decisions, DiscrepancyKind
      <4>2. CapFallback \in HumanReviewItem
        BY <1>1, <4>1, ProposalTypes, ReviewItemType DEF CapFallback
      <4> QED
        BY <3>2, <4>2 DEF EscalateCapped, CapFallback, ReviewItem
    <3> QED
      BY <1>4, <3>1, <3>2
  <2>2. /\ Len(human_review') = Len(human_review) + 1
        /\ ReviewedIds' = ReviewedIds \cup {Current.invoice_id}
    BY <2>1, AppendedReview
  <2> QED
    BY <1>2, <2>1, <2>2
<1> QED
  BY <1>2, <1>3, <1>4

\* No index.
LEMMA IntervalEmpty ==
    ASSUME NEW n \in Nat, NEW m, m = n
    PROVE  m .. n - 1 = {} /\ n - m = 0
OBVIOUS

\* One more index.
LEMMA IntervalGrows ==
    ASSUME NEW a \in Nat, NEW b \in Nat, a <= b
    PROVE  a .. (b + 1) - 1 = (a .. b - 1) \cup {b}
OBVIOUS

\* One more invoice.
LEMMA IdsGrow ==
    ASSUME NEW S, NEW i
    PROVE  Ids(S \cup {i}) = Ids(S) \cup {Invoice(i).invoice_id}
BY DEF Ids

LEMMA AccountStep ==
    ASSUME TypeOK, [Next]_vars, CallExtent, CallAccountsForItsInvoices
    PROVE  CallAccountsForItsInvoices'
<1>1. CASE StartReconciliation \/ ResumeReconciliation
  <2> SUFFICES ASSUME pc' # "idle" PROVE CallAccountsForItsInvoices'
    BY DEF CallAccountsForItsInvoices
  <2>1. /\ closed' = <<>> /\ human_review' = <<>>
        /\ segment'.start = idx' /\ idx' \in Nat
    BY <1>1, EntryStep, BatchLength
  <2>2. segment'.start .. idx' - 1 = {} /\ idx' - segment'.start = 0
    BY ONLY <2>1, IntervalEmpty
  <2>3. Ids({}) = {}
    BY DEF Ids
  <2>4. /\ {closed'[k] : k \in DOMAIN closed'} = {}
        /\ {human_review'[k].invoice_id : k \in DOMAIN human_review'} = {}
        /\ Len(closed') = 0 /\ Len(human_review') = 0
    BY <2>1
  <2>5. Ids(segment'.start .. idx' - 1) = {}
    BY <2>2, <2>3
  <2>6. Len(closed') + Len(human_review') = idx' - segment'.start
    BY ONLY <2>2, <2>4
  <2> QED
    BY <2>4, <2>5, <2>6 DEF CallAccountsForItsInvoices
<1>2. CASE CloseInvoice \/ HandToHuman \/ EscalateCapped
  <2>1. pc # "idle" /\ idx' = idx + 1 /\ segment' = segment
    BY <1>2 DEF CloseInvoice, HandToHuman, EscalateCapped, NextInvoice
  <2>2. idx \in Nat /\ segment.start \in Nat /\ segment.start <= idx
    BY <2>1, BatchLength DEF TypeOK, CallExtent
  <2>3. segment'.start .. idx' - 1 = (segment.start .. idx - 1) \cup {idx}
    BY <2>1, <2>2, IntervalGrows
  <2>4. Ids((segment.start .. idx - 1) \cup {idx})
            = Ids(segment.start .. idx - 1) \cup {Current.invoice_id}
    BY IdsGrow DEF Current
  <2>5. /\ Ids(segment.start .. idx - 1) = {closed[k] : k \in DOMAIN closed} \cup ReviewedIds
        /\ Len(closed) + Len(human_review) = idx - segment.start
    BY <2>1 DEF CallAccountsForItsInvoices, ReviewedIds
  <2>6. Ids(segment'.start .. idx' - 1)
            = {closed'[k] : k \in DOMAIN closed'} \cup ReviewedIds'
    BY <1>2, <2>3, <2>4, <2>5, InvoiceEnds
  <2>7. Len(closed') + Len(human_review') = idx' - segment'.start
    BY <1>2, <2>1, <2>2, <2>5, InvoiceEnds
  <2> QED
    BY <2>6, <2>7 DEF CallAccountsForItsInvoices, ReviewedIds
<1>3. CASE /\ ~(StartReconciliation \/ ResumeReconciliation)
           /\ ~(CloseInvoice \/ HandToHuman \/ EscalateCapped)
  BY <1>3, ListsKept DEF CallAccountsForItsInvoices
<1> QED
  BY <1>1, <1>2, <1>3

\* At every moment, the two lists of a call hold exactly the invoices it has
\* passed, one entry each, whatever happened to each of them on the way
\* (ReconciliationRunResult).
THEOREM CallsAccountForInvoices == Spec => []CallAccountsForItsInvoices
<1>1. Init => CallExtent /\ CallAccountsForItsInvoices
  BY DEF Init, CallExtent, CallAccountsForItsInvoices
<1>2. /\ TypeOK /\ CallExtent /\ CallAccountsForItsInvoices /\ [Next]_vars
      => CallExtent' /\ CallAccountsForItsInvoices'
  BY ExtentStep, AccountStep
<1> QED
  BY <1>1, <1>2, TypeCorrect, PTL DEF Spec

-----------------------------------------------------------------------------
(* Every call comes to an end.                                             *)

\* A stage that is one of the current invoice.
LEMMA StageOfInvoice ==
    ASSUME TypeOK, TypeOK', idx' = idx, NEW m \in Nat, NEW n \in Nat, m < n,
           StagesHere' = m, StagesHere = n
    PROVE  StagesLeft' < StagesLeft
<1>1. PICK b : b = Len(Invoices)
  OBVIOUS
<1>2. b \in Nat /\ idx \in Nat /\ idx <= b
  BY <1>1, BatchLength DEF TypeOK
<1>3. StagesLeft = 20 * (b - idx) + n /\ StagesLeft' = 20 * (b - idx) + m
  BY <1>1 DEF StagesLeft, StagesOfInvoice
<1> QED
  BY <1>2, <1>3

\* The loop goes on to the next invoice.
LEMMA StageOfNext ==
    ASSUME TypeOK, NextInvoice, NEW n \in Nat, 3 <= n, StagesHere = n
    PROVE  StagesLeft' < StagesLeft
<1>1. PICK b : b = Len(Invoices)
  OBVIOUS
<1>2. b \in Nat /\ idx \in Nat /\ idx <= b
  BY <1>1, BatchLength DEF TypeOK
<1>3. pc' = "loop" /\ idx' = idx + 1
  BY DEF NextInvoice
<1>4. StagesHere' = 16
  BY <1>3 DEF StagesHere, StagesAhead
<1>5. StagesLeft = 20 * (b - idx) + n /\ StagesLeft' = 20 * (b - (idx + 1)) + 16
  BY <1>1, <1>3, <1>4 DEF StagesLeft, StagesOfInvoice
<1> QED
  BY <1>2, <1>5

\* The rows that are logged on the way to a verdict.
LEMMA LoggedShortens ==
    ASSUME TypeOK, TypeOK',
           BeginInvoice \/ LogProposal \/ LogHandover \/ LogVerdict
    PROVE  StagesLeft' < StagesLeft
<1>1. idx' = idx
  BY DEF BeginInvoice, LogProposal, LogHandover, LogVerdict
<1>2. \/ pc = "loop" /\ pc' = "analyze"
      \/ pc = "proposed" /\ pc' = "handover"
      \/ pc = "handover" /\ pc' = "validate"
      \/ pc = "judged" /\ pc' \in {"approved", "escalated"}
  BY DEF BeginInvoice, LogProposal, LogHandover, LogVerdict
<1>3. \/ StagesHere = 16 /\ StagesHere' = 15
      \/ StagesHere = 12 /\ StagesHere' = 11
      \/ StagesHere = 11 /\ StagesHere' = 10
      \/ StagesHere = 7 /\ StagesHere' = 6
  BY <1>2 DEF StagesHere, StagesAhead
<1> QED
  BY <1>1, <1>3, StageOfInvoice

\* What becomes of an invoice for which a model is asked.
LEMMA AskedStage ==
    ASSUME NEW route \in Routes, AskModel(route)
    PROVE  \/ StagesHere' = 3 \/ StagesHere' = 1
           \/ StagesHere' = StagesAsking[route] + 1
<1>1. \/ pc' = "capped" \/ pc' = "misrouted"
      \/ pc' = "calling" /\ llm'.route = route
  BY DEF AskModel, NoCall
<1> QED
  BY <1>1 DEF StagesHere, StagesAhead

\* The steps of the agents.
LEMMA AgentsShorten ==
    ASSUME TypeOK, TypeOK', Analyze \/ Validate \/ ConfirmEscalation
    PROVE  StagesLeft' < StagesLeft
<1>0. idx' = idx
  BY DEF Analyze, Validate, ConfirmEscalation
<1>1. CASE Analyze
  <2>1. StagesHere = 15
    BY <1>1 DEF Analyze, StagesHere, StagesAhead
  <2>2. pc' = "proposed" \/ AskModel("ambiguous_discrepancy")
    BY <1>1 DEF Analyze
  <2>3. \/ StagesHere' = 12 \/ StagesHere' = 3 \/ StagesHere' = 1 \/ StagesHere' = 14
    <3>1. CASE pc' = "proposed"
      BY <3>1 DEF StagesHere, StagesAhead
    <3>2. CASE AskModel("ambiguous_discrepancy")
      BY <3>2, AskedStage DEF Routes, StagesAsking
    <3> QED
      BY <2>2, <3>1, <3>2
  <2> QED
    BY <1>0, <2>1, <2>3, StageOfInvoice
<1>2. CASE Validate
  <2>1. StagesHere = 10
    BY <1>2 DEF Validate, StagesHere, StagesAhead
  <2>2. pc' = "judged" \/ AskModel("disagreement_writeup")
    BY <1>2 DEF Validate, WriteUp
  <2>3. \/ StagesHere' = 7 \/ StagesHere' = 3 \/ StagesHere' = 1 \/ StagesHere' = 9
    <3>1. CASE pc' = "judged"
      BY <3>1 DEF StagesHere, StagesAhead
    <3>2. CASE AskModel("disagreement_writeup")
      BY <3>2, AskedStage DEF Routes, StagesAsking
    <3> QED
      BY <2>2, <3>1, <3>2
  <2> QED
    BY <1>0, <2>1, <2>3, StageOfInvoice
<1>3. CASE ConfirmEscalation
  <2>1. StagesHere = 6
    BY <1>3 DEF ConfirmEscalation, StagesHere, StagesAhead
  <2>2. pc' = "confirmed" \/ AskModel("disagreement_writeup_escalated")
    BY <1>3 DEF ConfirmEscalation, WriteUp
  <2>3. \/ StagesHere' = 3 \/ StagesHere' = 1 \/ StagesHere' = 5
    <3>1. CASE pc' = "confirmed"
      BY <3>1 DEF StagesHere, StagesAhead
    <3>2. CASE AskModel("disagreement_writeup_escalated")
      BY <3>2, AskedStage DEF Routes, StagesAsking
    <3> QED
      BY <2>2, <3>1, <3>2
  <2> QED
    BY <1>0, <2>1, <2>3, StageOfInvoice
<1> QED
  BY <1>1, <1>2, <1>3

\* The steps of a provider's answer.
LEMMA AnswersShorten ==
    ASSUME TypeOK, TypeOK', ProviderAnswers \/ RecordUsage
    PROVE  StagesLeft' < StagesLeft
<1>0. idx' = idx /\ llm.route \in Routes
  BY DEF ProviderAnswers, RecordUsage, TypeOK
<1>1. CASE ProviderAnswers
  <2>1. /\ pc = "calling" /\ pc' = "recording"
        /\ \E t \in CallTokens : llm' = [llm EXCEPT !.tokens = t]
    BY <1>1 DEF ProviderAnswers
  <2>2. llm'.route = llm.route
    BY <2>1 DEF TypeOK
  <2>3. \/ StagesHere = 14 /\ StagesHere' = 13
        \/ StagesHere = 9 /\ StagesHere' = 8
        \/ StagesHere = 5 /\ StagesHere' = 4
    BY <1>0, <2>1, <2>2 DEF StagesHere, StagesAsking, Routes
  <2> QED
    BY <1>0, <2>3, StageOfInvoice
<1>2. CASE RecordUsage
  <2>1. pc = "recording" /\ (ReadAnswer \/ pc' = "halting")
    BY <1>2 DEF RecordUsage
  <2>2. \/ StagesHere = 13 /\ llm.route = "ambiguous_discrepancy"
        \/ StagesHere = 8 /\ llm.route = "disagreement_writeup"
        \/ StagesHere = 4 /\ llm.route = "disagreement_writeup_escalated"
    BY <1>0, <2>1 DEF StagesHere, StagesAsking, Routes
  <2>3. CASE pc' = "halting"
    <3>1. StagesHere' = 2
      BY <2>3 DEF StagesHere, StagesAhead
    <3> QED
      BY <1>0, <2>2, <3>1, StageOfInvoice
  <2>4. CASE ReadAnswer
    <3>1. \/ llm.route = "ambiguous_discrepancy" /\ pc' = "proposed"
          \/ llm.route = "disagreement_writeup" /\ pc' = "judged"
          \/ llm.route = "disagreement_writeup_escalated" /\ pc' = "confirmed"
      BY <2>4 DEF ReadAnswer
    <3>2. \/ StagesHere = 13 /\ StagesHere' = 12
          \/ StagesHere = 8 /\ StagesHere' = 7
          \/ StagesHere = 4 /\ StagesHere' = 3
      BY <2>2, <3>1 DEF StagesHere, StagesAhead
    <3> QED
      BY <1>0, <3>2, StageOfInvoice
  <2> QED
    BY <2>1, <2>3, <2>4
<1> QED
  BY <1>1, <1>2

\* The steps that end an invoice or the loop.
LEMMA EndsShorten ==
    ASSUME TypeOK, TypeOK',
           CloseInvoice \/ HandToHuman \/ EscalateCapped \/ CompleteRun \/ HaltRun
    PROVE  StagesLeft' < StagesLeft
<1>1. CASE CloseInvoice \/ HandToHuman \/ EscalateCapped
  <2>1. NextInvoice /\ pc \in {"approved", "confirmed", "capped"}
    BY <1>1 DEF CloseInvoice, HandToHuman, EscalateCapped
  <2>2. StagesHere = 6 \/ StagesHere = 3
    BY <2>1 DEF StagesHere, StagesAhead
  <2> QED
    BY <2>1, <2>2, StageOfNext
<1>2. CASE CompleteRun \/ HaltRun
  <2>1. pc \in {"loop", "halting"} /\ pc' = "returning" /\ idx' = idx
    BY <1>2 DEF CompleteRun, HaltRun
  <2>2. (StagesHere = 16 \/ StagesHere = 2) /\ StagesHere' = 1
    BY <2>1 DEF StagesHere, StagesAhead
  <2> QED
    BY <2>1, <2>2, StageOfInvoice
<1> QED
  BY <1>1, <1>2

\* Whatever the batch, the routing tables, the providers and the faults, a
\* call that has not ended is nearer to its end after each of its steps; what
\* CallsEnd adds is that the steps are taken (reconcile_invoices).
THEOREM CallsAreFinite == Spec => CallsGetShorter
<1>1. TypeOK /\ [Next]_vars
      => [pc # "idle" => pc' = "idle" \/ StagesLeft' < StagesLeft]_vars
  <2> SUFFICES ASSUME TypeOK, Next, pc # "idle"
               PROVE  pc' = "idle" \/ StagesLeft' < StagesLeft
    OBVIOUS
  <2>1. TypeOK'
    BY NextType
  <2>2. CASE BeginInvoice \/ LogProposal \/ LogHandover \/ LogVerdict
    BY <2>1, <2>2, LoggedShortens
  <2>3. CASE Analyze \/ Validate \/ ConfirmEscalation
    BY <2>1, <2>3, AgentsShorten
  <2>4. CASE ProviderAnswers \/ RecordUsage
    BY <2>1, <2>4, AnswersShorten
  <2>5. CASE CloseInvoice \/ HandToHuman \/ EscalateCapped \/ CompleteRun \/ HaltRun
    BY <2>1, <2>5, EndsShorten
  <2>6. CASE RefuseName \/ RefuseRoute \/ ReturnResult \/ ProviderFails \/ Crash
    BY <2>6 DEF RefuseName, RefuseRoute, ReturnResult, ProviderFails, Crash, Raise,
       DropLocals
  <2>7. CASE StartReconciliation \/ ResumeReconciliation \/ ResumeUnknownRun
    BY <2>7 DEF StartReconciliation, ResumeReconciliation, ResumeUnknownRun, Reconcile
  <2> QED
    BY <2>2, <2>3, <2>4, <2>5, <2>6, <2>7 DEF Next, ProgramStep
<1> QED
  BY <1>1, TypeCorrect, PTL DEF Spec, CallsGetShorter

-----------------------------------------------------------------------------
(* The results of a run.                                                   *)

\* What was delivered is behind position x, or a result said "completed" no
\* earlier than that.
DeliveredUpTo(x) ==
    \A m \in DOMAIN results :
        \/ results[m].resume_index <= x
        \/ \E k \in m .. Len(results) : results[k].status = "completed"

\* The row remembers what the caller has received: the next call starts
\* behind it.
DeliveryTrail ==
    /\ ~RunExists => results = <<>>
    /\ DeliveredUpTo(run.resume_index)
    /\ pc # "idle" => DeliveredUpTo(segment.start)
    /\ pc = "returning" /\ idx # Len(Invoices) => run.resume_index = idx

\* Only ReturnResult adds a result, and only an entry sets the start of a call.
LEMMA ResultsKept ==
    ASSUME [Next]_vars, ~ReturnResult
    PROVE  /\ results' = results
           /\ segment' = segment \/ StartReconciliation \/ ResumeReconciliation
<1>1. CASE StartReconciliation \/ ResumeReconciliation
  BY <1>1 DEF StartReconciliation, ResumeReconciliation, Reconcile, EnterLoop, Raise
<1>2. CASE BeginInvoice \/ LogProposal \/ LogHandover \/ LogVerdict \/ CompleteRun \/ HaltRun
  BY <1>2 DEF BeginInvoice, LogProposal, LogHandover, LogVerdict, CompleteRun, HaltRun,
              callerVars
<1>3. CASE RefuseName \/ RefuseRoute \/ ResumeUnknownRun \/ ProviderFails \/ Crash
  BY <1>3 DEF RefuseName, RefuseRoute, ResumeUnknownRun, ProviderFails, Crash, Raise
<1>4. CASE Analyze \/ Validate \/ ConfirmEscalation \/ ProviderAnswers \/ RecordUsage
  BY <1>4 DEF Analyze, Validate, ConfirmEscalation, ProviderAnswers, RecordUsage,
              callerVars
<1>5. CASE CloseInvoice \/ HandToHuman \/ EscalateCapped
  BY <1>5 DEF CloseInvoice, HandToHuman, EscalateCapped, NextInvoice, callerVars
<1>6. CASE UNCHANGED vars
  BY <1>6 DEF vars, callerVars
<1> QED
  BY <1>1, <1>2, <1>3, <1>4, <1>5, <1>6 DEF Next, ProgramStep

\* A call begins where the last halt was, or before anything was delivered.
LEMMA EntryDelivery ==
    ASSUME TypeOK, StartReconciliation \/ ResumeReconciliation,
           AbsentRunIsBlank, DeliveryTrail
    PROVE  DeliveryTrail'
<1>1. results' = results
  BY DEF StartReconciliation, ResumeReconciliation, Reconcile, EnterLoop, Raise
<1>2. run' = run \/ (~RunExists /\ run'.resume_index = 0)
  BY DEF StartReconciliation, ResumeReconciliation, Reconcile, start_run, storeVars
<1>3. pc' \in {"idle", "loop"}
  BY DEF StartReconciliation, ResumeReconciliation, Reconcile, EnterLoop, Raise, DropLocals
<1>4. ASSUME pc' # "idle"
      PROVE  results = <<>> \/ segment'.start = run.resume_index
  <2>1. ASSUME NEW start \in {0, run.resume_index}, NEW g, NEW ps, Reconcile(start, g, ps)
        PROVE  results = <<>> \/ segment'.start = run.resume_index
    <3>1. EnterLoop(start, g, ps) /\ (start_run(g.token_budget) \/ start > 0)
      BY <1>4, <2>1 DEF Reconcile, Raise, DropLocals
    <3>2. CASE start_run(g.token_budget)
      BY <3>2 DEF start_run, DeliveryTrail
    <3>3. CASE start > 0
      BY <3>1, <3>3, <2>1 DEF EnterLoop
    <3> QED
      BY <3>1, <3>2, <3>3
  <2> QED
    BY <2>1 DEF StartReconciliation, ResumeReconciliation
<1>5. (~RunExists)' => results' = <<>>
  BY <1>1 DEF StartReconciliation, ResumeReconciliation, Reconcile, start_run,
               storeVars, RunExists, DeliveryTrail
<1>6. DeliveredUpTo(run.resume_index)'
  <2>1. CASE run' = run
    BY <1>1, <2>1 DEF DeliveryTrail, DeliveredUpTo
  <2>2. CASE results = <<>>
    BY <1>1, <2>2 DEF DeliveredUpTo
  <2> QED
    BY <1>2, <2>1, <2>2 DEF DeliveryTrail
<1>7. pc' # "idle" => DeliveredUpTo(segment.start)'
  <2>1. CASE results = <<>>
    BY <1>1, <2>1 DEF DeliveredUpTo
  <2>2. CASE segment'.start = run.resume_index
    BY <1>1, <2>2 DEF DeliveryTrail, DeliveredUpTo
  <2> QED
    BY <1>4, <2>1, <2>2
<1> QED
  BY <1>3, <1>5, <1>6, <1>7 DEF DeliveryTrail

\* The halt writes the index that the result will carry.
LEMMA DeliveryKept ==
    ASSUME TypeOK, [Next]_vars, AbsentRunIsBlank, CallIsPastCheckpoint, DeliveryTrail,
           ~ReturnResult, ~(StartReconciliation \/ ResumeReconciliation)
    PROVE  DeliveryTrail'
<1>1. results' = results /\ segment' = segment
  BY ResultsKept
<1>2. /\ run.resume_index \in Int /\ run'.resume_index \in Int
      /\ run'.resume_index >= run.resume_index
      /\ \A m \in DOMAIN results : results[m].resume_index \in Int
  <2>1. TypeOK'
    BY NextType
  <2>2. run.resume_index \in Int /\ run'.resume_index \in Int
    BY <2>1 DEF TypeOK, RunRow
  <2>3. run'.resume_index >= run.resume_index
    BY MonotoneStep
  <2>4. ASSUME NEW m \in DOMAIN results PROVE results[m].resume_index \in Int
    <3>1. results \in Seq(ReconciliationRunResult)
      BY DEF TypeOK
    <3>2. results[m] \in ReconciliationRunResult
      BY <3>1
    <3> QED
      BY <3>2 DEF ReconciliationRunResult
  <2> QED
    BY <2>2, <2>3, <2>4
<1>3. (~RunExists)' => ~RunExists
  <2>1. CASE HaltRun \/ CompleteRun
    BY <2>1 DEF HaltRun, halt_run, CompleteRun, complete_run, TypeOK, RunRow, RunExists
  <2>2. CASE ~(HaltRun \/ CompleteRun)
    BY <2>2, RowKept DEF RunExists
  <2> QED
    BY <2>1, <2>2
<1>4. DeliveredUpTo(run.resume_index)'
  <2> SUFFICES ASSUME NEW m \in DOMAIN results
               PROVE  \/ results[m].resume_index <= run'.resume_index
                      \/ \E k \in m .. Len(results) : results[k].status = "completed"
    BY <1>1 DEF DeliveredUpTo
  <2>1. CASE results[m].resume_index <= run.resume_index
    BY <1>2, <2>1
  <2>2. CASE \E k \in m .. Len(results) : results[k].status = "completed"
    BY <2>2
  <2> QED
    BY <2>1, <2>2 DEF DeliveryTrail, DeliveredUpTo
<1>5. pc' # "idle" => pc # "idle"
  <2>1. CASE CloseInvoice \/ HandToHuman \/ EscalateCapped
    BY <2>1 DEF CloseInvoice, HandToHuman, EscalateCapped
  <2>2. CASE ~(CloseInvoice \/ HandToHuman \/ EscalateCapped)
    BY <2>2, IndexKept
  <2> QED
    BY <2>1, <2>2
<1>6. pc' # "idle" => DeliveredUpTo(segment.start)'
  BY <1>1, <1>5 DEF DeliveryTrail, DeliveredUpTo
<1>7. ASSUME pc' = "returning", idx' # Len(Invoices) PROVE run'.resume_index = idx'
  <2>1. CASE HaltRun
    BY <2>1 DEF HaltRun, halt_run, TypeOK, RunRow
  <2>2. CASE CompleteRun
    BY <1>7, <2>2 DEF CompleteRun
  <2>3. CASE UNCHANGED vars
    BY <1>7, <2>3 DEF vars, storeVars, DeliveryTrail
  <2>4. CASE Next /\ ~HaltRun /\ ~CompleteRun
    <3>1. CASE BeginInvoice \/ LogProposal \/ LogHandover \/ LogVerdict
      BY <1>7, <3>1 DEF BeginInvoice, LogProposal, LogHandover, LogVerdict
    <3>2. CASE RefuseName \/ RefuseRoute \/ ResumeUnknownRun \/ ProviderFails \/ Crash
      BY <1>7, <3>2 DEF RefuseName, RefuseRoute, ResumeUnknownRun, ProviderFails, Crash,
                        Raise, DropLocals
    <3>3. CASE Analyze \/ Validate \/ ConfirmEscalation
      BY <1>7, <3>3 DEF Analyze, Validate, ConfirmEscalation, WriteUp, AskModel
    <3>4. CASE ProviderAnswers \/ RecordUsage
      BY <1>7, <3>4 DEF ProviderAnswers, RecordUsage, ReadAnswer
    <3>5. CASE CloseInvoice \/ HandToHuman \/ EscalateCapped
      BY <1>7, <3>5 DEF CloseInvoice, HandToHuman, EscalateCapped, NextInvoice
    <3> QED
      BY <2>4, <3>1, <3>2, <3>3, <3>4, <3>5 DEF Next, ProgramStep
  <2> QED
    BY <2>1, <2>2, <2>3, <2>4
<1> QED
  BY <1>1, <1>3, <1>4, <1>6, <1>7 DEF DeliveryTrail

\* The result that is returned continues the earlier ones.
LEMMA ReturnDelivers ==
    ASSUME TypeOK, ReturnResult, AbsentRunIsBlank, DeliveryTrail, NoInvoiceDeliveredTwice
    PROVE  DeliveryTrail' /\ NoInvoiceDeliveredTwice'
<1> DEFINE n == Len(results) + 1
<1>1. /\ results' = Append(results, RunResult) /\ pc = "returning" /\ pc' = "idle"
      /\ run' = run
  BY DEF ReturnResult, DropLocals, storeVars
<1>2. /\ RunResult.start = segment.start /\ RunResult.resume_index = idx
      /\ idx = Len(Invoices) => RunResult.status = "completed"
  BY DEF RunResult
<1>3. /\ DOMAIN results = 1 .. Len(results) /\ Len(results) \in Nat
      /\ DOMAIN results' = 1 .. n /\ Len(results') = n
      /\ \A m \in DOMAIN results : results'[m] = results[m]
      /\ results'[n] = RunResult
  <2>1. results \in Seq(ReconciliationRunResult)
    BY DEF TypeOK
  <2> HIDE DEF n
  <2>2. /\ Len(Append(results, RunResult)) = Len(results) + 1
        /\ \A m \in 1 .. Len(results) : Append(results, RunResult)[m] = results[m]
        /\ Append(results, RunResult)[Len(results) + 1] = RunResult
        /\ DOMAIN Append(results, RunResult) = 1 .. Len(results) + 1
    BY <2>1
  <2> QED
    BY <1>1, <2>1, <2>2 DEF n
<1>4. RunExists
  BY <1>1 DEF AbsentRunIsBlank
<1> HIDE DEF n
<1>5. ASSUME NEW m \in DOMAIN results, NEW k \in m .. Len(results),
             results[k].status = "completed"
      PROVE  /\ k \in m .. n - 1 /\ k \in m .. Len(results')
             /\ results'[k].status = "completed"
  <2>1. k \in DOMAIN results
    BY <1>3, <1>5
  <2>2. k \in m .. n - 1 /\ k \in m .. n
    BY <1>3, <1>5 DEF n
  <2> QED
    BY <1>3, <1>5, <2>1, <2>2
<1>6. DeliveryTrail'
  <2>1. ASSUME NEW m \in DOMAIN results'
        PROVE  \/ results'[m].resume_index <= run.resume_index
               \/ \E k \in m .. Len(results') : results'[k].status = "completed"
    <3>1. CASE m \in DOMAIN results
      <4>1. CASE results[m].resume_index <= run.resume_index
        BY <1>3, <3>1, <4>1
      <4>2. CASE \E k \in m .. Len(results) : results[k].status = "completed"
        BY <1>5, <3>1, <4>2
      <4> QED
        BY <3>1, <4>1, <4>2 DEF DeliveryTrail, DeliveredUpTo
    <3>2. CASE m = n
      <4>1. CASE idx = Len(Invoices)
        <5>1. n \in n .. n
          BY <1>3 DEF n
        <5> QED
          BY <1>2, <1>3, <3>2, <4>1, <5>1
      <4>2. CASE idx # Len(Invoices)
        <5>1. run.resume_index = idx /\ idx \in Int
          BY <1>1, <4>2 DEF DeliveryTrail, TypeOK
        <5> QED
          BY <1>2, <1>3, <3>2, <5>1
      <4> QED
        BY <4>1, <4>2
    <3> QED
      BY <1>3, <3>1, <3>2 DEF n
  <2> QED
    BY <1>1, <1>4, <2>1 DEF DeliveryTrail, DeliveredUpTo, RunExists
<1>7. NoInvoiceDeliveredTwice'
  <2>1. ASSUME NEW m \in DOMAIN results', NEW l \in DOMAIN results', m < l
        PROVE  \/ results'[m].resume_index <= results'[l].start
               \/ \E k \in m .. l - 1 : results'[k].status = "completed"
    <3>1. m \in DOMAIN results
      BY <1>3, <2>1 DEF n
    <3>2. CASE l \in DOMAIN results
      <4>1. \/ results[m].resume_index <= results[l].start
            \/ \E k \in m .. l - 1 : results[k].status = "completed"
        BY <2>1, <3>1, <3>2 DEF NoInvoiceDeliveredTwice
      <4>2. \A k \in m .. l - 1 : k \in DOMAIN results
        BY <1>3, <3>1, <3>2
      <4> QED
        BY <1>3, <3>1, <3>2, <4>1, <4>2
    <3>3. CASE l = n
      <4>1. CASE results[m].resume_index <= segment.start
        BY <1>2, <1>3, <3>1, <3>3, <4>1
      <4>2. CASE \E k \in m .. Len(results) : results[k].status = "completed"
        BY <1>5, <3>1, <3>3, <4>2
      <4> QED
        BY <1>1, <3>1, <4>1, <4>2 DEF DeliveryTrail, DeliveredUpTo
    <3> QED
      BY <1>3, <3>2, <3>3 DEF n
  <2> QED
    BY <2>1 DEF NoInvoiceDeliveredTwice
<1> QED
  BY <1>6, <1>7

LEMMA DeliveryStep ==
    ASSUME TypeOK, [Next]_vars, AbsentRunIsBlank, CallIsPastCheckpoint, DeliveryTrail,
           NoInvoiceDeliveredTwice
    PROVE  DeliveryTrail' /\ NoInvoiceDeliveredTwice'
<1>1. CASE ReturnResult
  BY <1>1, ReturnDelivers
<1>2. CASE ~ReturnResult
  <2>1. NoInvoiceDeliveredTwice'
    BY <1>2, ResultsKept DEF NoInvoiceDeliveredTwice
  <2>2. DeliveryTrail'
    BY <1>2, EntryDelivery, DeliveryKept
  <2> QED
    BY <2>1, <2>2
<1> QED
  BY <1>1, <1>2

\* However often a run halts, crashes, raises and is resumed, no invoice is
\* in two of the results its caller received, until one said "completed"
\* (halt_run, resume_reconciliation).
THEOREM ResultsDoNotOverlap == Spec => []NoInvoiceDeliveredTwice
<1>1. Init => /\ AbsentRunIsBlank /\ CallIsPastCheckpoint /\ DeliveryTrail
              /\ NoInvoiceDeliveredTwice
  BY DEF Init, StoreInit, NoRun, RunExists, AbsentRunIsBlank, CallIsPastCheckpoint,
         DeliveryTrail, DeliveredUpTo, NoInvoiceDeliveredTwice
<1>2. /\ TypeOK /\ AbsentRunIsBlank /\ CallIsPastCheckpoint /\ DeliveryTrail
      /\ NoInvoiceDeliveredTwice /\ [Next]_vars
      => /\ AbsentRunIsBlank' /\ CallIsPastCheckpoint' /\ DeliveryTrail'
         /\ NoInvoiceDeliveredTwice'
  BY AbsentStep, PastCheckpointStep, DeliveryStep
<1> QED
  BY <1>1, <1>2, TypeCorrect, PTL DEF Spec

-----------------------------------------------------------------------------
(* The checkpoint and what the caller has.                                 *)

\* A position of the batch that a result of the run covers.
Delivered(i) ==
    \E n \in DOMAIN results : results[n].start <= i /\ i < results[n].resume_index

\* What the checkpoint skips was delivered, or is in the result about to be
\* returned; what the call in progress skipped was delivered before it.
CoverTrail ==
    /\ \A i \in Positions : i < run.resume_index =>
           Delivered(i) \/ (pc = "returning" /\ segment.start <= i /\ i < idx)
    /\ pc # "idle" => \A i \in Positions : i < segment.start => Delivered(i)

\* A result stays received.
LEMMA DeliveredStays ==
    ASSUME TypeOK, [Next]_vars, NEW i \in Positions, Delivered(i)
    PROVE  Delivered(i)'
<1>1. CASE ReturnResult
  <2>1. results' = Append(results, RunResult) /\ results \in Seq(ReconciliationRunResult)
    BY <1>1 DEF ReturnResult, TypeOK
  <2>2. \A n \in DOMAIN results : n \in DOMAIN results' /\ results'[n] = results[n]
    BY <2>1
  <2> QED
    BY <2>2 DEF Delivered
<1>2. CASE ~ReturnResult
  BY <1>2, ResultsKept DEF Delivered
<1> QED
  BY <1>1, <1>2

\* The returned result covers the invoices of its call.
LEMMA ReturnCovers ==
    ASSUME TypeOK, ReturnResult, NEW i \in Positions, segment.start <= i, i < idx
    PROVE  Delivered(i)'
<1>1. results' = Append(results, RunResult) /\ results \in Seq(ReconciliationRunResult)
  BY DEF ReturnResult, TypeOK
<1>2. /\ Len(results) + 1 \in DOMAIN results'
      /\ results'[Len(results) + 1] = RunResult
  BY <1>1
<1>3. RunResult.start = segment.start /\ RunResult.resume_index = idx
  BY DEF RunResult
<1> QED
  BY <1>2, <1>3 DEF Delivered

LEMMA CoverStep ==
    ASSUME "crash" \notin Faults, TypeOK, [Next]_vars, AbsentRunIsBlank, CoverTrail
    PROVE  CoverTrail'
<1>1. \A i \in Positions : Delivered(i) => Delivered(i)'
  BY DeliveredStays
<1>2. CASE StartReconciliation \/ ResumeReconciliation
  <2>1. /\ run'.resume_index \in {0, run.resume_index} /\ pc = "idle"
        /\ pc' # "idle" => idx' \in {0, run.resume_index} /\ segment'.start = idx'
    <3>1. pc = "idle"
      BY <1>2 DEF StartReconciliation, ResumeReconciliation, Reconcile
    <3>2. pc' # "idle" => segment'.start = idx'
      <4>1. ASSUME NEW start, NEW g, NEW ps, Reconcile(start, g, ps), pc' # "idle"
            PROVE  segment'.start = idx'
        BY <4>1 DEF Reconcile, EnterLoop, Raise, DropLocals
      <4> QED
        BY <1>2, <4>1 DEF StartReconciliation, ResumeReconciliation
    <3> QED
      BY <1>2, <3>1, <3>2, EntryIndex
  <2>2. \A i \in Positions : ~(i < 0)
    BY BatchLength DEF Positions
  <2>3. \A i \in Positions : i < run.resume_index => Delivered(i)
    BY <2>1 DEF CoverTrail
  <2> QED
    BY <1>1, <2>1, <2>2, <2>3 DEF CoverTrail
<1>3. CASE ReturnResult
  <2>1. run' = run /\ pc' = "idle"
    BY <1>3 DEF ReturnResult, DropLocals, storeVars
  <2>2. ASSUME NEW i \in Positions, i < run.resume_index PROVE Delivered(i)'
    BY <1>1, <1>3, <2>2, ReturnCovers DEF CoverTrail
  <2> QED
    BY <2>1, <2>2 DEF CoverTrail
<1>4. CASE HaltRun
  <2>1. /\ pc = "halting" /\ pc' = "returning" /\ idx' = idx /\ segment' = segment
        /\ run'.resume_index = idx
    BY <1>4 DEF HaltRun, halt_run, TypeOK, RunRow
  <2>2. \A i \in Positions : i < segment.start => Delivered(i)
    BY <2>1 DEF CoverTrail
  <2>3. \A i \in Positions : i < segment.start \/ segment.start <= i
    BY BatchLength DEF TypeOK, Positions
  <2> QED
    BY <1>1, <2>1, <2>2, <2>3 DEF CoverTrail
<1>5. CASE CompleteRun
  <2>1. pc = "loop" /\ segment' = segment /\ run'.resume_index = run.resume_index
    BY <1>5 DEF CompleteRun, complete_run, TypeOK, RunRow
  <2> QED
    BY <1>1, <2>1 DEF CoverTrail
<1>6. CASE UNCHANGED vars
  BY <1>1, <1>6 DEF vars, storeVars, CoverTrail
<1>7. CASE Next /\ ~(\/ StartReconciliation \/ ResumeReconciliation \/ ReturnResult
                     \/ HaltRun \/ CompleteRun)
  <2>1. run'.resume_index = run.resume_index /\ segment' = segment
    BY <1>7, RowKept, ResultsKept
  <2>2. pc # "returning" /\ (pc' # "idle" => pc # "idle")
    <3>1. CASE BeginInvoice \/ LogProposal \/ LogHandover \/ LogVerdict
      BY <3>1 DEF BeginInvoice, LogProposal, LogHandover, LogVerdict
    <3>2. CASE RefuseName \/ RefuseRoute \/ ResumeUnknownRun \/ ProviderFails
      BY <3>2 DEF RefuseName, RefuseRoute, ResumeUnknownRun, ProviderFails,
                  Raise, DropLocals
    <3>3. CASE Analyze \/ Validate \/ ConfirmEscalation \/ ProviderAnswers \/ RecordUsage
      BY <3>3 DEF Analyze, Validate, ConfirmEscalation, ProviderAnswers, RecordUsage
    <3>4. CASE CloseInvoice \/ HandToHuman \/ EscalateCapped
      BY <3>4 DEF CloseInvoice, HandToHuman, EscalateCapped
    <3>5. ~Crash
      BY DEF Crash
    <3> QED
      BY <1>7, <3>1, <3>2, <3>3, <3>4, <3>5 DEF Next, ProgramStep
  <2> QED
    BY <1>1, <2>1, <2>2 DEF CoverTrail
<1> QED
  BY <1>2, <1>3, <1>4, <1>5, <1>6, <1>7

\* Unless the process dies, what a resumed call skips is in a result its
\* caller holds: an exception loses the call's own work and nothing the
\* checkpoint counts (halt_run before the return of reconcile_invoices).
THEOREM SkippedWasDelivered ==
    ASSUME "crash" \notin Faults
    PROVE  Spec => []SkippedMeansDelivered
<1>1. Init => AbsentRunIsBlank /\ CoverTrail
  BY BatchLength
  DEF Init, StoreInit, NoRun, RunExists, AbsentRunIsBlank, CoverTrail, Positions
<1>2. /\ TypeOK /\ AbsentRunIsBlank /\ CoverTrail /\ [Next]_vars
      => AbsentRunIsBlank' /\ CoverTrail'
  BY AbsentStep, CoverStep
<1>3. CoverTrail => SkippedMeansDelivered
  BY DEF CoverTrail, Delivered, SkippedMeansDelivered
<1> QED
  BY <1>1, <1>2, <1>3, TypeCorrect, PTL DEF Spec

-----------------------------------------------------------------------------
(* A run in which nothing raises.                                          *)

\* Guardrails in use resolve every route.
RoutesResolve ==
    /\ guard.live => \A route \in Routes : Configured(route)
    /\ pc # "idle" => guard.live
    /\ pc # "misrouted"

\* What was closed is behind the call in progress and, between calls, behind
\* the checkpoint of a run that can be resumed.
ClosedIsBehind ==
    /\ \A k \in DOMAIN log : log[k].to_state = "closed" =>
           IF pc = "idle" THEN \/ log[k].step_index < run.resume_index
                               \/ run.status = "completed"
                          ELSE log[k].step_index < idx
    /\ pc = "returning" => run.resume_index = idx \/ run.status = "completed"

\* Guardrails keep the table they were built with.
LEMMA RoutingKept ==
    ASSUME TypeOK, [Next]_vars, ~(StartReconciliation \/ ResumeReconciliation), ~Crash
    PROVE  guard'.live = guard.live /\ guard'.routing = guard.routing
<1>1. ASSUME NEW route, AskModel(route)
      PROVE  guard'.live = guard.live /\ guard'.routing = guard.routing
  BY <1>1 DEF AskModel, CountIteration, TypeOK, GuardState
<1>2. CASE Analyze \/ Validate \/ ConfirmEscalation
  BY <1>1, <1>2 DEF Analyze, Validate, ConfirmEscalation, WriteUp
<1>3. CASE RecordUsage
  BY <1>3 DEF RecordUsage, record_usage, TypeOK, GuardState
<1>4. CASE BeginInvoice \/ LogProposal \/ LogHandover \/ LogVerdict \/ CompleteRun \/ HaltRun
  BY <1>4 DEF BeginInvoice, LogProposal, LogHandover, LogVerdict, CompleteRun, HaltRun
<1>5. CASE \/ RefuseName \/ RefuseRoute \/ ResumeUnknownRun \/ ProviderFails
           \/ ReturnResult \/ ProviderAnswers
  BY <1>5 DEF RefuseName, RefuseRoute, ResumeUnknownRun, ProviderFails, ReturnResult,
              ProviderAnswers
<1>6. CASE CloseInvoice \/ HandToHuman \/ EscalateCapped
  BY <1>6 DEF CloseInvoice, HandToHuman, EscalateCapped, NextInvoice
<1>7. CASE UNCHANGED vars
  BY <1>7 DEF vars
<1> QED
  BY <1>2, <1>3, <1>4, <1>5, <1>6, <1>7 DEF Next, ProgramStep

LEMMA ResolveStep ==
    ASSUME CallsReturn, TypeOK, [Next]_vars, RoutesResolve
    PROVE  RoutesResolve'
<1>1. ~Crash
  BY DEF Crash, CallsReturn
<1>2. CASE StartReconciliation \/ ResumeReconciliation
  <2>1. PICK g \in OfferedGuardrails :
            guard' = g /\ pc' \in {"idle", "loop"}
    BY <1>2 DEF StartReconciliation, ResumeReconciliation, OfferedGuardrails, Reconcile,
                EnterLoop, Raise, DropLocals
  <2>2. CASE guard.live /\ g = guard
    BY <2>1, <2>2 DEF RoutesResolve, Configured, TierFor, ModelFor
  <2>3. CASE \E b \in Budgets, r \in Routings : g = NewGuardrails(b, r)
    <3>1. PICK b \in Budgets, r \in Routings : g = NewGuardrails(b, r)
      BY <2>3
    <3>2. guard'.live /\ guard'.routing = r
      BY <2>1, <3>1 DEF NewGuardrails
    <3> QED
      BY <2>1, <3>2 DEF RoutesResolve, Configured, TierFor, ModelFor, CallsReturn
  <2> QED
    BY <2>1, <2>2, <2>3 DEF OfferedGuardrails
<1>3. CASE ~(StartReconciliation \/ ResumeReconciliation)
  <2>1. guard'.live = guard.live /\ guard'.routing = guard.routing
    BY <1>1, <1>3, RoutingKept
  <2>2. pc' # "idle" => pc # "idle"
    <3>1. CASE CloseInvoice \/ HandToHuman \/ EscalateCapped
      BY <3>1 DEF CloseInvoice, HandToHuman, EscalateCapped
    <3>2. CASE ~(CloseInvoice \/ HandToHuman \/ EscalateCapped)
      BY <1>3, <3>2, IndexKept
    <3> QED
      BY <3>1, <3>2
  <2>3. pc' # "misrouted"
    <3>1. ASSUME NEW route \in Routes, AskModel(route), pc # "idle"
          PROVE  pc' # "misrouted"
      BY <3>1 DEF AskModel, RoutesResolve
    <3>2. CASE Analyze \/ Validate \/ ConfirmEscalation
      BY <3>1, <3>2 DEF Analyze, Validate, ConfirmEscalation, WriteUp, Routes
    <3>3. CASE BeginInvoice \/ LogProposal \/ LogHandover \/ LogVerdict \/ CompleteRun \/ HaltRun
      BY <3>3 DEF BeginInvoice, LogProposal, LogHandover, LogVerdict, CompleteRun, HaltRun
    <3>4. CASE \/ RefuseName \/ RefuseRoute \/ ResumeUnknownRun \/ ProviderFails
               \/ ReturnResult \/ ProviderAnswers \/ RecordUsage
      BY <3>4 DEF RefuseName, RefuseRoute, ResumeUnknownRun, ProviderFails, ReturnResult,
                  Raise, DropLocals, ProviderAnswers, RecordUsage, ReadAnswer
    <3>5. CASE CloseInvoice \/ HandToHuman \/ EscalateCapped
      BY <3>5 DEF CloseInvoice, HandToHuman, EscalateCapped, NextInvoice
    <3>6. CASE UNCHANGED vars
      BY <3>6 DEF vars, RoutesResolve
    <3> QED
      BY <1>1, <1>3, <3>2, <3>3, <3>4, <3>5, <3>6 DEF Next, ProgramStep
  <2> QED
    BY <2>1, <2>2, <2>3 DEF RoutesResolve, Configured, TierFor, ModelFor
<1> QED
  BY <1>2, <1>3

\* So no step of such a run raises, except to refuse the call itself.
LEMMA NothingRaises ==
    ASSUME CallsReturn, TypeOK, RoutesResolve
    PROVE  ~(RefuseName \/ RefuseRoute \/ ProviderFails \/ Crash)
BY DEF CallsReturn, TypeOK, RoutesResolve, RefuseName, RefuseRoute, ProviderFails, Crash,
       Current

\* A call is entered behind everything that was closed.
LEMMA EntryIsAhead ==
    ASSUME ResumesHalted, TypeOK, StartReconciliation \/ ResumeReconciliation,
           AbsentRunIsBlank, ClosedIsBehind
    PROVE  ClosedIsBehind'
<1>1. ASSUME NEW start \in {0, run.resume_index}, NEW g, NEW ps, Reconcile(start, g, ps),
             start = 0 \/ run.status = "halted"
      PROVE  ClosedIsBehind'
  <2>1. log' = log /\ pc = "idle" /\ pc' \in {"idle", "loop"}
    BY <1>1 DEF Reconcile, start_run, storeVars, EnterLoop, Raise, DropLocals
  <2>2. CASE run' = run /\ pc' = "idle"
    BY <2>1, <2>2 DEF ClosedIsBehind
  <2>3. CASE start_run(g.token_budget) /\ EnterLoop(start, g, ps) /\ start = 0
    <3>1. ~RunExists /\ run.resume_index = 0 /\ run.status # "completed" /\ idx' = 0
      BY <2>3 DEF start_run, EnterLoop, RunExists, AbsentRunIsBlank
    <3> QED
      BY <2>1, <2>3, <3>1 DEF ClosedIsBehind, EnterLoop
  <2>4. CASE EnterLoop(start, g, ps) /\ run' = run /\ start > 0
    <3>1. start = run.resume_index /\ run.status # "completed" /\ idx' = run.resume_index
      BY <1>1, <2>4 DEF EnterLoop
    <3> QED
      BY <2>1, <2>4, <3>1 DEF ClosedIsBehind, EnterLoop
  <2> QED
    BY <1>1, <2>2, <2>3, <2>4 DEF Reconcile, Raise, DropLocals, storeVars
<1> QED
  BY <1>1 DEF StartReconciliation, ResumeReconciliation, ResumesHalted

\* A row of an invoice in progress is logged ahead of what was closed.
LEMMA RowIsAhead ==
    ASSUME TypeOK, LoggedRow, ClosedIsBehind, NothingClosedIsReprocessed
    PROVE  ClosedIsBehind' /\ NothingClosedIsReprocessed'
<1>1. PICK from, to, tier :
          Log(from, to, tier) /\ (to # "closed" \/ CloseInvoice)
  BY DEF LoggedRow, BeginInvoice, LogProposal, LogHandover, LogVerdict, CloseInvoice,
         HandToHuman, EscalateCapped
<1>2. /\ DOMAIN log = 1 .. Len(log) /\ DOMAIN log' = 1 .. Len(log) + 1
      /\ Len(log) \in Nat
      /\ \A k \in DOMAIN log : k \in DOMAIN log' /\ log'[k] = log[k]
      /\ log'[Len(log) + 1].step_index = idx
      /\ log'[Len(log) + 1].to_state = to
  BY <1>1, AppendedLog
<1>3. /\ pc \notin {"idle", "returning"} /\ pc' \notin {"idle", "returning"}
      /\ idx' = idx \/ idx' = idx + 1
      /\ CloseInvoice => idx' = idx + 1
  BY DEF LoggedRow, BeginInvoice, LogProposal, LogHandover, LogVerdict, CloseInvoice,
         HandToHuman, EscalateCapped, NextInvoice
<1>4. /\ idx \in Nat
      /\ \A k \in DOMAIN log : log[k].step_index \in Int
  <2>1. log \in Seq(LogRow) /\ idx \in Nat
    BY BatchLength DEF TypeOK
  <2>2. \A k \in DOMAIN log : log[k] \in LogRow
    BY <2>1
  <2> QED
    BY <2>1, <2>2 DEF LogRow, Positions
<1>5. \A k \in DOMAIN log : log[k].to_state = "closed" => log[k].step_index < idx
  BY <1>3 DEF ClosedIsBehind
<1>6. ClosedIsBehind'
  <2>1. ASSUME NEW k \in DOMAIN log', log'[k].to_state = "closed"
        PROVE  log'[k].step_index < idx'
    <3>1. CASE k \in DOMAIN log
      BY <1>2, <1>3, <1>4, <1>5, <2>1, <3>1
    <3>2. CASE k = Len(log) + 1
      BY <1>1, <1>2, <1>3, <1>4, <2>1, <3>2
    <3> QED
      BY <1>2, <3>1, <3>2
  <2> QED
    BY <1>3, <2>1 DEF ClosedIsBehind
<1>7. NothingClosedIsReprocessed'
  <2> SUFFICES ASSUME NEW j \in DOMAIN log', NEW k \in DOMAIN log', j < k,
                      log'[j].step_index = log'[k].step_index
               PROVE  log'[j].to_state # "closed"
    BY DEF NothingClosedIsReprocessed
  <2>1. j \in DOMAIN log
    BY <1>2
  <2>2. CASE k \in DOMAIN log
    BY <1>2, <2>1, <2>2 DEF NothingClosedIsReprocessed
  <2>3. CASE k = Len(log) + 1
    <3>1. log[j].step_index = idx
      BY <1>2, <2>1, <2>3
    <3> QED
      BY <1>2, <1>4, <1>5, <2>1, <3>1
  <2> QED
    BY <1>2, <2>2, <2>3
<1> QED
  BY <1>6, <1>7

LEMMA BehindStep ==
    ASSUME CallsReturn, ResumesHalted, TypeOK, [Next]_vars, RoutesResolve,
           AbsentRunIsBlank, ClosedIsBehind, NothingClosedIsReprocessed
    PROVE  ClosedIsBehind' /\ NothingClosedIsReprocessed'
<1>1. CASE LoggedRow
  BY <1>1, RowIsAhead
<1>2. CASE ~LoggedRow
  <2>1. log' = log
    BY <1>2, OthersKeepLog
  <2>2. NothingClosedIsReprocessed'
    BY <2>1 DEF NothingClosedIsReprocessed
  <2>3. CASE StartReconciliation \/ ResumeReconciliation
    BY <2>2, <2>3, EntryIsAhead
  <2>4. CASE HaltRun
    <3>1. /\ pc = "halting" /\ pc' = "returning" /\ idx' = idx
          /\ run'.resume_index = idx
      BY <2>4 DEF HaltRun, halt_run, TypeOK, RunRow
    <3> QED
      BY <2>1, <2>2, <3>1 DEF ClosedIsBehind
  <2>5. CASE CompleteRun
    <3>1. /\ pc = "loop" /\ pc' = "returning" /\ idx' = idx
          /\ run'.status = "completed"
      BY <2>5 DEF CompleteRun, complete_run, TypeOK, RunRow
    <3> QED
      BY <2>1, <2>2, <3>1 DEF ClosedIsBehind
  <2>6. CASE ReturnResult
    <3>1. pc = "returning" /\ pc' = "idle" /\ run' = run
      BY <2>6 DEF ReturnResult, DropLocals, storeVars
    <3> QED
      BY <2>1, <2>2, <3>1 DEF ClosedIsBehind
  <2>7. CASE Analyze \/ Validate \/ ConfirmEscalation \/ ProviderAnswers \/ RecordUsage
    <3>1. /\ pc \notin {"idle", "returning"} /\ pc' \notin {"idle", "returning"}
          /\ idx' = idx
      BY <2>7 DEF Analyze, Validate, ConfirmEscalation, WriteUp, AskModel,
                  ProviderAnswers, RecordUsage, ReadAnswer
    <3> QED
      BY <2>1, <2>2, <3>1 DEF ClosedIsBehind
  <2>8. CASE ResumeUnknownRun \/ UNCHANGED vars
    BY <2>1, <2>2, <2>8
    DEF ResumeUnknownRun, Raise, DropLocals, storeVars, vars, ClosedIsBehind
  <2> QED
    BY <1>2, <2>3, <2>4, <2>5, <2>6, <2>7, <2>8, NothingRaises
    DEF Next, ProgramStep, LoggedRow
<1> QED
  BY <1>1, <1>2

\* When every call comes back with a result and only halted runs are resumed,
\* what was closed is never opened again, however often the budget halts the
\* run (resume_reconciliation).
THEOREM ClosedStaysClosed ==
    ASSUME CallsReturn, ResumesHalted
    PROVE  Spec => []NothingClosedIsReprocessed
<1>1. Init => /\ AbsentRunIsBlank /\ RoutesResolve /\ ClosedIsBehind
              /\ NothingClosedIsReprocessed
  BY DEF Init, StoreInit, NoRun, RunExists, NoGuardrails, NewGuardrails, AbsentRunIsBlank,
         RoutesResolve, ClosedIsBehind, NothingClosedIsReprocessed
<1>2. /\ TypeOK /\ AbsentRunIsBlank /\ RoutesResolve /\ ClosedIsBehind
      /\ NothingClosedIsReprocessed /\ [Next]_vars
      => /\ AbsentRunIsBlank' /\ RoutesResolve' /\ ClosedIsBehind'
         /\ NothingClosedIsReprocessed'
  BY AbsentStep, ResolveStep, BehindStep
<1> QED
  BY <1>1, <1>2, TypeCorrect, PTL DEF Spec

-----------------------------------------------------------------------------
(* The run implements the ledger: initial states map to initial states and *)
(* every step to a ledger step or a stutter.                               *)

Cursor == IF pc \in {"idle", "returning"} THEN -1 ELSE idx

\* The verdicts of one position.
VerdictsOf(i) ==
    {v \in Terminal : \E k \in DOMAIN log :
        log[k].step_index = i /\ log[k].to_state = v}

\* A row appended to the log adds its state to the verdicts of its position,
\* if it is terminal, and leaves every other position alone.
LEMMA VerdictsAppended ==
    ASSUME TypeOK, NEW from, NEW to, NEW tier, Log(from, to, tier),
           NEW i \in Positions
    PROVE  VerdictsOf(i)' = IF i = idx THEN VerdictsOf(i) \cup ({to} \cap Terminal)
                                       ELSE VerdictsOf(i)
<1>1. /\ DOMAIN log = 1 .. Len(log) /\ DOMAIN log' = 1 .. Len(log) + 1
      /\ Len(log) \in Nat
      /\ \A k \in DOMAIN log : k \in DOMAIN log' /\ log'[k] = log[k]
      /\ log'[Len(log) + 1].step_index = idx
      /\ log'[Len(log) + 1].to_state = to
  BY AppendedLog
<1>2. ASSUME NEW v \in Terminal
      PROVE  (\E k \in DOMAIN log' : log'[k].step_index = i /\ log'[k].to_state = v)
             <=> \/ \E k \in DOMAIN log : log[k].step_index = i /\ log[k].to_state = v
                 \/ i = idx /\ v = to
  <2>1. ASSUME NEW k \in DOMAIN log', log'[k].step_index = i, log'[k].to_state = v
        PROVE  \/ \E l \in DOMAIN log : log[l].step_index = i /\ log[l].to_state = v
               \/ i = idx /\ v = to
    <3>1. k \in DOMAIN log \/ k = Len(log) + 1
      BY <1>1
    <3> QED
      BY <1>1, <2>1, <3>1
  <2>2. ASSUME NEW k \in DOMAIN log, log[k].step_index = i, log[k].to_state = v
        PROVE  \E l \in DOMAIN log' : log'[l].step_index = i /\ log'[l].to_state = v
    BY <1>1, <2>2
  <2>3. ASSUME i = idx, v = to
        PROVE  \E l \in DOMAIN log' : log'[l].step_index = i /\ log'[l].to_state = v
    <3>1. Len(log) + 1 \in DOMAIN log'
      BY <1>1
    <3> QED
      BY <1>1, <2>3, <3>1
  <2> QED
    BY <2>1, <2>2, <2>3
<1> QED
  BY <1>2 DEF VerdictsOf

\* The mapped verdicts, as a function of the position.
LEMMA MappedVerdicts == VerdictsInLog = [i \in Positions |-> VerdictsOf(i)]
BY DEF VerdictsInLog, VerdictsOf

\* A row that is not terminal is no step of the ledger's verdicts.
LEMMA VerdictsKept ==
    ASSUME TypeOK, NEW from, NEW to, NEW tier, Log(from, to, tier), to \notin Terminal
    PROVE  VerdictsInLog' = VerdictsInLog
<1>1. \A i \in Positions : VerdictsOf(i)' = VerdictsOf(i)
  BY VerdictsAppended
<1>2. VerdictsInLog' = [i \in Positions |-> VerdictsOf(i)']
  BY DEF VerdictsInLog, VerdictsOf
<1> QED
  BY <1>1, <1>2, MappedVerdicts

\* A terminal row is a verdict for the current invoice.
LEMMA VerdictRecorded ==
    ASSUME TypeOK, NEW from, NEW to \in Terminal, NEW tier, Log(from, to, tier),
           idx \in Positions
    PROVE  VerdictsInLog' = [VerdictsInLog EXCEPT ![idx] = @ \cup {to}]
<1>1. \A i \in Positions :
          VerdictsOf(i)' = IF i = idx THEN VerdictsOf(i) \cup {to} ELSE VerdictsOf(i)
  BY VerdictsAppended
<1>2. VerdictsInLog' = [i \in Positions |-> VerdictsOf(i)']
  BY DEF VerdictsInLog, VerdictsOf
<1> QED
  BY <1>1, <1>2, MappedVerdicts

-----------------------------------------------------------------------------

\* The initial state of the run is that of the ledger.
LEMMA LedgerInitially == Init => Ledger!LedgerInit
<1> SUFFICES ASSUME Init PROVE Ledger!LedgerInit
  OBVIOUS
<1>1. /\ run.status = "absent" /\ run.resume_index = 0 /\ pc = "idle"
      /\ log = <<>>
  BY DEF Init, StoreInit, NoRun
<1>2. VerdictsInLog = [i \in Positions |-> {}]
  BY <1>1 DEF VerdictsInLog
<1> QED
  BY <1>1, <1>2 DEF Ledger!LedgerInit, Ledger!Slots, Ledger!Nobody, Positions

\* Entering the loop opens the run or continues it from its checkpoint.
LEMMA EntryRefines ==
    ASSUME TypeOK, AbsentRunIsBlank, NEW start \in {0, run.resume_index}, NEW g,
           NEW ps, Reconcile(start, g, ps),
           start = 0 \/ RunExists
    PROVE  [Ledger!LedgerNext]_<<run.status, run.resume_index, Cursor, VerdictsInLog>>
<1>1. log' = log /\ pc = "idle"
  BY DEF Reconcile, start_run, storeVars
<1>2. VerdictsInLog' = VerdictsInLog
  BY <1>1 DEF VerdictsInLog
<1>3. CASE start = 0 /\ ~RunExists
  <2>1. /\ run.status = "absent" /\ run'.status = "running" /\ run'.resume_index = 0
        /\ pc' = "loop" /\ idx' = 0 /\ run.resume_index = 0
    BY <1>3 DEF Reconcile, start_run, EnterLoop, RunExists, AbsentRunIsBlank
  <2> QED
    BY <1>1, <1>2, <2>1 DEF Cursor, Ledger!LedgerNext, Ledger!OpenRun, Ledger!Nobody
<1>4. CASE start = 0 /\ RunExists
  <2>1. run' = run /\ pc' = "idle"
    BY <1>4 DEF Reconcile, start_run, Raise, DropLocals, storeVars
  <2> QED
    BY <1>1, <1>2, <2>1 DEF Cursor
<1>5. CASE start # 0
  <2>1. /\ run' = run /\ pc' = "loop" /\ idx' = run.resume_index
        /\ run.status # "absent" /\ run.resume_index > 0
    BY <1>5 DEF Reconcile, EnterLoop, storeVars, RunExists
  <2> QED
    BY <1>1, <1>2, <2>1
    DEF Cursor, Ledger!LedgerNext, Ledger!ContinueRun, Ledger!Nobody
<1> QED
  BY <1>3, <1>4, <1>5

\* Ending an invoice records its verdict.
LEMMA VerdictRefines ==
    ASSUME TypeOK, CloseInvoice \/ HandToHuman \/ EscalateCapped
    PROVE  Ledger!RecordVerdict
<1>1. /\ pc \notin {"idle", "loop", "returning"} /\ idx \in Positions
      /\ pc' = "loop" /\ idx' = idx + 1 /\ run' = run
  BY LoggedRowIsAppended
  DEF LoggedRow, CloseInvoice, HandToHuman, EscalateCapped, NextInvoice, TypeOK
<1>2. "closed" \in Terminal /\ "human_review" \in Terminal
  BY DEF Terminal
<1>3. \E v \in {"closed", "human_review"} :
          VerdictsInLog' = [VerdictsInLog EXCEPT ![idx] = @ \cup {v}]
  <2>1. CASE CloseInvoice
    BY <1>1, <1>2, <2>1, VerdictRecorded DEF CloseInvoice
  <2>2. CASE HandToHuman
    BY <1>1, <1>2, <2>2, VerdictRecorded DEF HandToHuman
  <2>3. CASE EscalateCapped
    BY <1>1, <1>2, <2>3, VerdictRecorded DEF EscalateCapped
  <2> QED
    BY <2>1, <2>2, <2>3
<1>4. Cursor = idx /\ Cursor' = idx + 1
  BY <1>1 DEF Cursor
<1> QED
  BY <1>1, <1>3, <1>4 DEF Cursor, Ledger!RecordVerdict, Ledger!Slots, Positions

\* The two regular ends of a call.
LEMMA EndRefines ==
    ASSUME TypeOK, CompleteRun \/ HaltRun
    PROVE  Ledger!Complete \/ Ledger!Halt
<1>1. log' = log /\ pc' = "returning"
  BY DEF CompleteRun, complete_run, HaltRun, halt_run
<1>2. VerdictsInLog' = VerdictsInLog
  BY <1>1 DEF VerdictsInLog
<1>3. CASE CompleteRun
  <2>1. /\ pc = "loop" /\ idx = Len(Invoices)
        /\ run'.status = "completed" /\ run'.resume_index = run.resume_index
    BY <1>3 DEF CompleteRun, complete_run, TypeOK, RunRow
  <2> QED
    BY <1>1, <1>2, <2>1 DEF Ledger!Complete, Ledger!Nobody
<1>4. CASE HaltRun
  <2>1. /\ pc = "halting" /\ idx \in Positions
        /\ run'.status = "halted" /\ run'.resume_index = idx
    BY <1>4 DEF HaltRun, halt_run, TypeOK, RunRow
  <2> QED
    BY <1>1, <1>2, <2>1 DEF Ledger!Halt, Ledger!Nobody, Ledger!Slots, Positions
<1> QED
  BY <1>3, <1>4

\* A call that ends irregularly is abandoned; one that was about to return
\* changes nothing.
LEMMA AbandonRefines ==
    ASSUME TypeOK, RefuseName \/ RefuseRoute \/ ProviderFails \/ Crash \/ ReturnResult
    PROVE  \/ Ledger!Abandon
           \/ UNCHANGED <<run.status, run.resume_index, Cursor, VerdictsInLog>>
<1>1. run' = run /\ log' = log /\ pc' = "idle" /\ pc # "idle"
  BY DEF RefuseName, RefuseRoute, ProviderFails, Crash, ReturnResult, Raise,
         DropLocals, storeVars
<1>2. VerdictsInLog' = VerdictsInLog
  BY <1>1 DEF VerdictsInLog
<1>3. CASE pc = "returning"
  BY <1>1, <1>2, <1>3 DEF Cursor
<1>4. CASE pc # "returning"
  <2>1. idx # -1
    BY BatchLength DEF TypeOK
  <2> QED
    BY <1>1, <1>2, <1>4, <2>1 DEF Cursor, Ledger!Abandon, Ledger!Nobody
<1> QED
  BY <1>3, <1>4

\* Everything else happens inside an invoice.
LEMMA InnerStepsStutter ==
    ASSUME TypeOK,
           \/ BeginInvoice \/ LogProposal \/ LogHandover \/ LogVerdict
           \/ Analyze \/ Validate \/ ConfirmEscalation \/ ProviderAnswers
           \/ RecordUsage \/ ResumeUnknownRun \/ UNCHANGED vars
    PROVE  UNCHANGED <<run.status, run.resume_index, Cursor, VerdictsInLog>>
<1>1. CASE BeginInvoice \/ LogProposal \/ LogHandover \/ LogVerdict
  <2>1. /\ pc \notin {"idle", "returning"} /\ pc' \notin {"idle", "returning"}
        /\ idx' = idx /\ run' = run
    BY <1>1, LoggedRowIsAppended
    DEF LoggedRow, BeginInvoice, LogProposal, LogHandover, LogVerdict
  <2>2. PICK from, to, tier : Log(from, to, tier) /\ to \notin Terminal
    BY <1>1 DEF BeginInvoice, LogProposal, LogHandover, LogVerdict, Terminal
  <2> QED
    BY <2>1, <2>2, VerdictsKept DEF Cursor
<1>2. CASE Analyze \/ Validate \/ ConfirmEscalation \/ ProviderAnswers
  <2>1. /\ pc \notin {"idle", "returning"} /\ idx' = idx /\ run' = run /\ log' = log
    BY <1>2 DEF Analyze, Validate, ConfirmEscalation, ProviderAnswers, storeVars
  <2>2. pc' \notin {"idle", "returning"}
    BY <1>2 DEF Analyze, Validate, ConfirmEscalation, ProviderAnswers, WriteUp, AskModel
  <2> QED
    BY <2>1, <2>2 DEF Cursor, VerdictsInLog
<1>3. CASE RecordUsage
  <2>1. /\ pc = "recording" /\ idx' = idx /\ log' = log
        /\ run' = [run EXCEPT !.tokens_used = @ + llm.tokens]
    BY <1>3 DEF RecordUsage, record_usage, store_record_usage
  <2>2. pc' \notin {"idle", "returning"}
    BY <1>3 DEF RecordUsage, ReadAnswer
  <2> QED
    BY <2>1, <2>2 DEF Cursor, VerdictsInLog, TypeOK, RunRow
<1>4. CASE ResumeUnknownRun
  BY <1>4 DEF ResumeUnknownRun, Raise, DropLocals, storeVars, Cursor, VerdictsInLog
<1>5. CASE UNCHANGED vars
  BY <1>5 DEF vars, storeVars, Cursor, VerdictsInLog
<1> QED
  BY <1>1, <1>2, <1>3, <1>4, <1>5

\* Every step of the run is a step of the ledger or leaves it alone.
LEMMA StepRefines ==
    ASSUME TypeOK, AbsentRunIsBlank, [Next]_vars
    PROVE  [Ledger!LedgerNext]_<<run.status, run.resume_index, Cursor, VerdictsInLog>>
<1>1. CASE StartReconciliation
  <2>1. PICK g, ps : Reconcile(0, g, ps)
    BY <1>1 DEF StartReconciliation
  <2> QED
    BY <2>1, EntryRefines
<1>2. CASE ResumeReconciliation
  <2>1. PICK g, ps : Reconcile(run.resume_index, g, ps)
    BY <1>2 DEF ResumeReconciliation
  <2>2. RunExists
    BY <1>2 DEF ResumeReconciliation
  <2> QED
    BY <2>1, <2>2, EntryRefines
<1>3. CASE CloseInvoice \/ HandToHuman \/ EscalateCapped
  BY <1>3, VerdictRefines DEF Ledger!LedgerNext
<1>4. CASE CompleteRun \/ HaltRun
  BY <1>4, EndRefines DEF Ledger!LedgerNext
<1>5. CASE RefuseName \/ RefuseRoute \/ ProviderFails \/ Crash \/ ReturnResult
  BY <1>5, AbandonRefines DEF Ledger!LedgerNext
<1>6. CASE \/ BeginInvoice \/ LogProposal \/ LogHandover \/ LogVerdict
           \/ Analyze \/ Validate \/ ConfirmEscalation \/ ProviderAnswers
           \/ RecordUsage \/ ResumeUnknownRun \/ UNCHANGED vars
  BY <1>6, InnerStepsStutter
<1> QED
  BY <1>1, <1>2, <1>3, <1>4, <1>5, <1>6 DEF Next, ProgramStep

\* The run implements the ledger.
THEOREM RunImplementsLedger == Spec => ImplementsLedger
<1>1. Init => Ledger!LedgerInit /\ AbsentRunIsBlank
  BY LedgerInitially DEF Init, StoreInit, NoRun, AbsentRunIsBlank, RunExists
<1>2. TypeOK /\ AbsentRunIsBlank /\ [Next]_vars => AbsentRunIsBlank'
  BY AbsentStep
<1>3. TypeOK /\ AbsentRunIsBlank /\ [Next]_vars
      => [Ledger!LedgerNext]_(Ledger!ledgerVars)
  BY StepRefines DEF Cursor, Ledger!ledgerVars
<1> QED
  BY <1>1, <1>2, <1>3, TypeCorrect, PTL DEF Spec, ImplementsLedger, Ledger!LedgerSpec

=============================================================================
