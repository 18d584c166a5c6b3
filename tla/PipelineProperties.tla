------------------------- MODULE PipelineProperties -------------------------
(***************************************************************************)
(* What the reconciliation run promises: about its checkpoint, about the   *)
(* verdicts in its log, about its spend and about what its caller receives.*)
(***************************************************************************)
EXTENDS Pipeline

ControlPoints ==
    {"idle", "loop", "analyze", "calling", "recording", "proposed", "handover",
     "validate", "judged", "approved", "escalated", "confirmed", "capped",
     "misrouted", "halting", "returning"}

LogRow ==
    [task_id : TaskIds, step_index : Positions, from_state : ReconciliationState,
     to_state : ReconciliationState, model_tier : Tiers \cup {"no_llm"}]

RunRow == [status : RunStatus, token_budget : Nat, tokens_used : Nat,
           resume_index : 0 .. Len(Invoices)]

CallRecords == [tier : TierNames, tokens : Nat, cost : Nat]
GuardState ==
    [live : BOOLEAN, token_budget : Nat, routing : RoutingTable,
     iterations : [TaskIds -> 0 .. MaxIterationsPerTask],
     calls : Seq(CallRecords)]

\* matched_job_id is never anything but some invoice's nearest candidate.
MatchableJobs == {None} \cup {NearestJob(Invoice(i)) : i \in Positions}

Proposals == [discrepancy : DiscrepancyKind, matched_job_id : MatchableJobs,
              used_llm : BOOLEAN]
Decisions == [agrees : BOOLEAN, discrepancy : DiscrepancyKind, used_llm : BOOLEAN]
HumanReviewItem ==
    [invoice_id : TaskIds, analyst_proposal : Proposals,
     validator_decision : Decisions]
ReconciliationRunResult ==
    [status : {"completed", "halted"}, start : 0 .. Len(Invoices),
     resume_index : 0 .. Len(Invoices), closed_invoice_ids : Seq(TaskIds),
     human_review : Seq(HumanReviewItem)]

Outcomes == {"none", "running", "returned", "crashed", "provider_error",
             "validation_error", "routing_error", "duplicate_run", "no_such_run"}

\* Every variable keeps its type; a position is only dereferenced while the
\* call is at an invoice, a route only when it leads to a model.
TypeOK ==
    /\ run \in RunRow
    /\ log \in Seq(LogRow)
    /\ guard \in GuardState
    /\ pc \in ControlPoints
    /\ idx \in 0 .. Len(Invoices)
    /\ pc \notin {"idle", "loop", "returning"} => idx \in Positions
    /\ proposal \in Proposals
    /\ decision \in Decisions
    /\ closed \in Seq(TaskIds)
    /\ human_review \in Seq(HumanReviewItem)
    /\ llm \in [route : Routes, tokens : Nat]
    /\ pc \in {"calling", "recording"} => Configured(llm.route)
    /\ providers \in SUBSET {"analyst", "validator"}
    /\ segment \in [start : 0 .. Len(Invoices), tokens : Nat, reused : BOOLEAN]
    /\ results \in Seq(ReconciliationRunResult)
    /\ outcome \in Outcomes
    /\ calls \in 0 .. MaxCalls

-----------------------------------------------------------------------------
(* The checkpoint.                                                         *)

DecidedInLog(i) ==
    \E k \in DOMAIN log : log[k].step_index = i /\ log[k].to_state \in Terminal

\* The checkpoint of the row never passes an invoice whose verdict is not in
\* the log, and a completed run has a verdict for the whole batch, whatever
\* crashed, raised or halted on the way (halt_run, complete_run).
CheckpointDecided ==
    /\ \A i \in Positions : i < run.resume_index => DecidedInLog(i)
    /\ run.status = "completed" => \A i \in Positions : DecidedInLog(i)

\* The induction behind it: a call that is at idx has left verdicts for
\* everything before idx, in this call or in an earlier one.
PassedIsDecided ==
    pc # "idle" => \A i \in Positions : i < idx => DecidedInLog(i)

\* The induction behind it: a call is never behind the checkpoint.
CallIsPastCheckpoint == pc # "idle" => idx >= run.resume_index

\* The checkpoint never moves back, and only a halt moves it.
CheckpointMonotone ==
    [][ /\ run'.resume_index >= run.resume_index
        /\ run'.resume_index # run.resume_index => run'.status = "halted" ]_vars

-----------------------------------------------------------------------------
(* The result of a call.                                                   *)

Ids(S) == {Invoice(i).invoice_id : i \in S}

\* At every moment of a call the invoices it has passed, from its start
\* index on, are exactly those in its two result lists, one entry each.
CallAccountsForItsInvoices ==
    pc # "idle" =>
        /\ Ids(segment.start .. idx - 1) =
               {closed[k] : k \in DOMAIN closed}
               \cup {human_review[k].invoice_id : k \in DOMAIN human_review}
        /\ Len(closed) + Len(human_review) = idx - segment.start

\* No invoice is in two results the caller received for one run, unless it
\* resumed the run after a result that said "completed".
NoInvoiceDeliveredTwice ==
    \A m, n \in DOMAIN results :
        m < n => \/ results[m].resume_index <= results[n].start
                 \/ \E k \in m .. n - 1 : results[k].status = "completed"

\* What the checkpoint skips has been delivered to the caller (a crash
\* between the commit of the halt and the return is what breaks this).
SkippedMeansDelivered ==
    pc # "returning" =>
        \A i \in Positions : i < run.resume_index =>
            \E n \in DOMAIN results :
                results[n].start <= i /\ i < results[n].resume_index

\* Nothing that was closed is opened again by a later call.
NothingClosedIsReprocessed ==
    \A j, k \in DOMAIN log :
        j < k /\ log[j].step_index = log[k].step_index =>
            log[j].to_state # "closed"

-----------------------------------------------------------------------------
(* The verdicts.                                                           *)

\* Whatever the provider answers, an invoice whose nearest job is on an
\* unreadable date or more than the Validator's tolerance away is not closed.
DoubtfulDateNeverClosed ==
    \A k \in DOMAIN log :
        log[k].to_state = "closed" =>
            ValidatorFinding(Invoice(log[k].step_index))
                \notin {"date_drift", "unparseable_date"}

\* The induction behind it: a decision that agrees is about a date within
\* the tolerance, or about no date at all, from the moment it is made.
ApprovalIsSound ==
    /\ pc \in {"judged", "approved"} /\ decision.agrees =>
           ValidatorFinding(Current) \notin {"date_drift", "unparseable_date"}
    /\ pc = "approved" => decision.agrees
    /\ pc \in {"escalated", "confirmed"} => ~decision.agrees

\* A verdict in the log rests on the row before it: closed on an approval of
\* the same invoice, human_review on an escalation of it or on the cap.
VerdictFollowsValidator ==
    \A k \in DOMAIN log :
        /\ log[k].from_state = "validator_approved" \/ log[k].to_state = "closed" =>
               /\ k > 1
               /\ log[k].to_state = "closed"
               /\ log[k - 1].to_state = "validator_approved"
               /\ log[k - 1].step_index = log[k].step_index
        /\ log[k].from_state = "validator_escalated" =>
               /\ k > 1
               /\ log[k].to_state = "human_review"
               /\ log[k - 1].to_state = "validator_escalated"
               /\ log[k - 1].step_index = log[k].step_index

\* The induction behind it: the last row is the verdict the control point
\* comes from.
LastRowIs(state) ==
    /\ log # <<>>
    /\ log[Len(log)].to_state = state
    /\ log[Len(log)].step_index = idx

ControlFollowsLog ==
    /\ pc = "approved" => LastRowIs("validator_approved")
    /\ pc \in {"escalated", "confirmed"} => LastRowIs("validator_escalated")
    /\ pc \in {"calling", "recording"}
       /\ llm.route = "disagreement_writeup_escalated" =>
           LastRowIs("validator_escalated")

\* The expensive tier is only used after the mid tier wrote up the same
\* disagreement.
ExpensiveFollowsMid ==
    \A k \in DOMAIN log :
        log[k].model_tier = "expensive" =>
            /\ k > 1
            /\ log[k - 1].model_tier = "mid"
            /\ log[k - 1].step_index = log[k].step_index

\* The cap's item apart, what a person is told of an invoice is what the
\* Validator's own checks found, whatever the providers answered.
ReviewCarriesFinding ==
    \A k \in DOMAIN human_review :
        \E i \in Positions :
            /\ human_review[k].invoice_id = Invoice(i).invoice_id
            /\ \/ human_review[k].validator_decision.discrepancy =
                      ValidatorFinding(Invoice(i))
               \/ /\ human_review[k].analyst_proposal = CappedProposal
                  /\ human_review[k].validator_decision = CappedDecision

\* The induction behind it: the finding survives both write-ups.
DecisionIsFinding ==
    /\ pc \in {"judged", "escalated", "confirmed"} =>
           decision.discrepancy = ValidatorFinding(Current)
    /\ pc \in {"calling", "recording"}
       /\ llm.route = "disagreement_writeup_escalated" =>
           decision.discrepancy = ValidatorFinding(Current)

-----------------------------------------------------------------------------
(* The guardrails.                                                         *)

\* No agent calls a provider for an invoice the checks settle: the Analyst
\* decides it, and the Validator's own checks cannot disagree.
OnlyAmbiguityCallsModels ==
    pc \in {"calling", "recording", "capped"} =>
        AnalystVerdict(Current) = "ambiguous"

\* While a call goes on, its run is within the budget or this call has
\* recorded nothing: at most one recorded answer goes past the budget.
SpendStopsAtBudget ==
    pc \notin {"idle", "halting", "returning"} =>
        run.tokens_used <= guard.token_budget \/ run.tokens_used = segment.tokens

\* The induction behind it: a run that was never started has no past.
AbsentRunIsBlank ==
    /\ ~RunExists => run.tokens_used = 0 /\ run.resume_index = 0
    /\ pc # "idle" => RunExists

\* With room for the three LLM steps of one pass, no task hits the cap
\* under Guardrails that served no earlier call.
CapNeedsReusedGuardrails ==
    pc = "capped" /\ MaxIterationsPerTask >= 3 => segment.reused

\* The inductive invariant of the proofs.
Induction ==
    /\ TypeOK
    /\ PassedIsDecided /\ CheckpointDecided /\ CallIsPastCheckpoint
    /\ ApprovalIsSound /\ DoubtfulDateNeverClosed
    /\ ControlFollowsLog /\ VerdictFollowsValidator
    /\ AbsentRunIsBlank /\ SpendStopsAtBudget
    /\ DecisionIsFinding /\ ReviewCarriesFinding

\* Control points a call still has to pass: those of each invoice ahead of it
\* (StagesOfInvoice leaves room for all of them), and those of the current one.
StagesOfInvoice == 20

StagesAsking ==
    [ambiguous_discrepancy |-> 13, disagreement_writeup |-> 8,
     disagreement_writeup_escalated |-> 4]

StagesAhead ==
    [loop |-> 16, analyze |-> 15, proposed |-> 12, handover |-> 11, validate |-> 10,
     judged |-> 7, approved |-> 6, escalated |-> 6, confirmed |-> 3, capped |-> 3,
     halting |-> 2, misrouted |-> 1, returning |-> 1]

StagesHere ==
    IF pc = "calling" THEN StagesAsking[llm.route] + 1
    ELSE IF pc = "recording" THEN StagesAsking[llm.route]
    ELSE StagesAhead[pc]

StagesLeft == StagesOfInvoice * (Len(Invoices) - idx) + StagesHere

\* No step leads a call back to where it was: neither a write-up that follows
\* another one, nor a capped, a halted or a refused task goes round again, so
\* that the batch bounds the steps of a call, whatever answers it gets.
CallsGetShorter ==
    [][pc # "idle" => pc' = "idle" \/ StagesLeft' < StagesLeft]_vars

\* Every call of the reconciliation comes back to its caller.
CallsEnd == pc # "idle" ~> pc = "idle"

-----------------------------------------------------------------------------
(* Callers and batches for which more can be promised: the hypotheses of   *)
(* three of the theorems.                                                  *)

\* No two invoices of the batch share an id: check_iteration counts by id.
DistinctIds ==
    \A i, j \in Positions : Invoice(i).invoice_id = Invoice(j).invoice_id => i = j

\* The batch, the routing tables and the providers of calls that always
\* return a result.
CallsReturn ==
    /\ Faults = {}
    /\ \A i \in Positions : NameAccepted(Invoice(i))
    /\ \A table \in Routings, route \in Routes :
           table.routes[route] # "unset" /\ table.tiers[table.routes[route]] # "unset"

\* A caller that resumes what was halted, and nothing else.
ResumesHalted == ResumedStatuses \subseteq {"halted"}

-----------------------------------------------------------------------------
(* Statements of the documentation the code does not meet.                 *)

\* "resumable from this checkpoint": resuming a halted run is not refused
\* (docs/architecture/orchestration-topology.md:41).
HaltedRunIsResumable == ~(run.status = "halted" /\ outcome = "duplicate_run")

\* "Disagreement ... always escalates -- never a silent override": an
\* invoice with a logged escalation is not closed later in the run
\* (src/orchestration/pipeline.py:9).
EscalationIsFinal ==
    \A j, k \in DOMAIN log :
        /\ j < k
        /\ log[j].step_index = log[k].step_index
        /\ log[j].to_state = "validator_escalated"
        => log[k].to_state # "closed"

=============================================================================
