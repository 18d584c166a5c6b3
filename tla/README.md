# Specifications of the pavedroad-playbook pipelines

TLA+ modules, TLC runs and TLAPS proofs about the programs of this repository:
the invoice **reconciliation run** (`src/orchestration`), **entity resolution** with
its review queue and tool server (`src/interop`), the **evaluations** that score and
cost both (`src/evals`), and the **synthetic data** they are scored on
(`data/kestrel`). Paths below are relative to the repository's root.

## 1. The system

`resolve_dataset` reads three exports (CRM, billing, PSA), builds a registry of
canonical customers from the CRM rows and places the other records with them, by
key, by name, by asking an LLM, or in a queue for a person. Its report feeds a
`KestrelToolServer`, from which the two agents of `reconcile_invoices` get
customers and jobs. The run goes through a batch of invoices; the Analyst proposes,
the Validator checks, and the invoice is closed or handed to a person. Every
step is committed to a SQLite log, every LLM call is counted and paid through
`Guardrails`, and a run that exceeds its budget halts at a checkpoint from which
`resume_reconciliation` continues. The evaluations generate customers and invoices
whose truth is known, run both programs on them, and compare.

| component | state | operations | what makes it correct |
|---|---|---|---|
| pipeline (`orchestration/pipeline.py`) | the loop's locals | start, resume; per invoice: analyze, validate, close, escalate, cap; halt, complete | the checkpoint skips nothing undecided; the result says what the call did; a verdict rests on the Validator |
| agents (`agents.py`) | none | `analyze`, `validate`, `confirm_escalation` | clear-cut cases cost nothing; doubtful dates reach a person; the finding that reaches a person is the Validator's |
| guardrails (`guardrails.py`, `routing.py`, `adapters/pricing.py`) | call records, steps per task | `check_iteration`, `route`, `record_usage`, `cost_report` | spend stops at the budget; the cap hits only what runs away; the report covers the call |
| state store (`state_store.py`) | `runs`, `state_transitions` | `start_run`, `record_usage`, `log_transition`, `halt_run`, `complete_run` | committed rows survive a crash; the checkpoint never moves back |
| matcher (`interop/deterministic.py`, `normalize.py`) | registry, account index | `resolve_crm_self`, `resolve_billing_record`, `resolve_psa_record`, `attach` | customers stay apart; keys win over names |
| resolution (`interop/resolve.py`, `llm_resolution.py`) | outcomes | the cascade | every record is placed once or waits |
| review queue (`interop/review_queue.py`) | items | `add`, `resolve` | what waits is what was not placed |
| tool server (`interop/tools.py`) | job index | `lookup_customer`, `get_customer_jobs`, `list_review_queue` | serves what the registry holds, under the names the resolver used |
| evaluation (`evals/`) | points of the frontier | `score_reconciliation`, `score_entity_resolution`, `run_cost_accuracy_frontier` | a completed run can be scored; a score says what the run did, whatever the tier |
| data (`data/kestrel/`) | none | `generate_kestrel_dataset`, `generate_golden_invoices` | a label is what the checks should find |
| adapters, quickstart, playbook | none that lasts | | see section 7 |

**How they interact.** Everything is a synchronous call in one thread; nothing is
shared between threads. What makes the behaviour hard is (a) the points at which
a call can end early: a crash between two commits, an exception of a provider, of
an input schema or of a routing table, a budget breach after any of three LLM calls,
the iteration cap before any of them; (b) what survives: the database file survives
a crash, a `Guardrails` instance survives an exception but not a crash, results and
locals survive neither; (c) what is repeated: a resumed call takes up the interrupted
invoice from the beginning, asks the provider again and may get another answer;
(d) an LLM that may answer anything, including ids nobody gave it.

`PROJECT.json` lists the hazards at their lines with the properties aimed at them.

## 2. Modules

| module | models |
|---|---|
| `Agents` | the agents' checks as operators over an invoice and the tool server's answers, including the parsing of the provider's answer |
| `StateStore` | the `runs` row of one run and its log; each operation is one statement and its commit |
| `Guardrails` (extends `StateStore`) | one instance: budget, routing table, steps per task, call records; prices |
| `Pipeline` (extends `Agents`, `Guardrails`) | the run: one action per stretch of code between two points where a crash, an exception or an answer matters |
| `PipelineProperties` | type invariant, invariants, action properties, liveness; statements of the documentation |
| `CostReport` | `cost_report` over the records of an instance, and what it says of the run |
| `ReconciliationLedger` | the abstract specification: verdicts in batch order, checkpoint, completion |
| `PipelineRefinement` | the mapping of the run to the ledger |
| `MCPipeline` | batches and tables for TLC |
| `Scoring` | `score_reconciliation`: labels predicted by a result, counted against the golden ones |
| `Frontier` (extends `CostReport`, `Scoring`), `MCFrontier` | one corpus reconciled, scored and costed once per routing table |
| `Golden` (extends `Agents`) | the invoice generator: one clean or spoilt invoice per job, with its label |
| `AgentsChecks` (extends `Golden`) | every small invoice and job list, and every golden invoice of them, against definitions that do not follow the code |
| `Matcher`, `ReviewQueue` | the registry with its account index; the queue |
| `Resolution` (extends both) | the cascade, the tool server's job index, the reviewers |
| `ResolutionProperties`, `MCResolution` | its properties; the datasets and the similarity table |
| `CustomerPartition` | the abstract specification: each row of the export founds a customer, joins one for good, or waits |
| `ResolutionRefinement` | the mapping of the resolver to the partition |
| `Kestrel` | the corpus generator with its ground truth |
| `EntityScore` (extends `ResolutionProperties`) | a resolution of a corpus whose truth is known, and its pairwise score |
| `MCKestrel` | the instances: generated corpora are the datasets whose truth is known |
| `Selections` | what a loop over a list keeps and what it adds up, as recursive functions |
| `PipelineProofs` | the theorems about the run's types, checkpoint, verdicts and spend |
| `PipelineCallProofs` (extends it) | those about its LLM calls, the cap and the cost report, the results its callers receive, and the refinement of the ledger |
| `FrontierProofs` (extends both) | the theorems about the cost-vs-accuracy report |
| `AgentsProofs`, `AgentsChecksProofs` | lemmas about the agents' checks; the theorems about verdicts and golden labels |
| `ResolutionProofs` | the theorems about entity resolution and the tool server, and the refinement of the partition |
| `EntityScoreProofs` (extends it) | the theorems about the score |
| `Minima` | lemmas they share: least elements of finite sets, the first of the least or of the greatest, what a selection and a sum of a list are |

**From code to `Pipeline`.** `pc` names the place in the code: `loop` is the
`for` statement; `analyze`, `proposed`, `handover`, `validate`, `judged`,
`approved`, `escalated`, `confirmed` follow the body of the inner `try`;
`calling` and `recording` are inside an LLM call, `misrouted` is a call whose route
leads to no model; `capped` and `halting` are the two `except` clauses; `returning`
is the `return`; `idle` is no call at all. `idx`, `proposal`, `decision`, `closed`
and `human_review` are the code's locals, `llm` the call in progress, `run` and
`log` the two tables, `guard` the `Guardrails` of the process. `segment`, `results`
and `outcome` are history the properties read: what held when the call entered the
loop, what its caller has received, and how the last call ended. Each commit of the
store is one step, so that a crash may fall before or after it. `Routings` is any set
of tables, also tables with a missing tier or route: `load_routing_table` checks
nothing but types, so a gap shows when a call is first routed through it, after the
step was counted.

**What is abstracted.** Tokens are one number (input plus output). A call costs that
number times the price of its model; every priced model asks the same multiple for
output, so one price per model orders them as the code does. The store's cost column,
timestamps, thought processes, confidences and rationales are left out, because no code
reads them back. Dates are day numbers or `None`; amounts and rates are whole units, the
scores `Agents` compares with its threshold hundredths. `BestMatch` and `JobsOf` are
constants: the tool server is built once and never changes while runs use it. The names
a batch holds but `BestMatch` does not are those `CustomerLookupInput` refuses. One run
is modelled; runs share nothing but the counters of a reused `Guardrails`, which a
resumed call shares in the same way.

**From code to `Frontier`.** `stage` is the place in `run_cost_accuracy_frontier`:
`between` two configurations, `opened` when the next one has a store and guardrails of
its own, `running` while its corpus is reconciled by the actions of `Pipeline`, `raised`
when an exception, or the scorer's `ValueError` for a corpus that was not finished, ends
the report. Each configuration is a run of its own, under an id `reconcile_invoices`
draws for it, so `run` and `log` start empty. `points` is the list it returns. Accuracy,
precision and recall are kept as the counts they are quotients of.

**From code to `Resolution`.** The registry is a sequence because canonical ids
are numbered in the order of creation; the three loops of `resolve_dataset` are
one sequence of records; the next record is the one after the outcomes, since
every record yields one. `Similarity` is a constant table in ten-millionths, fine enough
to keep apart any two ratios of names of up to 200 characters. `Best` stands for
`_best_registry_match` and for the head of `candidates_for_name`: both keep the
first of the highest scores. `lookup_customer` does not: it rounds each score to four
decimals (`Rounded`) and sorts by the rounded ones, so customers can tie there whose
scores differ. `CustomerLookupInput` is the set of names its input schema accepts; the
properties about lookups speak of those. An LLM answers with any id of `ReplyIds`, known or
not, and any confidence; text that does not parse is the answer `None`. After the
report a reviewer may close any item, again and again, with any id, since
`ReviewQueue.resolve` checks nothing.

**From code to `Golden` and `Kestrel`.** The seeded random choices are any choice
within their ranges, so `GoldenInvoices` and `generate_kestrel_dataset` are the sets
of everything any seed can give for the named constants. Fields that nothing compares
(contacts, addresses, technicians, dates of accounts) are left out. `EntityScore` adds
the ground truth as a variable that no step of the resolver reads; its corpora are the
constant `KestrelDatasets`, which the run gives the value `GeneratedDatasets`.

## 3. Runs

| run | question | bounds |
|---|---|---|
| `PipelineFaults` | what stays true under every fault, and the refinement of the ledger | three invoices (clean, a date in the gap between the two tolerances, a distant date), budgets 3 and 9, calls of 1 or 2 tokens, three calls, three LLM steps per task, crashes and provider errors, resumption from every status |
| `PipelineHalts` | what halting and resuming alone guarantee | the same invoices, every choice of providers, budgets 2, 4, 20, no fault, only halted runs are resumed |
| `PipelineEnds` | does every call come back, and by steps that never go round | a doubtful date, an unreadable one and a refused name; shipped and broken routing tables, every choice of providers, every fault, budgets 1 and 4, a cap of two steps, two calls |
| `Frontier` | what a routing table can change and what it cannot | eight invoices, one per path through the agents; all-cheap, all-expensive, shipped, and shipped without the escalated route; budgets 9 and 100; provider errors |
| `AgentsChecks` | are the checks right at their edges, and do golden labels say what they find | up to two jobs per customer, dates on both sides of both tolerances and unparseable, amounts at the tolerance, -1, 0 and 1 days, scores on both sides of the threshold; golden invoices of 1 or 5 days, 120 or 150 percent, drifts of 3, 4 and 10 days |
| `Resolution` | entity resolution, server, reviews and score, and the refinement of the partition | every CRM export of up to two of five names or three of the alike ones, a billing row with a known, an unknown or no key, two PSA rows with or without a name, any LLM answer, provider errors; two customers with names so long that their scores against a third one tie when rounded, in both orders; and every generated corpus of two customers with one job each, up to two variants of a name, duplicates in the CRM |

Six runs check a statement of the documentation and find it violated (`findings`
in `PROJECT.json` quotes them):

| run | what happens |
|---|---|
| `HaltAtFirstInvoice` | a run halted at index 0 cannot be resumed: the resumed call starts at 0, inserts the row again and fails with an `IntegrityError` |
| `OverriddenEscalation` | the budget ends a run between the logged escalation and its confirmation; the resumed call judges the invoice again and closes it |
| `ReprocessedInvoice` | only a halt writes the checkpoint: after a crash in a resumed call, invoices it had closed are processed again |
| `LostResolution` | one LLM answer with an unknown id raises `KeyError` out of `resolve_dataset`; every outcome is lost |
| `AgreedLabels` | an invoice closed on a discrepancy both agents agree on (a wrong amount, say) is scored as "none" (`src/evals/reconciliation.py:34`) |
| `TiersDiverge` | a corpus with drifts of two and three days, which `tests/evals/test_cost_frontier.py:107` expects to make the tiers diverge: they escalate differently and score alike |

**Why the bounds are enough.** Three calls are the first number at which a
checkpoint of a resumed call is resumed. Two invoices give a checkpoint something to
skip and something to leave; the third gives a halt a middle. The budgets are
chosen so that a halt can fall on each of the three LLM steps of each invoice, and
the cap of two lets it fall on each as well. In `Frontier` the large budget lets a
corpus finish and the small one halts it at its third or fourth call. In `Resolution`
three CRM rows are enough for a name that resembles two customers which do not
resemble each other. Bounds are named constants: `MaxCalls` bounds the caller,
`MaxJobs` a job list; no other guard bounds anything.

`CHECK_DEADLOCK FALSE` is set where the system may stop: a caller need not call again,
a resolution that raised is over, a frontier report is returned. `AgentsChecks` has no
such setting.

**Properties worth knowing.**

- The checkpoint. `CheckpointDecided`: it never skips an invoice without a verdict in
  the log. `SkippedMeansDelivered`: what it skips, the caller has received; checked and true
  without crashes only, since a crash between the commit of a halt and its return
  loses the result. `NothingClosedIsReprocessed` holds without crashes and provider
  errors and fails with them.
- The result. `CallAccountsForItsInvoices`: at every moment the two result lists hold
  exactly what the call has passed. `NoInvoiceDeliveredTwice`: results of one run do
  not overlap. `ReviewCarriesFinding`: what a person is told is the Validator's own
  finding, through both write-ups and every resume.
- The spend. `SpendStopsAtBudget`: a call that goes on is within the budget or has
  recorded nothing, so a run overspends by at most one call per resume.
  `CapNeedsReusedGuardrails`: with three steps allowed, only counters carried over
  from an earlier call can make a task hit its cap. `ReportCoversCall`: the report of
  new guardrails adds up, over its tiers, to what the row of the run gained.
  `OnlyAmbiguityCallsModels`: nothing but a doubtful date costs a token.
- Its end. `CallsGetShorter`: whatever happens, each step of a call takes it nearer to
  its end, by a measure the batch bounds; `CallsEnd`: it gets there.
- The frontier. `ConfigsScoreAlike`: no routing table and no answer of a model changes
  a score. `CallsFollowEscalations`: one paid call per doubtful date, two per
  escalation, on the tiers of the table. `LogNamesCallTiers`: under the shipped table
  the log's tiers are those of the paid calls. `CompletedIsScored`: a completed
  run has a label for every invoice of the golden set, so it can be scored.
- The labels. `ProviderDecidesOnlyTheGap`: what the provider says matters for dates two
  or three days off and for nothing else. `CleanGoldenIsSettled`,
  `InjectedDiscrepancyIsFound`: a golden label is what the checks find, whatever other
  jobs the customer has, but for the cases section 6 names.
- Resolution. `ImplementsPartition`: a row founds a customer only if it resembles no
  founder, joins one it has a key for or resembles, or else joins by judgement or
  waits; nothing moves a row again. So likeness does not chain: a row placed by its
  name resembles the name of the customer's first row, not of one that was merged
  later. `OutcomesExplainRegistry`, `UnplacedWaitForReview`: registry, outcomes
  and queue tell one story. `KeyFollowsAccount`: foreign keys survive merging.
  `CustomerFoundByOwnName`, `NamedJobIsFoundUnderItsName`: three components compare
  names with a threshold of their own (0.85, 0.5, 0.75), and a customer or a job
  placed by a name is still found under it; what can come before the customer that
  holds the job is an earlier one whose score rounds to the same (section 6), and nobody
  comes before a customer looked up by its own name. `FalsePairsNeedLookalikes`: without
  similar names a false pair goes through a record the LLM placed.
  `KeyedPairsAreRecalled`, `ScoreMeetsQueue`: what the scorer counts as found is what
  has a key; what it does not count, waits for a person.

## 4. Fairness

`FairSpec` of `Pipeline` assumes weak fairness of `ProgramStep`, the steps of a
call in progress: one thread runs it, nothing blocks but a provider, and the
clients of `src/adapters` answer or raise within their timeouts. Crashes, provider
errors and the caller's decisions are not fair: nobody owes the caller a resume.
`CallsEnd` is the liveness property checked under it. It has two halves: that no step
leads back (`CallsGetShorter`), which needs no fairness and is proved, and that a call
in progress takes a step, which is what the fairness says. Nothing else is fair.

## 5. Proofs

A theorem holds for every value of the constants that meets the assumptions below:
every batch, job list, budget, routing table, cost of a call, set of providers, set of
faults and bound; every similarity table, export and choice of LLM answers.

| theorem of the run | states | strengthened by |
|---|---|---|
| `TypeCorrect` | `TypeOK` | |
| `CheckpointCorrect` | `CheckpointDecided` | `PassedIsDecided` |
| `CheckpointIsMonotone` | `CheckpointMonotone` | `CallIsPastCheckpoint` |
| `DoubtfulDatesEscalate` | `DoubtfulDateNeverClosed` | `ApprovalIsSound` |
| `VerdictsFollowValidator` | `VerdictFollowsValidator` | `ControlFollowsLog` |
| `BudgetRespected` | `SpendStopsAtBudget` | `AbsentRunIsBlank` |
| `ReviewsCarryFindings` | `ReviewCarriesFinding` | `DecisionIsFinding` |
| `InductionHolds` | `Induction`, the conjunction of the above | |
| `MidBeforeExpensive` | `ExpensiveFollowsMid` | `TierTrail` |
| `OnlyDoubtCosts` | `OnlyAmbiguityCallsModels` | `AmbiguityTrail` |
| `FreshGuardrailsNeverCap` (`DistinctIds`) | `CapNeedsReusedGuardrails` | `CapTrail` |
| `ReportsCoverTheirCalls` | `ReportCoversCall` | `AbsentRunIsBlank` |
| `CallsAccountForInvoices` | `CallAccountsForItsInvoices` | `CallExtent` |
| `CallsAreFinite` | `CallsGetShorter` | `TypeOK` |
| `ResultsDoNotOverlap` | `NoInvoiceDeliveredTwice` | `DeliveryTrail` |
| `SkippedWasDelivered` (no crash) | `SkippedMeansDelivered` | `CoverTrail` |
| `ClosedStaysClosed` (`CallsReturn`, `ResumesHalted`) | `NothingClosedIsReprocessed` | `RoutesResolve`, `ClosedIsBehind` |
| `RunImplementsLedger` | `ImplementsLedger` | `AbsentRunIsBlank` |

| theorem of the frontier | states | strengthened by |
|---|---|---|
| `OnlyFailuresLoseReports` | `CompletedIsScored` | `LabelTrail`, `EndTrail` |
| `TablesDoNotMoveScores` | `ConfigsScoreAlike` | `LabelTrail`, `EndTrail`, `ScoreTrail` |
| `RowsNameTheirCalls` | `LogNamesCallTiers` | `RowsTrail` |
| `EscalationsArePaidOnce` | `CallsFollowEscalations` | `PaidTrail` |

| theorem of the checks | states |
|---|---|
| `VerdictsAreAgreed` | `ClearCutVerdictsAreAgreed` |
| `GapIsTheProviders` | `ProviderDecidesOnlyTheGap` |
| `OffAmountsAreStopped` | `OffAmountIsNeverClean` |
| `CleanInvoicesSettle` | `CleanGoldenIsSettled` |
| `InjectedIsFound` | `InjectedDiscrepancyIsFound` |
| `NearestIsScanned` | `NearestIsHeadOfStableSort` |

| theorem of resolution | states | strengthened by |
|---|---|---|
| `CustomersNeverAlike` | `CustomersStayApart` | `Typed` |
| `KeysSurviveMerging` | `KeyFollowsAccount` | `AccountsIndexed` |
| `NamesFindTheirBest` | `PlacedByNameIsBest` | `NamedIsPlaced` |
| `OwnNameFindsCustomer` | `CustomerFoundByOwnName` | |
| `StateIsTyped` | `TypeOK` | `RecordsTraced` |
| `RegistryIsExplained` | `OutcomesExplainRegistry` | `RecordsTraced` |
| `UnplacedAreQueued` | `UnplacedWaitForReview` | `RecordsTraced` |
| `ServerListsWhatIsHeld` (`DistinctJobs`) | `ServerAgreesWithRegistry` | `ServerFrozen` |
| `NamedJobsAreFound` (`DistinctJobs`) | `NamedJobIsFoundUnderItsName` | `NamedLead`, `ServerFrozen` |
| `LikenessDoesNotChain` | `NoChainedMerges` | `Reasoned` |
| `ResolverImplementsPartition` | `ImplementsPartition` | `Reasoned`, `FoundersFirst` |

| theorem of the score | states | strengthened by |
|---|---|---|
| `KeysAreRecalled` | `KeyedPairsAreRecalled` | `TruthIsOfRows` |
| `PrecisionNeedsLookalikes` | `FalsePairsNeedLookalikes` | `Reasoned`, `TruthIsOfRows` |
| `NothingIsLostUnscored` | `ScoreMeetsQueue` | `RecordsTraced`, `TruthIsOfRows` |

**Assumptions.** TLC evaluates each of them in every run that extends its module.

- `PipelineAssumption`: types of the constants; the batch is a finite sequence.
- `AgentsAssumption`: positions of a job list are numbers, dates are days or `None`.
- `AgentsChecksAssumption`: job lists are sequences, `None` is no day, a rate is at
  least 7 (the model rounds an overbilled amount down to whole units, and below 7 that
  could bring it back within the tolerance; the code's rates start at 150), and the
  unknown name resolves to nobody. `GoldenAssumption`: the ranges of `invoices.py`.
- `FrontierAssumption`: what `run_cost_accuracy_frontier` is given: invoices of distinct
  ids with names the schema accepts, a label for each, both providers, and three LLM
  steps or more per task (the default is 5).
- `ResolutionAssumption`: types, a name scores 1.0 (`Certain`) against itself
  (`name_similarity` of equal names), the names a lookup accepts are names, only a PSA
  row lacks a name, `None` is no name, and the CRM rows come first, as the three loops
  of `resolve_dataset` have it. Nothing else of `Similarity` is assumed: not symmetry,
  which the code's ratio does not have, and no triangle inequality.

- `EntityScoreAssumption`: what the generator makes of a corpus: no two rows share a
  system and a record id, each row has one link of the ground truth and each link a row,
  and a billing row that names an account belongs to that account's customer. TLC
  evaluates it on the corpora of `MCKestrel`.

**Hypotheses.** Five theorems need more of the caller, and say so in their statement.
`DistinctIds`: the counters of `Guardrails` go by invoice id, so two invoices of one
id share their steps. `DistinctJobs`: `record_to_canonical` is a dict by record id, so
the later of two jobs of one id decides for both. No crash: `SkippedMeansDelivered`
is false with one. `CallsReturn` (no fault, names the schema accepts, tables without
gaps) and `ResumesHalted`: `NothingClosedIsReprocessed` is false without. TLC
evaluates them in the instances whose runs check these properties (`MCHypotheses`,
`MCHypothesis`); the run `ReprocessedInvoice` shows what happens without `CallsReturn`.

**The argument about the run.** Each invariant is strengthened by the one fact about
control that makes it inductive; those of `PipelineProofs` are the conjuncts of
`Induction`.
`CheckpointDecided` needs `PassedIsDecided` (everything before `idx` has a verdict
in the log, from this call or an earlier one), because a halt writes `idx`. For a call
that starts at the checkpoint this is `CheckpointDecided` itself, so the two are
proved together. `DoubtfulDateNeverClosed` needs that the decision at `approved` is
the Validator's own finding, and `ReviewCarriesFinding` that the finding survives the
write-ups. `VerdictFollowsValidator` needs that the last row of the log is the one the
control point comes from, also while an LLM is being asked; `ExpensiveFollowsMid`
needs the same of the tier of that row. `SpendStopsAtBudget` needs
that a run without a row is blank, since a start at index 0 sets the tokens to zero.
`OnlyAmbiguityCallsModels` is about every invoice, not about those of a run: lemma
`NearestExists` shows that the stable sort has a head, `CleanIsWithinStrict` that the
Analyst's tolerance lies within the Validator's, and `ClearCutIsAgreed` concludes that
the Validator agrees with every clear-cut proposal, so no disagreement and no write-up
follows one.

`CapNeedsReusedGuardrails` needs `CapTrail`, a potential: under guardrails of its own a
call has charged no step to an invoice ahead of it, and to the current one at most
the steps on the way to the control point, three at the last one (`StepsBy`).
`ReportCoversCall` is inductive with little more, but each step needs what one
more call record does to the sums of the report; the lemmas `CallsOfGrow`,
`TokensGrow` and `ReportGrows` take them tier by tier.

`CallAccountsForItsInvoices` needs `CallExtent` (a call starts where its
segment says and has not gone back), under which each end of an invoice appends one
entry. `NoInvoiceDeliveredTwice` needs `DeliveryTrail`: unless a completed result came
in between, every result ends at or before the start of the call in progress and at
or before the checkpoint. `SkippedMeansDelivered` needs `CoverTrail`: what the
checkpoint skips was delivered or is in the result about to be returned, and what the
call in progress skipped was delivered before it began.
`CallsGetShorter` is proved from the types with the variant `StagesLeft`: the stages an
invoice can still go through, for this invoice and each one after it. The stages ahead
of a control point are more than those ahead of any point it leads to, and an LLM
call counts from the point it will come back to, so the proof is one comparison per
action.
`NothingClosedIsReprocessed` needs that nothing raises (`RoutesResolve`), and that what
was closed lies behind the call or, between calls, behind the checkpoint.
The refinement proof maps a row in a terminal state to a recorded verdict; a halt, a
completion, and every way out of a call map to `Halt`, `Complete` and `Abandon`, and
all else stutters.

**The argument about the frontier.** `Frontier` extends `Pipeline`, so a step of its
running stage is a step of a run, and the step lemmas of the other modules are cited
for it: `RunTrail` gathers their invariants, and `StageTrail` says where one run ends
and the next begins on an empty store. `LabelTrail` says that what a run lists
as closed was closed with its label "none", and as reviewed with the finding of the
checks, so a completed run predicts the same labels whatever the providers answered,
and `ScoreTrail` says that every point has that score. `RowsTrail` says the tiers of
the call records are those of the log's rows, up to the one row that is owed while a
verdict is on its way. `PaidTrail` counts: one call on the ambiguous route for each
doubtful date passed, two write-ups for each escalation, and what the current
invoice has been asked so far; `Frontier` has no other calls, so at the end of a
completed run the counts are those of the report.

**The argument about the checks.** These theorems are about one arbitrary state: what
was drawn stays (`DrawnStays`). `NearestIsScanned` compares the head of a stable sort
with the result of one pass, for lists of any length (`ScanRuns`, `HeadMovesOn`). The golden
theorems go through the generator's cases (`GoldenFrom`): a clean invoice's own
job is a candidate at distance 0, so the nearest candidate is at distance 0 too, and
an overbilled amount stays outside the tolerance after rounding (`OverbillIsOff`).

**The argument about resolution.** `IInv` of `ResolutionProofs` holds types (`Typed`),
`AccountsIndexed` (an account of a handled CRM row is in the index, and the customer
the index names holds it) and `NamedIsPlaced` (an outcome by name is with a customer),
together with the three properties proved from it. The index is what a foreign key is
looked up in, so `KeyFollowsAccount` is inductive only with `AccountsIndexed`, and
merging keeps it because it extends the index and the list of the same customer.
`CustomersStayApart` is kept when a customer is added because the best score of its
name was below the acceptance threshold, and `BestIsBest`, from `FirstOfGreatest`,
says no customer scores more. `PlacedByNameIsBest` is kept because the registry does
not grow after the CRM rows. `CustomerFoundByOwnName` follows: a name scores
1.0 against itself, an earlier customer less than 0.85, rounded or not, and of equal
ones the first is taken. What a lookup finds is the first of the greatest rounded
scores (`FirstIsFound`); rounding keeps the order of scores (`RoundedMonotone`) and
leaves the thresholds alone (`RoundedBounds`), so in `NamedJobIsFoundUnderItsName` no
customer's rounded score exceeds the owner's, and whoever comes first ties with it.

A second invariant, `Traced`, is proved on top of `IInv`. `RecordsTraced` follows each
record into the registry and the queue: its outcome carries its id, the list of the
customer it was placed with is the selection of the outcomes that name the customer,
and the queue is the selection of those that name nobody. `NamedLead` says that a
record placed by name is with the first customer its name leads to, which lasts
because a later customer either scores less or comes later. `ServerFrozen` says that
a server is built from a finished report and stays what it was.

A third invariant, `Reasoned`, is why a record is where it is. `OutcomesJustified`: an
outcome no LLM gave names a customer that resembles the record or holds the account
its key names; `Founded`: every customer was created from a CRM row. `NoChainedMerges`
needs both, and that names of customers do not change.

**The argument about the partition.** A customer is mapped to the positions of the
outcomes that name it, and the queue to the positions of those that name nobody. The
abstract program looks at a customer's founder, its least position, where the code
looks at `registry[id].name`; `FoundersFirst` (with `Founded`) says they are the same
row. With that, the customers whose founder a row resembles are those that score at
least the threshold, so a merge or a match by name is a `JoinCustomer`, a new entity a
`FoundCustomer`, and a key leads to a customer that holds an account of it
(`HeldIsPlaced`). The LLM's answer is a `JoinCustomer` by judgement, which is open
because neither key nor name decided. Server and reviewers stutter, also when a review
changes the queue: a row whose review is closed stays unplaced.

**The argument about the score.** `TruthIsOfRows` ties the ground truth to the dataset
for the whole run, so a row's owner is the one its link names. `KeysAreRecalled`: a
finished report has an outcome for both rows, `KeyFollowsAccount` puts them with one
customer, and the assumption with one owner. `PrecisionNeedsLookalikes`: without
lookalikes the owner of every record no LLM placed is the owner of the row that founded
its customer: by name because they resemble each other, by key because the account it
names was itself placed with that customer by its name (CRM rows never reach the LLM).
So two such records of one customer have one owner.
`NothingIsLostUnscored` counts: outcomes correspond one to one to rows, rows to links
(`CountsAlike`), the queue has one item for each outcome that names nobody
(`SelectedCounts`), and the scorer counts the others.

**Loops over lists.** What `for x in s: if ...: append(x)` keeps is
`Selected(s, positions)`, and `sum(...)` is `Total(s)`, both recursive functions of
`Selections` that the provers can expand; the library's `SelectSeq` and folds have no
lemma that could be cited. Induction is not available (its theorems take an operator),
so the lemmas about them in `Minima` (`SelectedKeeps`, `SelectedAppend`, `TotalAppend`
and those they rest on) assume a counterexample and take the least position at which
it shows, by `LeastNatural`.

**Only model-checked.** Liveness (`CallsEnd`): fairness and `ENABLED` are beyond the
prover; of `CallsEnd` the half that can be stated without them is proved. That every
corpus of `Kestrel` meets `EntityScoreAssumption`, whatever the seed, is an induction
over the list of customers and over folds, with record ids made by `ToString`, of which
the provers know nothing; TLC evaluates it. Every other property of a passing run is
stated by a theorem.

**Only proved.** Three statements are in no cfg, because properties that are there
imply them or nearly do: `CheckpointMonotone` (the ledger moves its checkpoint only to
its cursor, which began there), `NoChainedMerges` (the homes of a row in the partition)
and `Induction` (its conjuncts are the properties of `PipelineFaults` and what they are
strengthened by).

## 6. Observations that no run states

- `from_state` of a capped task is always `analyst_reviewing`, although the cap can
  strike during the Validator's write-ups; the log of such a task does not replay,
  and the item for the reviewer says `no_matching_job` whatever was found.
- `routing.yaml:21` reserves the expensive tier for tasks that went through the cheap
  tier; in the code every disagreement reaches it, with or without a cheap call. What
  does hold is `ExpensiveFollowsMid`.
- `pipeline.py` writes the names of the tiers into the log itself, while the routing
  table is a configuration file so that "a route's tier assignment" can move
  (`routing.py:3-4`). Under any table but the shipped one the log names other tiers
  than the calls used.
- The Validator's date tolerance (3 days) is looser than the Analyst's (1 day),
  where `agents.py:15` and the comment at `agents.py:261` call it stricter.
- `TiersDiverge` is violated because `ConfigsScoreAlike` holds: a date within three days
  is closed and scored "none" if the Analyst's model calls it a match, and otherwise
  escalated with the Validator's finding, which is "none" too. So the equality that
  `docs/evals.md:49-59` ascribes to the corpus holds on every corpus.
- For the same reason a drift of exactly three days, labelled `date_drift`, cannot be
  predicted. A clean invoice of a job whose date does not parse reaches the ambiguous
  judgement although its label is "none"; `tests/support/fake_providers.py:93` assumes
  that only mismatches do. A phantom booking (`no_matching_job`) may coincide with a
  real job of the same customer. `InjectedDiscrepancyIsFound` excludes these cases.
- The detection recall of 0.143 (`README.md:103`) is in part the effect that the run
  `AgreedLabels` shows.
- A resumed call trusts the position it finds: nothing compares its batch with the
  batch of the run, and a reordered or shortened one is taken up at another invoice.
- An OpenAI-compatible endpoint that reports no usage costs 0 tokens, so the budget
  never stops it; an Anthropic model without a price raises a `ValueError` after the
  call was answered and before it was recorded.
- Equipment of a job comes through `sanitize`, which cuts it at 500 characters; an
  invoice's is compared as it is, so a longer one never matches its own job.
- A record whose name resembles no customer, or that meets an empty registry, is
  queued for having "no name or identifier" (`resolve.py:102`).
- `lookup_customer` is described as a search "by name or ID" (`tools.py:31`, `:151`);
  it compares names only.
- `lookup_customer` rounds its scores to four decimals before the stable sort
  (`tools.py:112`, `:116`), so of two customers whose scores differ in the fifth decimal
  the one registered first is listed first. The agents read only the first
  (`agents.py:103`) and then look for the job with a customer that does not have it, where
  `tools.py:152-153` promises "the best-matching canonical customers". Names of some 100
  characters do this: the long names of `MCResolution` score 0.91398 and 0.91403.
- A reviewer's decision is never attached to the registry, although
  `deterministic.py:45-47` says `attach` is public because it is called "after an
  LLM-assisted or human review decision": `ReviewQueue.resolve` marks the item, and nothing
  that outlives `resolve_dataset` holds the matcher.
- The id an LLM names is compared with no candidate list: an id of another customer
  is accepted.
- `bool()` reads the provider's `"is_match": "false"`, quoted, as a match; it is
  one of `Replies`.
- The row of a run whose call raised keeps the status `running` or `halted`;
  `failed` is never written. A refused name raises again on every resume.

## 7. Not modelled

- `src/adapters` beyond its prices: each adapter is one request in one vendor's format.
  The pipelines see an answer of some cost or an exception, and both are in `Pipeline`
  and `Resolution`. Modelling the adapters would repeat vendors' documents.
- `normalize.py` is the constant `Similarity`; the table in `MCResolution` holds the
  scores it computes for ten names, and for four long ones. String distance is data the
  properties do not tell apart.
- Reading `routing.yaml` (its library does it), the wording of prompts and reasons,
  `render_frontier_table`, the flags `sanitize.py` adds.
- Quotients (precision, recall, F1, accuracy): their counts are modelled.
- `examples/quickstart.py` calls the two pipelines once, in order; `playbook/` and
  `docs/` are prose and were read for what they promise.

## 8. What is left

1. The liveness properties, and the corpora of `Kestrel` for every seed (section 5,
   "Only model-checked").
2. The adapters' own request and response formats, with the unreported usage and the
   unpriced model of section 6, if the vendors' documents are to be modelled.
