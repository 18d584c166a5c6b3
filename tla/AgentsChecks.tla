---------------------------- MODULE AgentsChecks ----------------------------
(***************************************************************************)
(* The agents' checks, evaluated over every small invoice and job list and *)
(* compared with definitions that do not follow the code, and over every   *)
(* invoice of the golden generator with the label it carries.  A state is  *)
(* one invoice and one thing the provider may say of its date.             *)
(***************************************************************************)
EXTENDS Golden

CONSTANTS
    Equipment,    \* equipment names on invoices and jobs
    JobDates,     \* dates of jobs, None among them
    BilledDate,   \* service date of the invoices
    Amounts,      \* billed amounts
    Days,         \* billed days, zero and negative ones included
    Scores,       \* match scores
    MaxJobs       \* bound on the jobs of one customer

VARIABLES
    invoice, reply,
    golden        \* the label and the job of a generated invoice

\* Job lists are sequences, rates whole units.  A rate under 7 would let an
\* overbilled amount be rounded down into the tolerance; the rates of the code
\* start at 150.  The unknown name resolves to nobody, as its comment says.
ASSUME AgentsChecksAssumption ==
    /\ None \notin Int
    /\ \A id \in DOMAIN JobsOf :
           JobsOf[id] \in Seq({JobsOf[id][k] : k \in DOMAIN JobsOf[id]})
    /\ \A e \in DOMAIN EquipmentRates : EquipmentRates[e] \in Nat /\ EquipmentRates[e] >= 7
    /\ BilledDate \in Int \cup {None} /\ FallbackDate \in Int
    /\ Amounts \subseteq Int /\ Days \subseteq Int
    /\ ~CustomerKnown([customer_name_billed |-> UnknownCustomerName])

\* The jobs of a customer stand for its canonical id, and the customer with
\* the match score for the billed name.
JobRows == [job_id : 1 .. MaxJobs, equipment_description : Equipment,
            scheduled_date : JobDates]
JobLists ==
    {js \in UNION {[1 .. n -> JobRows] : n \in 0 .. MaxJobs} :
        \A k \in DOMAIN js : js[k].job_id = k}
MCJobsOf == [c \in JobLists |-> c]
MCBestMatch == [n \in JobLists \X Scores |->
                   [canonical_id |-> n[1], match_score |-> n[2]]]
MCUnknownName == <<<<>>, 74>>
MCDays == {-1, 0, 1}
MCEquipmentRates == [e \in {"crane"} |-> 40]

InvoiceRows ==
    [customer_name_billed : DOMAIN BestMatch, equipment_billed : Equipment,
     service_date : {BilledDate}, days_billed : Days, amount_usd : Amounts]

NotGolden == [label |-> "unlabelled"]

AnyInvoice == invoice \in InvoiceRows /\ golden = NotGolden

\* What the tool server serves under a billed name.
JobsUnder(name) ==
    LET jobs == Jobs([customer_name_billed |-> name])
    IN  {jobs[k] : k \in DOMAIN jobs}

GoldenInvoice ==
    \E name \in DOMAIN BestMatch :
        \E job \in JobsUnder(name) :
            \E g \in GoldenInvoices(job, name) :
                /\ invoice = g.invoice
                /\ golden = [label |-> g.label, job |-> job]

Init == reply \in Replies /\ (AnyInvoice \/ GoldenInvoice)
Next == UNCHANGED <<invoice, reply, golden>>
Spec == Init /\ [][Next]_<<invoice, reply, golden>>

-----------------------------------------------------------------------------

\* One pass over the job list that keeps a candidate until a strictly
\* nearer one comes: what sorting stably and taking the head amounts to.
ScanNearest ==
    LET best[k \in 0 .. Len(Jobs(invoice))] ==
            IF k = 0 THEN 0
            ELSE IF /\ k \in Candidates(invoice)
                    /\ best[k - 1] = 0 \/ NearerThan(invoice, k, best[k - 1])
                 THEN k ELSE best[k - 1]
    IN  best[Len(Jobs(invoice))]

\* _nearest_candidate returns the head of the stable sort.
NearestIsHeadOfStableSort ==
    Candidates(invoice) # {} => NearestCandidate(invoice) = ScanNearest

\* What analyze proposes for this invoice when the provider says reply.
Proposed ==
    IF AnalystVerdict(invoice) = "ambiguous" THEN JudgedProposal(invoice, reply)
                                             ELSE ClearCutProposal(invoice)

\* The Validator's repeated checks agree with every verdict the Analyst
\* reaches without a provider: a disagreement is always about a date.
ClearCutVerdictsAreAgreed ==
    AnalystVerdict(invoice) # "ambiguous" =>
        ValidatorAgrees(invoice, ClearCutProposal(invoice))

\* The provider's word decides only between the two date tolerances, and an
\* ambiguous date without a provider is always escalated.
ProviderDecidesOnlyTheGap ==
    AnalystVerdict(invoice) = "ambiguous" =>
        /\ ValidatorAgrees(invoice, Proposed) <=>
               /\ reply \in {"match", "no_match_string"}
               /\ NearestDays(invoice)
                      \in DateCleanToleranceDays + 1 .. ValidatorStrictDays
        /\ ~ValidatorAgrees(invoice, UnassistedProposal(invoice))

\* A billed amount more than a twentieth away from a positive expected one
\* is never agreed to be clean, nor is any amount for zero days.
OffAmountIsNeverClean ==
    LET expected == ExpectedAmount(invoice)
    IN  ValidatorAgrees(invoice, Proposed) /\ Proposed.discrepancy = "none" =>
            /\ expected # 0
            /\ expected > 0 => invoice.amount_usd * 20 \in expected * 19 .. expected * 21

\* A clean golden invoice of a job with a readable date, which the server
\* lists under the billed name, is settled by the checks and agreed on,
\* whatever other jobs its customer has.
CleanGoldenIsSettled ==
    golden.label = "none" /\ CustomerKnown(invoice)
    /\ golden.job.scheduled_date # None =>
        /\ AnalystVerdict(invoice) = "none"
        /\ ValidatorAgrees(invoice, ClearCutProposal(invoice))

\* An injected discrepancy is found under its own name, whatever other jobs
\* the customer has: an unknown name, an overbilled amount, and a drift from
\* a readable date that is not within three days of one of the jobs.  (A
\* phantom booking is judged by the jobs with that equipment, if any.)  The
\* last two are about jobs the server lists under the billed name.
InjectedDiscrepancyIsFound ==
    LET found == ValidatorFinding(invoice)
    IN  /\ golden.label = "unknown_customer" => found = golden.label
        /\ CustomerKnown(invoice) =>
               /\ golden.label = "amount_mismatch" => found = golden.label
               /\ golden.label = "date_drift" =>
                      \/ found = golden.label
                      \/ golden.job.scheduled_date = None
                      \/ \E k \in Candidates(invoice) :
                             DistanceTo(invoice, k) \in 0 .. 3

=============================================================================
