------------------------------- MODULE Agents -------------------------------
(***************************************************************************)
(* The checks the two reconciliation agents make on one invoice            *)
(* (src/orchestration/agents.py), as operators over the invoice and the    *)
(* snapshot their tool server answers from.                                *)
(*                                                                         *)
(* Scores are hundredths, amounts and rates whole currency units, dates    *)
(* day numbers; None is Python's None (a date that parses in none of the   *)
(* known formats, a proposal that matched no job).  Confidences and        *)
(* rationales are left out: no code reads them.                            *)
(***************************************************************************)
EXTENDS Integers, Sequences

CONSTANTS
    None,
    BestMatch,        \* best lookup_customer match of each accepted query
    JobsOf,           \* get_customer_jobs: canonical id -> jobs
    EquipmentRates    \* EQUIPMENT_RATES: equipment -> daily rate

\* A job list is in the order of the PSA export; a date is a day or None.
ASSUME AgentsAssumption ==
    \A id \in DOMAIN JobsOf : \A k \in DOMAIN JobsOf[id] :
        k \in Nat /\ JobsOf[id][k].scheduled_date \in Int \cup {None}

CustomerMatchThreshold == 75
AmountTolerancePct     == 5
DateCleanToleranceDays == 1
DefaultDailyRate       == 300

\* Mutant: the Validator is no stricter than a working week.
MutValidatorStrictDays == 5

ValidatorStrictDays == 3

DiscrepancyKind ==
    {"none", "unknown_customer", "no_matching_job", "amount_mismatch",
     "date_drift", "unparseable_date"}

-----------------------------------------------------------------------------
(* The facts both agents derive, each through its own tool calls.          *)

Abs(n) == IF n < 0 THEN -n ELSE n

\* None as soon as one side does not parse.
DayDistance(a, b) == IF a = None \/ b = None THEN None ELSE Abs(a - b)

\* The query passes the input schema of lookup_customer; any other name is
\* a ValidationError that nothing in the pipeline handles.
NameAccepted(inv) == inv.customer_name_billed \in DOMAIN BestMatch

\* An empty match list is a best match with score 0: the code treats both
\* as a score under the threshold.
CustomerKnown(inv) ==
    BestMatch[inv.customer_name_billed].match_score >= CustomerMatchThreshold

Jobs(inv) ==
    LET id == BestMatch[inv.customer_name_billed].canonical_id
    IN  IF id \in DOMAIN JobsOf THEN JobsOf[id] ELSE <<>>

Candidates(inv) ==
    {k \in DOMAIN Jobs(inv) :
        Jobs(inv)[k].equipment_description = inv.equipment_billed}

DistanceTo(inv, k) == DayDistance(inv.service_date, Jobs(inv)[k].scheduled_date)

\* Strictly better sort key: parseable dates first, then the fewer days.
NearerThan(inv, k, l) ==
    /\ DistanceTo(inv, k) # None
    /\ \/ DistanceTo(inv, l) = None
       \/ DistanceTo(inv, k) < DistanceTo(inv, l)

\* Mutant: of equally near candidates the last one wins.
MutNearestCandidate(inv) ==
    CHOOSE k \in Candidates(inv) :
        \A l \in Candidates(inv) \ {k} :
            NearerThan(inv, k, l) \/ (~NearerThan(inv, l, k) /\ k > l)

\* The sort is stable: of equally near candidates the first one wins.
NearestCandidate(inv) ==
    CHOOSE k \in Candidates(inv) :
        \A l \in Candidates(inv) \ {k} :
            NearerThan(inv, k, l) \/ (~NearerThan(inv, l, k) /\ k < l)

NearestJob(inv)  == Jobs(inv)[NearestCandidate(inv)].job_id
NearestDays(inv) == DistanceTo(inv, NearestCandidate(inv))

ExpectedAmount(inv) ==
    LET e == inv.equipment_billed
    IN  (IF e \in DOMAIN EquipmentRates THEN EquipmentRates[e]
                                        ELSE DefaultDailyRate) * inv.days_billed

\* Mutant: only overbilling counts.
MutAmountOff(inv) ==
    100 * (inv.amount_usd - ExpectedAmount(inv))
        > AmountTolerancePct * ExpectedAmount(inv)

\* delta / expected > tolerance: an expected amount of 0 counts as 100% off,
\* a negative one makes the quotient negative and passes every amount.
AmountOff(inv) ==
    LET expected == ExpectedAmount(inv)
    IN  \/ expected = 0
        \/ /\ expected > 0
           /\ 100 * Abs(inv.amount_usd - expected) > AmountTolerancePct * expected

WithinDays(inv, days) == NearestDays(inv) # None /\ NearestDays(inv) <= days

-----------------------------------------------------------------------------
(* The Analyst.                                                            *)

\* The early returns of analyze(); "ambiguous" goes to the date judgment.
AnalystVerdict(inv) ==
    IF ~CustomerKnown(inv)          THEN "unknown_customer"
    ELSE IF Candidates(inv) = {}    THEN "no_matching_job"
    ELSE IF AmountOff(inv)          THEN "amount_mismatch"
    ELSE IF WithinDays(inv, DateCleanToleranceDays) THEN "none"
    ELSE "ambiguous"

AnalystProposal(discrepancy, job, used_llm) ==
    [discrepancy |-> discrepancy, matched_job_id |-> job, used_llm |-> used_llm]

ClearCutProposal(inv) ==
    AnalystProposal(AnalystVerdict(inv),
                    IF AnalystVerdict(inv) \in {"amount_mismatch", "none"}
                    THEN NearestJob(inv) ELSE None,
                    FALSE)

DateDiscrepancy(inv) ==
    IF NearestDays(inv) = None THEN "unparseable_date" ELSE "date_drift"

\* No provider configured: the nearest job, flagged, for no token.
UnassistedProposal(inv) ==
    AnalystProposal(DateDiscrepancy(inv), NearestJob(inv), FALSE)

\* What the provider can say of a date.  Text with no JSON in it reads as
\* "not the same booking"; bool() of any non-empty string, so also of
\* "false", reads as a match.
Replies == {"match", "no_match", "no_match_string", "garbled"}

\* Mutant: an unparseable answer reads as a match.
MutParsedMatch(reply) == reply # "no_match"

ParsedMatch(reply) == reply \in {"match", "no_match_string"}

JudgedProposal(inv, reply) ==
    IF ParsedMatch(reply)
    THEN AnalystProposal("none", NearestJob(inv), TRUE)
    ELSE AnalystProposal(DateDiscrepancy(inv), None, TRUE)

-----------------------------------------------------------------------------
(* The Validator.                                                          *)

ValidatorFinding(inv) ==
    IF ~CustomerKnown(inv)          THEN "unknown_customer"
    ELSE IF Candidates(inv) = {}    THEN "no_matching_job"
    ELSE IF AmountOff(inv)          THEN "amount_mismatch"
    ELSE IF WithinDays(inv, ValidatorStrictDays) THEN "none"
    ELSE DateDiscrepancy(inv)

\* Mutant: a rubber stamp for everything the Analyst calls clean.
MutValidatorAgrees(inv, proposal) ==
    proposal.discrepancy \in {"none", ValidatorFinding(inv)}

\* Mutant: an agreed discrepancy is a disagreement.
MutValidatorAgreesOnlyClean(inv, proposal) ==
    /\ proposal.discrepancy = "none" /\ ValidatorFinding(inv) = "none"
    /\ proposal.matched_job_id = NearestJob(inv)

\* A date beyond the Validator's tolerance is never agreed with.
ValidatorAgrees(inv, proposal) ==
    /\ proposal.discrepancy = ValidatorFinding(inv)
    /\ ValidatorFinding(inv) \notin {"date_drift", "unparseable_date"}
    /\ ValidatorFinding(inv) = "none" =>
           proposal.matched_job_id = NearestJob(inv)

=============================================================================
