------------------------- MODULE AgentsChecksProofs -------------------------
(***************************************************************************)
(* Proofs about the agents' checks, for every invoice, every list of jobs, *)
(* every rate of at least 7 and every invoice of the golden generator.     *)
(***************************************************************************)
EXTENDS AgentsChecks, AgentsProofs

-----------------------------------------------------------------------------
(* The states.                                                             *)

\* What was drawn at first stays.
LEMMA DrawnStays == Spec => []Init
<1>1. Init /\ [Next]_<<invoice, reply, golden>> => Init'
  BY DEF Init, Next, AnyInvoice, GoldenInvoice
<1> QED
  BY <1>1, PTL DEF Spec

\* What the generator makes of a job, spelt out: it bills the job under the
\* name, but for a phantom booking and for an unknown customer, and its label
\* says which of the other facts it changed.
GoldenFrom(job, name, d) ==
    LET date == AnchorDate(job)
        rate == BaseRate(job)
    IN  /\ d \in BilledDays /\ invoice.days_billed = d
        /\ golden.job = job
        /\ \/ /\ golden.label \in {"none", "unknown_customer"}
              /\ invoice.service_date = date /\ invoice.amount_usd = rate * d
              /\ invoice.equipment_billed = job.equipment_description
              /\ invoice.customer_name_billed =
                     IF golden.label = "none" THEN name ELSE UnknownCustomerName
           \/ /\ golden.label = "amount_mismatch"
              /\ invoice.customer_name_billed = name
              /\ invoice.equipment_billed = job.equipment_description
              /\ \E p \in OverbillPercents : invoice.amount_usd = (rate * d * p) \div 100
              /\ invoice.service_date = date
           \/ /\ golden.label = "no_matching_job"
              /\ \E o \in PhantomOffsets : invoice.service_date = date + o
              /\ \E r \in PhantomRates : invoice.amount_usd = r * d
           \/ /\ golden.label = "date_drift"
              /\ invoice.customer_name_billed = name
              /\ invoice.equipment_billed = job.equipment_description
              /\ invoice.amount_usd = rate * d
              /\ \E n \in DriftDays : invoice.service_date = date + n

LEMMA GoldenIsGenerated ==
    ASSUME GoldenInvoice
    PROVE  \E name \in DOMAIN BestMatch : \E job \in JobsUnder(name) :
               \E d \in BilledDays : GoldenFrom(job, name, d)
<1>0. PICK name \in DOMAIN BestMatch :
          \E job \in JobsUnder(name) : \E g \in GoldenInvoices(job, name) :
              invoice = g.invoice /\ golden = [label |-> g.label, job |-> job]
  BY DEF GoldenInvoice
<1>1. PICK job \in JobsUnder(name) : \E g \in GoldenInvoices(job, name) :
          invoice = g.invoice /\ golden = [label |-> g.label, job |-> job]
  BY <1>0
<1>2. PICK g \in GoldenInvoices(job, name) :
          invoice = g.invoice /\ golden = [label |-> g.label, job |-> job]
  BY <1>1
<1>3. golden.label = g.label /\ golden.job = job
  BY <1>2
<1>4. \E d \in BilledDays : GoldenFrom(job, name, d)
  <2> DEFINE equipment == job.equipment_description
             date == AnchorDate(job)
             rate == BaseRate(job)
  <2>1. PICK d \in BilledDays :
            \/ g = Labelled("none", Billed(name, equipment, date, d, rate * d))
            \/ g = Labelled("unknown_customer",
                            Billed(UnknownCustomerName, equipment, date, d, rate * d))
            \/ \E p \in OverbillPercents :
                   g = Labelled("amount_mismatch",
                                Billed(name, equipment, date, d, (rate * d * p) \div 100))
            \/ \E e \in Catalog, o \in PhantomOffsets, r \in PhantomRates :
                   g = Labelled("no_matching_job", Billed(name, e, date + o, d, r * d))
            \/ \E n \in DriftDays :
                   g = Labelled("date_drift",
                                Billed(name, equipment, date + n, d, rate * d))
    BY DEF GoldenInvoices
  <2> HIDE DEF equipment, date, rate
  <2>2. GoldenFrom(job, name, d)
    BY <1>2, <1>3, <2>1 DEF GoldenFrom, Labelled, Billed, equipment, date, rate
  <2> QED
    BY <2>2
<1> QED
  BY <1>4

\* Lists of jobs are what the assumptions say.
LEMMA JobsAreListed ==
    ASSUME NEW inv
    PROVE  /\ Len(Jobs(inv)) \in Nat /\ DOMAIN Jobs(inv) = 1 .. Len(Jobs(inv))
           /\ \A k \in DOMAIN Jobs(inv) : Jobs(inv)[k].scheduled_date \in Int \cup {None}
<1> DEFINE id == BestMatch[inv.customer_name_billed].canonical_id
<1>1. Jobs(inv) = IF id \in DOMAIN JobsOf THEN JobsOf[id] ELSE <<>>
  BY DEF Jobs
<1>2. CASE id \in DOMAIN JobsOf
  <2>1. /\ JobsOf[id] \in Seq({JobsOf[id][k] : k \in DOMAIN JobsOf[id]})
        /\ \A k \in DOMAIN JobsOf[id] : JobsOf[id][k].scheduled_date \in Int \cup {None}
    BY <1>2, AgentsChecksAssumption, AgentsAssumption
       DEF AgentsChecksAssumption, AgentsAssumption
  <2> HIDE DEF id
  <2>2. Len(JobsOf[id]) \in Nat /\ DOMAIN JobsOf[id] = 1 .. Len(JobsOf[id])
    BY <2>1
  <2> QED
    BY <1>1, <1>2, <2>1, <2>2
<1>3. CASE id \notin DOMAIN JobsOf
  <2>1. Jobs(inv) = <<>>
    BY <1>1, <1>3
  <2> QED
    BY <2>1
<1> QED
  BY <1>2, <1>3

\* A daily rate and what it comes to are positive.
LEMMA RatesAreDue ==
    ASSUME NEW job, NEW d \in BilledDays
    PROVE  /\ BaseRate(job) \in Nat /\ d \in Nat /\ BaseRate(job) * d \in Nat
           /\ BaseRate(job) * d >= 7
<1>1. BaseRate(job) \in Nat /\ BaseRate(job) >= 7
  BY AgentsChecksAssumption DEF AgentsChecksAssumption, BaseRate
<1>2. d \in 1 .. 5
  BY GoldenAssumption DEF GoldenAssumption
<1> DEFINE r == BaseRate(job)
<1> HIDE DEF r
<1>3. d = 1 \/ d = 2 \/ d = 3 \/ d = 4 \/ d = 5
  BY <1>2
<1>4. r * d \in Nat /\ r * d >= 7
  BY <1>1, <1>3 DEF r
<1> QED
  BY <1>1, <1>2, <1>4 DEF r

\* The types of an invoice, drawn or generated.
LEMMA InvoiceType ==
    ASSUME Init
    PROVE  /\ invoice.service_date \in Int \cup {None}
           /\ invoice.amount_usd \in Int /\ invoice.days_billed \in Int
           /\ reply \in Replies
<1>1. reply \in Replies
  BY DEF Init
<1>2. CASE AnyInvoice
  BY <1>1, <1>2, AgentsChecksAssumption DEF AgentsChecksAssumption, AnyInvoice, InvoiceRows
<1>3. CASE GoldenInvoice
  <2>1. PICK name \in DOMAIN BestMatch :
            \E job \in JobsUnder(name) : \E d \in BilledDays : GoldenFrom(job, name, d)
    BY <1>3, GoldenIsGenerated
  <2>2. PICK job \in JobsUnder(name), d \in BilledDays : GoldenFrom(job, name, d)
    BY <2>1
  <2> DEFINE date == AnchorDate(job)
             due == BaseRate(job) * d
  <2>3. date \in Int
    <3>1. job.scheduled_date \in Int \cup {None}
      BY JobsAreListed DEF JobsUnder
    <3> QED
      BY <3>1, AgentsChecksAssumption DEF AgentsChecksAssumption, AnchorDate
  <2>4. due \in Nat /\ d \in Nat
    BY RatesAreDue
  <2>5. /\ \A p \in OverbillPercents : p \in Nat
        /\ \A o \in PhantomOffsets : o \in Nat
        /\ \A r \in PhantomRates : r \in Nat
        /\ \A n \in DriftDays : n \in Nat
    BY GoldenAssumption DEF GoldenAssumption
  <2>6. \A p \in OverbillPercents : (due * p) \div 100 \in Int
    BY <2>4, <2>5
  <2>7. \A r \in PhantomRates : r * d \in Int
    BY <2>4, <2>5
  <2> QED
    <3>1. invoice.days_billed \in Int
      BY <2>2, <2>4 DEF GoldenFrom
    <3>2. invoice.service_date \in Int
      BY <2>2, <2>3, <2>5 DEF GoldenFrom
    <3>3. invoice.amount_usd \in Int
      BY <2>2, <2>4, <2>6, <2>7 DEF GoldenFrom
    <3> QED
      BY <1>1, <3>1, <3>2, <3>3
<1> QED
  BY <1>2, <1>3 DEF Init

-----------------------------------------------------------------------------
(* The two agents.                                                         *)

\* A disagreement is always about a date: where the Analyst decides without a
\* provider the Validator decides the same, whatever the invoice and the jobs
\* (analyze, review).
THEOREM VerdictsAreAgreed == Spec => []ClearCutVerdictsAreAgreed
<1>1. Init => ClearCutVerdictsAreAgreed
  BY InvoiceType, ClearCutIsAgreed DEF ClearCutVerdictsAreAgreed
<1> QED
  BY <1>1, DrawnStays, PTL

\* The provider cannot settle a date that is off by more than the Validator's
\* tolerance, nor unsettle one that is within the Analyst's, whatever it says
\* (_judge_date, review).
THEOREM GapIsTheProviders == Spec => []ProviderDecidesOnlyTheGap
<1>1. Init => ProviderDecidesOnlyTheGap
  <2> SUFFICES ASSUME Init, AnalystVerdict(invoice) = "ambiguous"
               PROVE  /\ ValidatorAgrees(invoice, Proposed) <=>
                             /\ reply \in {"match", "no_match_string"}
                             /\ NearestDays(invoice)
                                    \in DateCleanToleranceDays + 1 .. ValidatorStrictDays
                      /\ ~ValidatorAgrees(invoice, UnassistedProposal(invoice))
    BY DEF ProviderDecidesOnlyTheGap
  <2>1. /\ CustomerKnown(invoice) /\ Candidates(invoice) # {} /\ ~AmountOff(invoice)
        /\ ~WithinDays(invoice, DateCleanToleranceDays)
    BY DEF AnalystVerdict
  <2>2. NearestDays(invoice) \in Nat \cup {None}
    BY <2>1, InvoiceType, NearestExists, DistanceType DEF NearestDays
  <2>3. WithinDays(invoice, ValidatorStrictDays) <=>
            NearestDays(invoice) \in DateCleanToleranceDays + 1 .. ValidatorStrictDays
    <3>1. NearestDays(invoice) = None => NearestDays(invoice) \notin Int
      BY AgentsChecksAssumption DEF AgentsChecksAssumption
    <3>2. CASE NearestDays(invoice) = None
      <4>1. \A n \in 2 .. 3 : n \in Int
        OBVIOUS
      <4> QED
        BY <3>1, <3>2, <4>1 DEF WithinDays, DateCleanToleranceDays, ValidatorStrictDays
    <3>3. CASE NearestDays(invoice) # None
      <4>1. NearestDays(invoice) \in Nat /\ ~(NearestDays(invoice) <= 1)
        BY <2>1, <2>2, <3>3 DEF WithinDays, DateCleanToleranceDays
      <4>2. NearestDays(invoice) <= 3 <=> NearestDays(invoice) \in 1 + 1 .. 3
        BY ONLY <4>1
      <4> QED
        BY <3>3, <4>2 DEF WithinDays, DateCleanToleranceDays, ValidatorStrictDays
    <3> QED
      BY <3>2, <3>3
  <2>4. ValidatorFinding(invoice) =
            IF WithinDays(invoice, ValidatorStrictDays) THEN "none"
            ELSE DateDiscrepancy(invoice)
    BY <2>1 DEF ValidatorFinding
  <2>5. DateDiscrepancy(invoice) \in {"date_drift", "unparseable_date"}
    BY DEF DateDiscrepancy
  <2>6. Proposed = IF reply \in {"match", "no_match_string"}
                   THEN AnalystProposal("none", NearestJob(invoice), TRUE)
                   ELSE AnalystProposal(DateDiscrepancy(invoice), None, TRUE)
    BY DEF Proposed, JudgedProposal, ParsedMatch
  <2>7. \A discrepancy, job, used :
            /\ AnalystProposal(discrepancy, job, used).discrepancy = discrepancy
            /\ AnalystProposal(discrepancy, job, used).matched_job_id = job
    BY DEF AnalystProposal
  <2>8. ASSUME NEW job, NEW used
        PROVE  ~ValidatorAgrees(invoice, AnalystProposal(DateDiscrepancy(invoice), job, used))
    BY <2>4, <2>5, <2>7 DEF ValidatorAgrees
  <2>9. ValidatorAgrees(invoice, AnalystProposal("none", NearestJob(invoice), TRUE)) <=>
            WithinDays(invoice, ValidatorStrictDays)
    BY <2>4, <2>5, <2>7 DEF ValidatorAgrees
  <2>10. ~ValidatorAgrees(invoice, UnassistedProposal(invoice))
    BY <2>8 DEF UnassistedProposal
  <2> QED
    BY <2>3, <2>6, <2>8, <2>9, <2>10
<1> QED
  BY <1>1, DrawnStays, PTL

\* Integers: within 5% of e is within a twentieth of it.
LEMMA TwentiethPart ==
    ASSUME NEW a \in Int, NEW e \in Int, e > 0, ~(100 * Abs(a - e) > 5 * e)
    PROVE  a * 20 \in e * 19 .. e * 21
<1>1. a - e \in Int /\ (a - e < 0 \/ a - e >= 0)
  OBVIOUS
<1>2. CASE a - e < 0
  <2>1. 100 * (-(a - e)) <= 5 * e
    BY <1>1, <1>2 DEF Abs
  <2> QED
    BY <1>2, <2>1
<1>3. CASE a - e >= 0
  <2>1. 100 * (a - e) <= 5 * e
    BY <1>1, <1>3 DEF Abs
  <2> QED
    BY <1>3, <2>1
<1> QED
  BY <1>1, <1>2, <1>3

\* What an invoice should come to is a whole number.
LEMMA ExpectedType ==
    ASSUME Init
    PROVE  ExpectedAmount(invoice) \in Int
<1> DEFINE e == invoice.equipment_billed
           rate == IF e \in DOMAIN EquipmentRates THEN EquipmentRates[e] ELSE DefaultDailyRate
<1>1. rate \in Int
  BY AgentsChecksAssumption DEF AgentsChecksAssumption, DefaultDailyRate
<1>2. invoice.days_billed \in Int
  BY InvoiceType
<1>3. ExpectedAmount(invoice) = rate * invoice.days_billed
  BY DEF ExpectedAmount
<1> HIDE DEF rate
<1> QED
  BY <1>1, <1>2, <1>3

\* No amount that is off by more than 5% of a positive expected amount, and
\* none for zero days, passes both agents (_amount_delta_pct).
THEOREM OffAmountsAreStopped == Spec => []OffAmountIsNeverClean
<1>1. Init => OffAmountIsNeverClean
  <2> DEFINE expected == ExpectedAmount(invoice)
  <2> SUFFICES ASSUME Init, ValidatorAgrees(invoice, Proposed),
                      Proposed.discrepancy = "none"
               PROVE  /\ expected # 0
                      /\ expected > 0 =>
                             invoice.amount_usd * 20 \in expected * 19 .. expected * 21
    BY DEF OffAmountIsNeverClean
  <2>1. expected \in Int /\ invoice.amount_usd \in Int
    BY ExpectedType, InvoiceType
  <2>2. ValidatorFinding(invoice) = "none"
    BY DEF ValidatorAgrees
  <2>3. ~AmountOff(invoice)
    BY <2>2 DEF ValidatorFinding
  <2>4. /\ expected # 0
        /\ expected > 0 => ~(100 * Abs(invoice.amount_usd - expected) > 5 * expected)
    BY <2>3 DEF AmountOff, AmountTolerancePct
  <2> HIDE DEF expected
  <2> QED
    BY <2>1, <2>4, TwentiethPart
<1> QED
  BY <1>1, DrawnStays, PTL

-----------------------------------------------------------------------------
(* The golden invoices.                                                    *)

\* Integers: an amount 20% or more above x, rounded down, is more than 5% off.
LEMMA OverbillIsOff ==
    ASSUME NEW x \in Nat, x >= 7, NEW p \in 120 .. 150
    PROVE  100 * Abs((x * p) \div 100 - x) > 5 * x
<1> DEFINE q == p - 120
           m == x * p
           a == m \div 100
<1>1. q \in Nat /\ p = 120 + q
  OBVIOUS
<1>2. x * q \in Nat /\ m = x * 120 + x * q
  BY <1>1
<1>3. m \in Nat
  BY <1>2
<1> HIDE DEF q, m
<1>4. a \in Int /\ 100 * a <= m /\ m < 100 * a + 100
  BY <1>3
<1> HIDE DEF a
<1> DEFINE y == x * q
<1>5. y \in Nat /\ m = x * 120 + y
  BY <1>2
<1> HIDE DEF y
<1>6. 100 * (a - x) > 5 * x
  BY <1>4, <1>5
<1>7. a - x >= 0 /\ a - x \in Int
  BY <1>4, <1>6
<1>8. Abs(a - x) = a - x
  BY <1>7 DEF Abs
<1> QED
  BY <1>6, <1>8 DEF a, m

\* An invoice billed for a job under the customer's name has the job among
\* its candidates and the job's price as its expected amount.
LEMMA BilledForTheJob ==
    ASSUME Init, NEW name, NEW job \in JobsUnder(name), NEW d \in BilledDays,
           GoldenFrom(job, name, d), invoice.customer_name_billed = name,
           invoice.equipment_billed = job.equipment_description
    PROVE  /\ \E k \in Candidates(invoice) : Jobs(invoice)[k] = job
           /\ ExpectedAmount(invoice) = BaseRate(job) * d
<1>1. JobsUnder(name) = {Jobs(invoice)[k] : k \in DOMAIN Jobs(invoice)}
  BY DEF JobsUnder, Jobs
<1>2. PICK k \in DOMAIN Jobs(invoice) : Jobs(invoice)[k] = job
  BY <1>1
<1>3. k \in Candidates(invoice)
  BY <1>2 DEF Candidates
<1>4. ExpectedAmount(invoice) = BaseRate(job) * d
  BY DEF GoldenFrom, ExpectedAmount, BaseRate, DefaultDailyRate
<1> QED
  BY <1>2, <1>3, <1>4

\* The right amount is not off.
LEMMA ExactIsNotOff ==
    ASSUME NEW inv, ExpectedAmount(inv) \in Nat, ExpectedAmount(inv) > 0,
           inv.amount_usd = ExpectedAmount(inv)
    PROVE  ~AmountOff(inv)
<1> DEFINE e == ExpectedAmount(inv)
<1>1. e \in Nat /\ e > 0 /\ inv.amount_usd = e
  OBVIOUS
<1> HIDE DEF e
<1>2. Abs(inv.amount_usd - e) = 0
  BY <1>1 DEF Abs
<1>3. ~(100 * 0 > 5 * e) /\ e # 0
  BY <1>1
<1> QED
  BY <1>2, <1>3 DEF AmountOff, AmountTolerancePct, e

\* The distance of an invoice to its own job, by how far its date was moved.
LEMMA OwnDistance ==
    ASSUME Init, NEW name, NEW job \in JobsUnder(name), job.scheduled_date # None,
           NEW n \in Nat, invoice.service_date = AnchorDate(job) + n,
           NEW k \in Candidates(invoice), Jobs(invoice)[k] = job
    PROVE  /\ DistanceTo(invoice, k) # None /\ DistanceTo(invoice, k) = n
           /\ NearestDays(invoice) # None /\ NearestDays(invoice) \in Nat
           /\ NearestDays(invoice) <= n
<1>1. job.scheduled_date \in Int /\ AnchorDate(job) = job.scheduled_date
  BY JobsAreListed DEF JobsUnder, AnchorDate
<1>2. invoice.service_date \in Int /\ invoice.service_date # None /\ n # None
  BY <1>1, AgentsChecksAssumption DEF AgentsChecksAssumption
<1> DEFINE a == invoice.service_date
           b == job.scheduled_date
<1>3. a \in Int /\ b \in Int /\ a = b + n /\ a # None /\ b # None
  BY <1>1, <1>2
<1> HIDE DEF a, b
<1>4. DayDistance(a, b) = n
  BY <1>3 DEF DayDistance, Abs
<1>5. DistanceTo(invoice, k) = n
  BY <1>4 DEF DistanceTo, a, b
<1>6. invoice.service_date \in Int \cup {None}
  BY <1>2
<1> QED
  BY <1>2, <1>5, <1>6, NearestIsLeast

\* A clean golden invoice never bothers a provider or a person, whatever other
\* jobs the customer has (_generate_invoices_with_labels, analyze, review).
THEOREM CleanInvoicesSettle == Spec => []CleanGoldenIsSettled
<1>1. Init => CleanGoldenIsSettled
  <2> SUFFICES ASSUME Init, golden.label = "none", CustomerKnown(invoice),
                      golden.job.scheduled_date # None
               PROVE  /\ AnalystVerdict(invoice) = "none"
                      /\ ValidatorAgrees(invoice, ClearCutProposal(invoice))
    BY DEF CleanGoldenIsSettled
  <2>1. GoldenInvoice
    BY DEF Init, AnyInvoice, NotGolden
  <2>2. PICK name \in DOMAIN BestMatch :
            \E job \in JobsUnder(name) : \E d \in BilledDays : GoldenFrom(job, name, d)
    BY <2>1, GoldenIsGenerated
  <2>3. PICK job \in JobsUnder(name), d \in BilledDays : GoldenFrom(job, name, d)
    BY <2>2
  <2>4. /\ golden.job = job /\ invoice.customer_name_billed = name
        /\ invoice.equipment_billed = job.equipment_description
        /\ invoice.service_date = AnchorDate(job)
        /\ invoice.amount_usd = BaseRate(job) * d
    BY <2>3 DEF GoldenFrom
  <2>5. PICK k \in Candidates(invoice) : Jobs(invoice)[k] = job
    BY <2>3, <2>4, BilledForTheJob
  <2>6. ~AmountOff(invoice)
    <3> DEFINE x == BaseRate(job) * d
    <3>1. x \in Nat /\ x >= 7
      BY RatesAreDue
    <3>2. ExpectedAmount(invoice) = x /\ invoice.amount_usd = x
      BY <2>3, <2>4, BilledForTheJob
    <3> HIDE DEF x
    <3>3. x > 0
      BY <3>1
    <3> QED
      BY <3>1, <3>2, <3>3, ExactIsNotOff
  <2>7. NearestDays(invoice) # None /\ NearestDays(invoice) \in Nat /\ NearestDays(invoice) <= 0
    <3>1. AnchorDate(job) \in Int
      BY <2>4, JobsAreListed DEF JobsUnder, AnchorDate
    <3>2. invoice.service_date = AnchorDate(job) + 0
      BY <2>4, <3>1
    <3> QED
      BY <2>4, <2>5, <3>2, OwnDistance
  <2>8. WithinDays(invoice, DateCleanToleranceDays)
    <3>1. NearestDays(invoice) <= 1
      BY ONLY <2>7
    <3> QED
      BY <2>7, <3>1 DEF WithinDays, DateCleanToleranceDays
  <2>9. AnalystVerdict(invoice) = "none"
    BY <2>5, <2>6, <2>8 DEF AnalystVerdict
  <2> QED
    BY <2>9, InvoiceType, ClearCutIsAgreed
<1> QED
  BY <1>1, DrawnStays, PTL

\* The Validator finds what the generator injected, under its name, whatever
\* other jobs the customer has (_generate_invoices_with_labels, review).
THEOREM InjectedIsFound == Spec => []InjectedDiscrepancyIsFound
<1>1. Init => InjectedDiscrepancyIsFound
  <2> SUFFICES ASSUME Init PROVE InjectedDiscrepancyIsFound
    OBVIOUS
  <2> DEFINE found == ValidatorFinding(invoice)
  <2>1. CASE AnyInvoice
    <3>1. golden.label \notin {"unknown_customer", "amount_mismatch", "date_drift"}
      BY <2>1 DEF AnyInvoice, NotGolden
    <3> QED
      BY <3>1 DEF InjectedDiscrepancyIsFound
  <2>2. CASE GoldenInvoice
    <3>1. PICK name \in DOMAIN BestMatch :
              \E job \in JobsUnder(name) : \E d \in BilledDays : GoldenFrom(job, name, d)
      BY <2>2, GoldenIsGenerated
    <3>2. PICK job \in JobsUnder(name), d \in BilledDays : GoldenFrom(job, name, d)
      BY <3>1
    <3> DEFINE x == BaseRate(job) * d
    <3>3. x \in Nat /\ x >= 7 /\ x > 0 /\ golden.job = job
      <4>1. x \in Nat /\ x >= 7 /\ golden.job = job
        BY <3>2, RatesAreDue DEF GoldenFrom
      <4> HIDE DEF x
      <4>2. x > 0
        BY <4>1
      <4> QED
        BY <4>1, <4>2
    <3>4. ASSUME golden.label = "unknown_customer" PROVE found = "unknown_customer"
      <4>1. invoice.customer_name_billed = UnknownCustomerName
        BY <3>2, <3>4 DEF GoldenFrom
      <4>2. ~CustomerKnown(invoice)
        BY <4>1, AgentsChecksAssumption DEF AgentsChecksAssumption, CustomerKnown
      <4> QED
        BY <4>2 DEF ValidatorFinding
    <3>5. ASSUME golden.label = "amount_mismatch", CustomerKnown(invoice)
          PROVE  found = "amount_mismatch"
      <4>1. /\ invoice.customer_name_billed = name
            /\ invoice.equipment_billed = job.equipment_description
            /\ \E p \in OverbillPercents : invoice.amount_usd = (x * p) \div 100
        BY <3>2, <3>5 DEF GoldenFrom
      <4>2. Candidates(invoice) # {} /\ ExpectedAmount(invoice) = x
        BY <3>2, <4>1, BilledForTheJob
      <4>3. PICK p \in 120 .. 150 : invoice.amount_usd = (x * p) \div 100
        BY <4>1, GoldenAssumption DEF GoldenAssumption
      <4> HIDE DEF x
      <4>4. 100 * Abs(invoice.amount_usd - x) > 5 * x
        BY <3>3, <4>3, OverbillIsOff
      <4>5. AmountOff(invoice)
        BY <3>3, <4>2, <4>4 DEF AmountOff, AmountTolerancePct
      <4> QED
        BY <3>5, <4>2, <4>5 DEF ValidatorFinding
    <3>6. ASSUME golden.label = "date_drift", CustomerKnown(invoice),
                 job.scheduled_date # None,
                 ~\E k \in Candidates(invoice) : DistanceTo(invoice, k) \in 0 .. 3
          PROVE  found = "date_drift"
      <4>1. /\ invoice.customer_name_billed = name
            /\ invoice.equipment_billed = job.equipment_description
            /\ invoice.amount_usd = x
            /\ \E n \in DriftDays : invoice.service_date = AnchorDate(job) + n
        BY <3>2, <3>6 DEF GoldenFrom
      <4>2. PICK k \in Candidates(invoice) : Jobs(invoice)[k] = job
        BY <3>2, <4>1, BilledForTheJob
      <4>3. ~AmountOff(invoice)
        <5>1. ExpectedAmount(invoice) = x
          BY <3>2, <4>1, BilledForTheJob
        <5> HIDE DEF x
        <5> QED
          BY <3>3, <4>1, <5>1, ExactIsNotOff
      <4>4. PICK n \in Nat : invoice.service_date = AnchorDate(job) + n
        BY <4>1, GoldenAssumption DEF GoldenAssumption
      <4>5. NearestDays(invoice) # None /\ NearestDays(invoice) \in Nat
        BY <3>6, <4>2, <4>4, OwnDistance
      <4>6. ~WithinDays(invoice, ValidatorStrictDays)
        <5>1. NearestCandidate(invoice) \in Candidates(invoice)
          BY <4>2, InvoiceType, NearestExists
        <5>2. NearestDays(invoice) \notin 0 .. 3
          BY <3>6, <5>1 DEF NearestDays
        <5>3. ~(NearestDays(invoice) <= 3)
          BY ONLY <4>5, <5>2
        <5> QED
          BY <5>3 DEF WithinDays, ValidatorStrictDays
      <4> QED
        BY <3>6, <4>2, <4>3, <4>5, <4>6 DEF ValidatorFinding, DateDiscrepancy
    <3> HIDE DEF found
    <3> QED
      BY <3>3, <3>4, <3>5, <3>6 DEF InjectedDiscrepancyIsFound, found
  <2> QED
    BY <2>1, <2>2 DEF Init
<1> QED
  BY <1>1, DrawnStays, PTL

-----------------------------------------------------------------------------
(* The stable sort.                                                        *)

\* After m rounds the scan has the head of the sort of the first m jobs, or 0
\* when none of them is a candidate.
Heads(b, m) ==
    LET seen == {k \in Candidates(invoice) : k <= m}
    IN  \/ b = 0 /\ seen = {}
        \/ b \in seen /\ \A l \in seen \ {b} : Precedes(invoice, b, l)

LEMMA HeadMovesOn ==
    ASSUME Init, NEW m \in Nat, m # 0, NEW b, Heads(b, m - 1), NEW c,
           c = IF /\ m \in Candidates(invoice)
                  /\ b = 0 \/ NearerThan(invoice, m, b)
               THEN m ELSE b
    PROVE  Heads(c, m)
<1> DEFINE C == Candidates(invoice)
           before == {k \in C : k <= m - 1}
           seen == {k \in C : k <= m}
           D(k) == DistanceTo(invoice, k)
<1>1. \A k \in C : k \in Nat /\ k # 0 /\ D(k) \in Nat \cup {None}
  <2>1. \A k \in C : k \in Nat /\ D(k) \in Nat \cup {None}
    BY InvoiceType, DistanceType
  <2>2. \A k \in C : k \in 1 .. Len(Jobs(invoice))
    BY JobsAreListed DEF Candidates
  <2> QED
    BY <2>1, <2>2, JobsAreListed
<1>2. /\ \A k \in before : k \in seen /\ k < m
      /\ \A k \in seen : k = m \/ k \in before
      /\ m \in C => m \in seen
  BY <1>1
<1>3. \/ b = 0 /\ before = {}
      \/ b \in before /\ \A l \in before \ {b} : Precedes(invoice, b, l)
  BY DEF Heads
<1> SUFFICES \/ c = 0 /\ seen = {}
             \/ c \in seen /\ \A l \in seen \ {c} : Precedes(invoice, c, l)
  BY DEF Heads
<1>4. CASE m \notin C
  <2>1. \A k \in seen : k \in before
    BY <1>2, <1>4
  <2> HIDE DEF C, before, seen
  <2> QED
    BY <1>2, <1>3, <1>4, <2>1 DEF C
<1>5. CASE m \in C /\ b = 0
  <2>1. before = {} /\ c = m
    BY <1>1, <1>3, <1>5
  <2> QED
    BY <1>2, <1>5, <2>1
<1>6. CASE m \in C /\ b # 0 /\ NearerThan(invoice, m, b)
  <2>1. c = m /\ b \in before /\ \A l \in before \ {b} : Precedes(invoice, b, l)
    BY <1>3, <1>6
  <2>2. D(m) \in Nat /\ D(m) # None /\ (D(b) = None \/ (D(b) \in Nat /\ D(m) < D(b)))
    BY <1>1, <1>6, <2>1 DEF NearerThan
  <2>3. ASSUME NEW l \in before PROVE NearerThan(invoice, m, l)
    <3>1. CASE l = b
      BY <1>6, <3>1
    <3>2. CASE l # b
      <4>1. NearerThan(invoice, b, l) \/ ~NearerThan(invoice, l, b)
        BY <2>1, <3>2 DEF Precedes
      <4>2. D(l) \in Nat \cup {None} /\ D(b) \in Nat \cup {None}
        BY <1>1, <2>1
      <4>3. D(l) = None \/ (D(l) # None /\ D(b) # None /\ ~(D(l) < D(b)))
        <5>1. CASE NearerThan(invoice, b, l)
          <6>1. D(b) # None /\ (D(l) = None \/ D(b) < D(l))
            BY <5>1 DEF NearerThan
          <6> QED
            BY <4>2, <6>1
        <5>2. CASE ~NearerThan(invoice, l, b)
          BY <5>2 DEF NearerThan
        <5> QED
          BY <4>1, <5>1, <5>2
      <4> HIDE DEF D
      <4>4. D(l) = None \/ D(m) < D(l)
        BY <2>2, <4>2, <4>3
      <4> QED
        BY <2>2, <4>4 DEF NearerThan, D
    <3> QED
      BY <3>1, <3>2
  <2>4. \A l \in seen \ {m} : Precedes(invoice, m, l)
    BY <1>2, <2>3 DEF Precedes
  <2> QED
    BY <1>2, <1>6, <2>1, <2>4
<1>7. CASE m \in C /\ b # 0 /\ ~NearerThan(invoice, m, b)
  <2>1. c = b /\ b \in before /\ \A l \in before \ {b} : Precedes(invoice, b, l)
    BY <1>3, <1>7
  <2>2. Precedes(invoice, b, m)
    BY <1>2, <1>7, <2>1 DEF Precedes
  <2>3. b \in seen /\ \A l \in seen \ {b} : l = m \/ l \in before \ {b}
    BY <1>2, <2>1
  <2> HIDE DEF C, before, seen
  <2> QED
    BY <2>1, <2>2, <2>3
<1> QED
  BY <1>4, <1>5, <1>6, <1>7

\* The scan's value after each round exists and is what the loop says.
LEMMA ScanRuns ==
    ASSUME Init
    PROVE  \E f : /\ ScanNearest = f[Len(Jobs(invoice))]
                  /\ f[0] = 0
                  /\ \A k \in 1 .. Len(Jobs(invoice)) :
                         f[k] = IF /\ k \in Candidates(invoice)
                                   /\ f[k - 1] = 0 \/ NearerThan(invoice, k, f[k - 1])
                                THEN k ELSE f[k - 1]
<1> DEFINE n == Len(Jobs(invoice))
           Round(k, b) == IF /\ k \in Candidates(invoice)
                             /\ b = 0 \/ NearerThan(invoice, k, b)
                          THEN k ELSE b
           X == 0 .. n
           g == [k \in 1 .. n |-> [b \in X |-> Round(k, b)]]
           Runs(f) == f = [k \in 0 .. n |-> IF k = 0 THEN 0 ELSE Round(k, f[k - 1])]
           best == CHOOSE f : Runs(f)
<1>1. n \in Nat
  BY JobsAreListed
<1>2. ScanNearest = best[n]
  BY DEF ScanNearest
<1> HIDE DEF n
<1>3. g \in [1 .. n -> [X -> X]]
  <2>1. ASSUME NEW k \in 1 .. n, NEW b \in X PROVE Round(k, b) \in X
    <3>1. k \in X
      BY <1>1
    <3> QED
      BY <3>1
  <2> HIDE DEF Round, X
  <2> QED
    BY <2>1
<1>4. 0 \in X
  BY <1>1
<1>5. PICK f \in [0 .. n -> X] : f[0] = 0 /\ \A k \in 1 .. n : f[k] = g[k][f[k - 1]]
  <2> HIDE DEF g, X
  <2> QED
    BY <1>1, <1>3, <1>4, LoopExists
<1>6. ASSUME NEW k \in 1 .. n PROVE f[k] = Round(k, f[k - 1])
  <2>1. f[k - 1] \in X
    BY <1>1, <1>5
  <2>2. g[k][f[k - 1]] = Round(k, f[k - 1])
    <3> HIDE DEF Round, X
    <3> QED
      BY <2>1
  <2> QED
    BY <1>5, <2>2
<1> HIDE DEF Round, X, g
<1>7. Runs(f)
  <2>1. ASSUME NEW k \in 0 .. n PROVE f[k] = IF k = 0 THEN 0 ELSE Round(k, f[k - 1])
    <3>1. k = 0 \/ k \in 1 .. n
      BY <1>1
    <3> QED
      BY <1>5, <1>6, <3>1
  <2>2. f = [k \in 0 .. n |-> f[k]]
    BY <1>5
  <2> QED
    BY <2>1, <2>2
<1>8. Runs(best)
  <2> HIDE DEF Runs
  <2> QED
    BY <1>7
<1> HIDE DEF best
<1>9. best[0] = 0 /\ \A k \in 1 .. n : best[k] = Round(k, best[k - 1])
  <2>1. best = [k \in 0 .. n |-> IF k = 0 THEN 0 ELSE Round(k, best[k - 1])]
    BY <1>8
  <2>2. 0 \in 0 .. n /\ \A k \in 1 .. n : k \in 0 .. n /\ k # 0
    BY <1>1
  <2> QED
    BY <2>1, <2>2
<1> QED
  BY <1>2, <1>9 DEF n, Round

\* One pass that keeps the first of the nearest ends with the head of the
\* stable sort, for every list of jobs (_nearest_candidate).
THEOREM NearestIsScanned == Spec => []NearestIsHeadOfStableSort
<1>1. Init => NearestIsHeadOfStableSort
  <2> SUFFICES ASSUME Init, Candidates(invoice) # {}
               PROVE  NearestCandidate(invoice) = ScanNearest
    BY DEF NearestIsHeadOfStableSort
  <2> DEFINE C == Candidates(invoice)
             n == Len(Jobs(invoice))
             h == NearestCandidate(invoice)
  <2>1. n \in Nat /\ \A k \in C : k \in 1 .. n
    BY JobsAreListed DEF Candidates
  <2>2. PICK f : /\ ScanNearest = f[n]
                 /\ f[0] = 0
                 /\ \A k \in 1 .. n :
                        f[k] = IF k \in C /\ (f[k - 1] = 0 \/ NearerThan(invoice, k, f[k - 1]))
                               THEN k ELSE f[k - 1]
    BY ScanRuns
  <2> DEFINE Bad == {m \in 0 .. n : ~Heads(f[m], m)}
  <2>3. Bad = {}
    <3> SUFFICES ASSUME Bad # {} PROVE FALSE
      OBVIOUS
    <3>1. PICK m \in Bad : \A j \in Bad : m <= j
      <4>1. Bad \in SUBSET Nat
        BY <2>1
      <4> HIDE DEF Bad
      <4> QED
        BY <4>1, LeastNatural
    <3>2. m \in 0 .. n /\ ~Heads(f[m], m)
      OBVIOUS
    <3>3. Heads(f[0], 0)
      <4>1. \A k \in C : ~(k <= 0)
        BY <2>1
      <4> QED
        BY <2>2, <4>1 DEF Heads
    <3>4. m # 0
      BY <3>2, <3>3
    <3>5. m \in 1 .. n /\ m - 1 \in 0 .. n /\ ~(m <= m - 1) /\ m \in Nat
      BY <2>1, <3>2, <3>4
    <3>6. Heads(f[m - 1], m - 1)
      BY <3>1, <3>5
    <3>7. f[m] = IF m \in C /\ (f[m - 1] = 0 \/ NearerThan(invoice, m, f[m - 1]))
                 THEN m ELSE f[m - 1]
      BY <2>2, <3>5
    <3> HIDE DEF Bad
    <3> QED
      BY <3>2, <3>4, <3>5, <3>6, <3>7, HeadMovesOn
  <2>4. Heads(f[n], n)
    <3>1. n \in 0 .. n
      BY <2>1
    <3> HIDE DEF n
    <3> QED
      BY <2>3, <3>1
  <2> DEFINE b == f[n]
  <2>5. b \in C /\ \A l \in C \ {b} : Precedes(invoice, b, l)
    <3>1. {k \in C : k <= n} = C
      BY <2>1
    <3> HIDE DEF C, b, n
    <3> QED
      BY <2>4, <3>1 DEF Heads, C, b
  <2>6. h \in C /\ \A l \in C \ {h} : Precedes(invoice, h, l)
    BY InvoiceType, NearestExists
  <2>7. h = b
    <3> SUFFICES ASSUME h # b PROVE FALSE
      OBVIOUS
    <3>1. Precedes(invoice, h, b) /\ Precedes(invoice, b, h)
      BY <2>5, <2>6
    <3>2. /\ h \in Nat /\ b \in Nat
          /\ DistanceTo(invoice, h) \in Nat \cup {None}
          /\ DistanceTo(invoice, b) \in Nat \cup {None}
      BY <2>5, <2>6, InvoiceType, DistanceType
    <3>3. ~(NearerThan(invoice, h, b) /\ NearerThan(invoice, b, h))
      <4> DEFINE x == DistanceTo(invoice, h)
                 y == DistanceTo(invoice, b)
      <4>1. ~(/\ x # None /\ (y = None \/ x < y)
              /\ y # None /\ (x = None \/ y < x))
        <5> HIDE DEF x, y
        <5>1. x \in Nat \cup {None} /\ y \in Nat \cup {None}
          BY <3>2 DEF x, y
        <5> QED
          BY <5>1
      <4> QED
        BY <4>1 DEF NearerThan
    <3> HIDE DEF h, b
    <3> QED
      BY <3>1, <3>2, <3>3 DEF Precedes
  <2> QED
    BY <2>2, <2>7
<1> QED
  BY <1>1, DrawnStays, PTL

=============================================================================
