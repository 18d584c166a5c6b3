------------------------------- MODULE Golden -------------------------------
(***************************************************************************)
(* The invoice generator behind the golden labels                          *)
(* (src/data/kestrel/invoices.py): one invoice per named PSA job, clean or *)
(* with one discrepancy injected, and the label that says which.  The      *)
(* seeded random choices are any choice within their ranges.               *)
(***************************************************************************)
EXTENDS Agents

CONSTANTS
    FallbackDate,          \* _FALLBACK_DATE
    UnknownCustomerName,   \* _UNKNOWN_CUSTOMER_NAME
    Catalog,               \* first names of the equipment catalog
    BilledDays, OverbillPercents, PhantomOffsets, PhantomRates, DriftDays

ASSUME GoldenAssumption ==
    /\ BilledDays \subseteq 1 .. 5
    /\ OverbillPercents \subseteq 120 .. 150
    /\ PhantomOffsets \subseteq 30 .. 90
    /\ PhantomRates \subseteq 200 .. 900
    /\ DriftDays \subseteq 3 .. 10

\* Mutant: the job's own date is never used.
MutAnchorDate(job) == FallbackDate

AnchorDate(job) ==
    IF job.scheduled_date = None THEN FallbackDate ELSE job.scheduled_date

BaseRate(job) ==
    LET e == job.equipment_description
    IN  IF e \in DOMAIN EquipmentRates THEN EquipmentRates[e] ELSE 300

Billed(name, equipment, date, days, amount) ==
    [customer_name_billed |-> name, equipment_billed |-> equipment,
     service_date |-> date, days_billed |-> days, amount_usd |-> amount]

Labelled(label, inv) == [label |-> label, invoice |-> inv]

\* What the generator can make of one job of the customer that is billed
\* under this name.
GoldenInvoices(job, name) ==
    LET equipment == job.equipment_description
        date == AnchorDate(job)
        rate == BaseRate(job)
    IN  UNION
        {{Labelled("none", Billed(name, equipment, date, d, rate * d)),
          Labelled("unknown_customer",
                   Billed(UnknownCustomerName, equipment, date, d, rate * d))}
         \cup {Labelled("amount_mismatch",
                        Billed(name, equipment, date, d, (rate * d * p) \div 100)) :
                   p \in OverbillPercents}
         \cup {Labelled("no_matching_job",
                        Billed(name, e, date + o, d, r * d)) :
                   e \in Catalog, o \in PhantomOffsets, r \in PhantomRates}
         \cup {Labelled("date_drift",
                        Billed(name, equipment, date + n, d, rate * d)) :
                   n \in DriftDays} : d \in BilledDays}

=============================================================================
