------------------------------ MODULE Kestrel ------------------------------
(***************************************************************************)
(* The synthetic Kestrel corpus (src/data/kestrel/generator.py): customers *)
(* that are exported by three systems under varying names, and the truth   *)
(* about whose record is whose.  The seeded random choices are any choice  *)
(* within their ranges; the fields nothing compares (contacts, addresses,  *)
(* technicians, equipment, dates) are left out.                            *)
(***************************************************************************)
EXTENDS ResolutionProperties

LOCAL INSTANCE SequencesExt
LOCAL INSTANCE TLC

CONSTANTS
    Variation,     \* _vary_name: the variants of each canonical name
    Corpora,       \* sequences of canonical customers
    JobCounts      \* numbers of PSA jobs a customer can have

CanonicalCustomer == [canonical_name : Names, onboarded_year : 2017 .. 2025]

ASSUME KestrelAssumption ==
    /\ Variation \in [Names -> SUBSET Names]
    /\ \A n \in Names : n \in Variation[n]
    /\ \A c \in Corpora :
           /\ c \in Seq(CanonicalCustomer)
           /\ \A j, k \in DOMAIN c :
                  j # k => c[j].canonical_name # c[k].canonical_name
    /\ JobCounts \subseteq 1 .. 4

\* The ids carry the position of the customer, those of jobs a running number.
AccountId(k)   == "C" \o ToString(k)
DuplicateId(k) == AccountId(k) \o "D"
CustomerId(k)  == "B" \o ToString(k)
JobId(n)       == "J" \o ToString(n)

Row(system, id, name, key) ==
    [system |-> system, record_id |-> id, name |-> name, crm_account_id |-> key]

NamesOf(customer) == Variation[customer.canonical_name]

\* One account per customer, and perhaps a duplicate that was never merged.
CrmRows(customer, k) ==
    {<<Row("crm", AccountId(k), n, None)>> : n \in NamesOf(customer)}
    \cup {<<Row("crm", AccountId(k), n, None), Row("crm", DuplicateId(k), m, None)>> :
              n, m \in NamesOf(customer)}

\* The join key exists only after the cutover.
JoinKey(customer, k) ==
    IF customer.onboarded_year >= 2021 THEN AccountId(k) ELSE None

BillingRows(customer, k) ==
    {<<Row("billing", CustomerId(k), n, JoinKey(customer, k))>> :
         n \in NamesOf(customer)}

\* Jobs first .. last, each with a variant of the name or with none at all.
PsaRows(customer, first, last) ==
    {[j \in 1 .. last - first + 1 |-> Row("psa", JobId(first + j - 1), f[j], None)] :
         f \in [1 .. last - first + 1 -> NamesOf(customer) \cup {None}]}

\* Every way to put one element of each set one after the other.
Product(sets) ==
    FoldLeft(LAMBDA done, s : {d \o x : d \in done, x \in s}, {<<>>}, sets)

JobsBefore(counts, k) == FoldLeft(LAMBDA sum, n : sum + n, 0, SubSeq(counts, 1, k - 1))

Links(rows, canonical_id) ==
    {[canonical_id |-> canonical_id, system |-> rows[n].system,
      record_id |-> rows[n].record_id] : n \in DOMAIN rows}

\* One system's rows, customer by customer, with their links.
Linked(RowsOf(_, _), customers) ==
    Product([k \in DOMAIN customers |->
        {<<[rows |-> r, links |-> Links(r, k)]>> : r \in RowsOf(customers[k], k)}])

Assembled(parts) ==
    [records |-> FlattenSeq([p \in DOMAIN parts |-> parts[p].rows]),
     ground_truth |-> UNION {parts[p].links : p \in DOMAIN parts}]

generate_kestrel_dataset(customers) ==
    UNION {LET Psa(customer, k) == PsaRows(customer, JobsBefore(counts, k) + 1,
                                           JobsBefore(counts, k + 1))
           IN  {Assembled(c \o b \o p) :
                    c \in Linked(CrmRows, customers),
                    b \in Linked(BillingRows, customers),
                    p \in Linked(Psa, customers)} :
           counts \in [DOMAIN customers -> JobCounts]}

GeneratedDatasets == UNION {generate_kestrel_dataset(c) : c \in Corpora}

=============================================================================
