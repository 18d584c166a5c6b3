----------------------------- MODULE MCPipeline -----------------------------
(***************************************************************************)
(* Instances of the reconciliation run for TLC.  One known customer with   *)
(* one job per kind of equipment, and one invoice per path through the     *)
(* agents; the runs choose batches of two or three of them.                *)
(***************************************************************************)
EXTENDS PipelineRefinement, CostReport

MCBestMatch ==
    [n \in {"acme", "zzyzx"} |->
        [canonical_id |-> "c1", match_score |-> IF n = "acme" THEN 92 ELSE 60]]

MCJob(id, equipment, date) ==
    [job_id |-> id, equipment_description |-> equipment, scheduled_date |-> date]

MCJobsOf ==
    [c \in {"c1"} |-> << MCJob("j1", "crane", 10), MCJob("j2", "crane", 40),
                         MCJob("j3", "lift", None) >>]

MCEquipmentRates == [e \in {"crane", "lift"} |-> 100]

MCInvoice(id, name, equipment, date, amount) ==
    [invoice_id |-> id, customer_name_billed |-> name,
     equipment_billed |-> equipment, service_date |-> date,
     days_billed |-> 1, amount_usd |-> amount]

Clean    == MCInvoice("clean", "acme", "crane", 11, 100)
Drifted  == MCInvoice("drifted", "acme", "crane", 12, 100)
Distant  == MCInvoice("distant", "acme", "crane", 16, 100)
Undated  == MCInvoice("undated", "acme", "lift", 10, 100)
Unknown  == MCInvoice("unknown", "zzyzx", "crane", 10, 100)
NoJob    == MCInvoice("nojob", "acme", "drill", 10, 100)
Off      == MCInvoice("off", "acme", "crane", 10, 106)
Nameless == MCInvoice("nameless", "", "crane", 10, 100)

MixedBatch   == <<Clean, Drifted, Distant>>
DoubtfulBatch == <<Drifted, Undated>>
DriftedBatch == <<Clean, Drifted>>
RefusedBatch == <<Undated, Drifted, Nameless>>

MCTaskIds ==
    {Invoices[k].invoice_id : k \in DOMAIN Invoices}

ShippedOnly == {ShippedRouting}
BrokenTables ==
    {[ShippedRouting EXCEPT !.routes["disagreement_writeup_escalated"] = "unset"],
     [ShippedRouting EXCEPT !.tiers["cheap"] = "unset"]}
EveryTable == ShippedOnly \cup BrokenTables

BothProviders == {{"analyst", "validator"}}
EveryProvider == SUBSET {"analyst", "validator"}

\* The instances meet the hypotheses of the theorems about callers.
ASSUME MCHypotheses == DistinctIds /\ (Faults = {} => CallsReturn)

=============================================================================
