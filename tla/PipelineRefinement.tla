------------------------- MODULE PipelineRefinement -------------------------
(***************************************************************************)
(* The reconciliation run implements the ledger: a verdict is a row of the *)
(* log in a terminal state, the cursor is the loop index of the call.      *)
(***************************************************************************)
EXTENDS PipelineProperties

VerdictsInLog ==
    [i \in Positions |->
        {v \in Terminal : \E k \in DOMAIN log :
            log[k].step_index = i /\ log[k].to_state = v}]

Ledger == INSTANCE ReconciliationLedger WITH
    BatchSize  <- Len(Invoices),
    status     <- run.status,
    checkpoint <- run.resume_index,
    cursor     <- IF pc \in {"idle", "returning"} THEN -1 ELSE idx,
    verdicts   <- VerdictsInLog

\* Every step of the run is a step of the ledger or changes nothing in it.
ImplementsLedger == Ledger!LedgerSpec

=============================================================================
