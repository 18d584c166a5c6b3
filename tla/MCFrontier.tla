----------------------------- MODULE MCFrontier -----------------------------
(***************************************************************************)
(* The frontier over a corpus with one invoice per path through the agents *)
(* and a label that says what is really wrong with it.                     *)
(***************************************************************************)
EXTENDS MCPipeline, Frontier

Late == MCInvoice("late", "acme", "crane", 13, 100)

Corpus == <<Unknown, NoJob, Off, Clean, Drifted, Late, Distant, Undated>>

MCTrueDiscrepancy ==
    [t \in MCTaskIds |->
        CASE t = "unknown" -> "unknown_customer"
          [] t = "nojob"   -> "no_matching_job"
          [] t = "off"     -> "amount_mismatch"
          [] t \in {"late", "distant"} -> "date_drift"
          [] OTHER         -> "none"]

MCConfigs ==
    <<single_tier_routing("haiku"), single_tier_routing("opus"), ShippedRouting,
      [ShippedRouting EXCEPT !.routes["disagreement_writeup_escalated"] = "unset"]>>

MCConfigTables == {MCConfigs[k] : k \in DOMAIN MCConfigs}

=============================================================================
