------------------------------ MODULE Scoring ------------------------------
(***************************************************************************)
(* Scoring one reconciliation result against golden labels                 *)
(* (src/evals/reconciliation.py).  Accuracy, precision and recall are      *)
(* quotients of the counts kept here, over a total every run shares.       *)
(***************************************************************************)
EXTENDS Integers, Sequences, FiniteSets

\* Mutant: only the invoices a person sees get a label.
MutPredictedLabels(result) ==
    LET review == result.human_review
    IN  [id \in {review[k].invoice_id : k \in DOMAIN review} |->
            LET k == CHOOSE k \in DOMAIN review : review[k].invoice_id = id
            IN  review[k].validator_decision.discrepancy]

\* A closed invoice reads as clean; a later entry of the same invoice wins.
PredictedLabels(result) ==
    LET closed == result.closed_invoice_ids
        review == result.human_review
        Entries(id) == {k \in DOMAIN review : review[k].invoice_id = id}
        Latest(id) == CHOOSE k \in Entries(id) : \A l \in Entries(id) : l <= k
    IN  [id \in {closed[k] : k \in DOMAIN closed}
                \cup {review[k].invoice_id : k \in DOMAIN review} |->
            IF Entries(id) = {} THEN "none"
            ELSE review[Latest(id)].validator_decision.discrepancy]

\* Anything else is the ValueError.
Scorable(result, true_discrepancy) ==
    DOMAIN PredictedLabels(result) = DOMAIN true_discrepancy

Discrepancies(labels) == {id \in DOMAIN labels : labels[id] # "none"}

score_reconciliation(result, true_discrepancy) ==
    LET predicted == PredictedLabels(result)
        real      == Discrepancies(true_discrepancy)
        detected  == Discrepancies(predicted)
    IN  [total_invoices |-> Cardinality(DOMAIN true_discrepancy),
         correct_exact_label |->
             Cardinality({id \in DOMAIN true_discrepancy :
                              predicted[id] = true_discrepancy[id]}),
         true_discrepancies |-> Cardinality(real),
         detected_discrepancies |-> Cardinality(detected),
         correctly_detected_discrepancies |-> Cardinality(real \cap detected)]

=============================================================================
