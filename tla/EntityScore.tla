---------------------------- MODULE EntityScore ----------------------------
(***************************************************************************)
(* Entity resolution of a generated corpus and its pairwise score against  *)
(* the ground truth (src/evals/entity_resolution.py).  The resolver never  *)
(* sees the truth.  Precision, recall and F1 are quotients of the counts   *)
(* kept here.                                                              *)
(***************************************************************************)
EXTENDS ResolutionProperties

CONSTANT KestrelDatasets   \* generated datasets: [records, ground_truth]

VARIABLE ground_truth    \* the links of a generated dataset, or none

scoredVars == <<vars, ground_truth>>

Key(row) == <<row.system, row.record_id>>

\* The truth tells of each row, and of nothing else, whose it is; no two rows
\* go by one key; a billing row that names an account is its customer's.
ASSUME EntityScoreAssumption ==
    \A g \in KestrelDatasets :
        LET rows == g.records
            links == g.ground_truth
        IN  /\ \A m, n \in DOMAIN rows : Key(rows[m]) = Key(rows[n]) => m = n
            /\ \A n \in DOMAIN rows : \E l \in links : Key(l) = Key(rows[n])
            /\ \A l \in links : \E n \in DOMAIN rows : Key(l) = Key(rows[n])
            /\ \A l, k \in links : Key(l) = Key(k) => l = k
            /\ \A m, n \in DOMAIN rows :
                   (/\ rows[m].system = "billing" /\ rows[n].system = "crm"
                    /\ rows[m].crm_account_id = rows[n].record_id)
                   => \A l, k \in links : Key(l) = Key(rows[m]) /\ Key(k) = Key(rows[n])
                                              => l.canonical_id = k.canonical_id

\* What may be known of a dataset whose origin is known.
Truths == {<<g.records, g.ground_truth>> : g \in KestrelDatasets}

ScoredInit ==
    /\ Init
    /\ \/ dataset \notin {t[1] : t \in Truths} /\ ground_truth = {}
       \/ \E t \in Truths : dataset = t[1] /\ ground_truth = t[2]

ScoredNext == Next /\ UNCHANGED ground_truth

ScoredSpec == ScoredInit /\ [][ScoredNext]_scoredVars

Generated == ground_truth # {}

-----------------------------------------------------------------------------

\* Unordered pairs of the members of one cluster.
PairsWithin(members) == {{a, b} : a, b \in members} \ {{a} : a \in members}

clusters_to_pairs(clusters) == UNION {PairsWithin(m) : m \in clusters}

Placed == {n \in DOMAIN outcomes : outcomes[n].matched_canonical_id # None}

predicted_clusters ==
    {{Key(outcomes[n]) : n \in {m \in Placed : outcomes[m].matched_canonical_id = id}} :
        id \in {outcomes[n].matched_canonical_id : n \in Placed}}

actual_clusters ==
    {{Key(l) : l \in {k \in ground_truth : k.canonical_id = id}} :
        id \in {l.canonical_id : l \in ground_truth}}

predicted_pairs == clusters_to_pairs(predicted_clusters)
actual_pairs    == clusters_to_pairs(actual_clusters)

score_entity_resolution ==
    [predicted_pairs |-> Cardinality(predicted_pairs),
     actual_pairs |-> Cardinality(actual_pairs),
     true_positive_pairs |-> Cardinality(predicted_pairs \cap actual_pairs),
     resolved_record_count |-> Cardinality(UNION predicted_clusters),
     total_record_count |-> Cardinality(ground_truth)]

-----------------------------------------------------------------------------

OwnerOf(row) ==
    (CHOOSE l \in ground_truth : Key(l) = Key(row)).canonical_id

\* Two records of different customers whose names alone would merge them.
Lookalikes ==
    \E m, n \in DOMAIN dataset :
        /\ dataset[m].name # None /\ dataset[n].name # None
        /\ OwnerOf(dataset[m]) # OwnerOf(dataset[n])
        /\ Similarity[dataset[m].name][dataset[n].name] >= 8500000

PlacedByLlm == {Key(outcomes[n]) : n \in {m \in Placed : outcomes[m].method = "llm"}}

\* As long as no two customers' names look alike, merging costs no precision,
\* in whatever order names and keys place the records: two customers only
\* ever share a cluster over a record the LLM put there.
FalsePairsNeedLookalikes ==
    Generated /\ ~Lookalikes =>
        \A p \in predicted_pairs \ actual_pairs : p \cap PlacedByLlm # {}

\* A billing row of after the cutover is recalled with the account of its
\* customer, even where that account was merged into another customer's.
KeyedPairsAreRecalled ==
    Generated /\ status = "reported" =>
        \A m, n \in DOMAIN dataset :
            (/\ dataset[m].system = "billing" /\ dataset[n].system = "crm"
             /\ dataset[m].crm_account_id = dataset[n].record_id)
            => {Key(dataset[m]), Key(dataset[n])} \in predicted_pairs \cap actual_pairs

\* Nothing is lost between the scorer and the review queue: each record of
\* the ground truth is scored as resolved or waits for a person.
ScoreMeetsQueue ==
    Generated /\ status = "reported" =>
        score_entity_resolution.resolved_record_count + Len(queue)
            = score_entity_resolution.total_record_count

=============================================================================
