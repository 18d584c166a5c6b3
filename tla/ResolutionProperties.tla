------------------------ MODULE ResolutionProperties ------------------------
(***************************************************************************)
(* What entity resolution promises, and statements of the documentation    *)
(* and the tests that it does not keep.                                    *)
(***************************************************************************)
EXTENDS Resolution

Methods == {"exact_key", "exact_name", "fuzzy_name", "llm", "new_entity", "unresolved"}

\* The types of the state.
TypeOK ==
    /\ registry \in Seq([name : Names,
                         source_record_ids : [Systems -> Seq(RecordIds)]])
    /\ DOMAIN crm_key \subseteq RecordIds
    /\ \A a \in DOMAIN crm_key : crm_key[a] \in Ids
    /\ queue \in Seq([system : Systems \ {"crm"}, record_id : RecordIds,
                      reason : Reasons,
                      status : {"pending", "resolved", "rejected"},
                      resolved_canonical_id : ReplyIds \cup {None}])
    /\ use_llm \in BOOLEAN
    /\ status \in {"running", "reported", "raised"}
    /\ outcomes \in Seq([system : Systems, record_id : RecordIds,
                         matched_canonical_id : Nat \cup {None},
                         confidence : ScoreRange, method : Methods])
    /\ DOMAIN server \subseteq Ids
    /\ \A id \in DOMAIN server : server[id] \in Seq(RecordIds)

-----------------------------------------------------------------------------
(* Placement.                                                              *)

PlacedWith(id, system) ==
    Selected(RecordsOf(outcomes),
             {n \in DOMAIN outcomes : /\ outcomes[n].system = system
                                      /\ outcomes[n].matched_canonical_id = id})

\* The registry and the list of outcomes say the same: what each customer
\* holds of each system is what the outcomes placed with it, in that order,
\* whichever of the four stages placed it.
OutcomesExplainRegistry ==
    \A id \in Ids, s \in Systems :
        registry[id].source_record_ids[s] = PlacedWith(id, s)

UnplacedRecords ==
    Selected(RecordsOf(outcomes),
             {n \in DOMAIN outcomes : outcomes[n].matched_canonical_id = None})

\* A record waits for a person exactly when no stage placed it: the queue
\* holds the records of the unplaced outcomes, each once, in order.
UnplacedWaitForReview ==
    RecordsOf(queue) = UnplacedRecords

\* Two customers of the registry are never so alike that the later one would
\* have been merged into the earlier one when it was created.
CustomersStayApart ==
    \A i, j \in Ids :
        i < j => Similarity[registry[j].name][registry[i].name] < FuzzyAutoAccept

CrmAccounts == {n \in DOMAIN dataset : dataset[n].system = "crm"}

\* A billing record with the foreign key of an exported CRM account ends up
\* with the customer that holds the account, also when the account was
\* merged into a customer created from another account.
KeyFollowsAccount ==
    \A n \in DOMAIN outcomes, a \in CrmAccounts :
        (/\ dataset[n].system = "billing"
         /\ dataset[n].crm_account_id = dataset[a].record_id)
        => \E id \in Ids :
               /\ outcomes[n].matched_canonical_id = id
               /\ outcomes[n].method = "exact_key"
               /\ \E k \in DOMAIN registry[id].source_record_ids["crm"] :
                      registry[id].source_record_ids["crm"][k] = dataset[a].record_id

\* A billing or PSA record placed by its name is with a customer that no
\* customer of the registry outscores: nothing is added to the registry
\* after the CRM rows that would have been a better home.
PlacedByNameIsBest ==
    \A n \in DOMAIN outcomes :
        (outcomes[n].system # "crm" /\ outcomes[n].method \in {"exact_name", "fuzzy_name"})
        => \A id \in Ids :
               Score(dataset[n].name, id)
                   <= Score(dataset[n].name, outcomes[n].matched_canonical_id)

\* Likeness does not chain: what the program itself placed resembles the very
\* account its customer was created from, not merely one that was merged into
\* it since, or it is a billing record with the key of one of the customer's
\* accounts.
NoChainedMerges ==
    \A n \in DOMAIN outcomes :
        outcomes[n].matched_canonical_id # None /\ outcomes[n].method # "llm" =>
            \E a \in CrmAccounts \cap DOMAIN outcomes :
                /\ outcomes[a].matched_canonical_id = outcomes[n].matched_canonical_id
                /\ \/ /\ outcomes[a].method = "new_entity"
                      /\ Similarity[dataset[n].name][dataset[a].name] >= FuzzyAutoAccept
                   \/ /\ dataset[n].system = "billing"
                      /\ dataset[n].crm_account_id = dataset[a].record_id

-----------------------------------------------------------------------------
(* The tool server.                                                        *)

\* The server lists for a customer the PSA jobs that the registry holds for
\* it, although it derives them from the outcomes alone.
ServerAgreesWithRegistry ==
    server # NoServer =>
        \A id \in Ids : server[id] = registry[id].source_record_ids["psa"]

\* A customer is found under its own name, if a lookup accepts the name: as
\* long as the customers are apart, no other one comes first.
CustomerFoundByOwnName ==
    \A id \in Ids :
        registry[id].name \in CustomerLookupInput =>
            lookup_customer(registry[id].name) = id

\* The names the agents bill by lead where the resolver put the jobs: a PSA
\* job placed by its name is listed for the first customer lookup_customer
\* finds under that name, with a score the agents accept
\* (_CUSTOMER_MATCH_THRESHOLD in agents.py).  Only rounding comes between: an
\* earlier customer may come first whose score rounds to the same.
NamedJobIsFoundUnderItsName ==
    server # NoServer =>
        \A n \in DOMAIN outcomes :
            (/\ outcomes[n].system = "psa"
             /\ outcomes[n].method \in {"exact_name", "fuzzy_name"}
             /\ dataset[n].name \in CustomerLookupInput)
            => LET owner == outcomes[n].matched_canonical_id
                   name  == dataset[n].name
                   found == lookup_customer(name)
               IN  /\ MatchScore(name, found) >= 7500
                   /\ \/ found = owner
                      \/ found < owner /\ MatchScore(name, found) = MatchScore(name, owner)
                   /\ \E k \in DOMAIN server[owner] :
                          server[owner][k] = dataset[n].record_id

\* Two PSA jobs of an export have different ids.  Of two with one id
\* record_to_canonical keeps the later owner, and the server would list both
\* under it, which is not what the registry holds.
DistinctJobs ==
    \A d \in Datasets : \A m, n \in DOMAIN d :
        (/\ d[m].system = "psa" /\ d[n].system = "psa"
         /\ d[m].record_id = d[n].record_id)
        => m = n

-----------------------------------------------------------------------------
(* Statements of the documentation, the comments and the tests.            *)

\* review_queue.py:4: "A record either resolves with a confidence a human
\* would sign off on, or it waits here"; checked with providers that never
\* raise.
EveryRecordResolvesOrWaits ==
    status # "running" => Len(outcomes) = Len(dataset)

=============================================================================
