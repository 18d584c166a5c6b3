----------------------------- MODULE Resolution -----------------------------
(***************************************************************************)
(* Entity resolution (src/interop/resolve.py) over one dataset, and what   *)
(* becomes of its report: the tool server built from it (tools.py) and the *)
(* people who work off its review queue.                                   *)
(*                                                                         *)
(* The code resolves the CRM rows, then the billing rows, then the PSA     *)
(* rows; a dataset is their concatenation.  One action resolves one record *)
(* and appends its outcome, so the next record is the one after the        *)
(* outcomes.  An exception discards everything but the dataset; what it    *)
(* discards stays visible here as history.                                 *)
(***************************************************************************)
EXTENDS Matcher, ReviewQueue, Selections

CONSTANTS
    RecordIds,      \* account_id, customer_id and job_id of raw records
    Datasets,       \* concatenated raw records, one sequence per run
    CustomerLookupInput,   \* names of 1 to 200 characters
    Resolvers,      \* subset of BOOLEAN: is an LLM resolver configured
    ReplyIds,       \* ids an LLM or a reviewer may name, with unknown ones
    Confidences,    \* confidences an LLM may state
    Faults          \* subset of {"provider_error"}

VARIABLES
    dataset, use_llm,
    status,         \* of resolve_dataset: "running", "reported" or "raised"
    outcomes,
    server          \* psa_by_canonical of the tool server, once there is one

resolutionVars == <<dataset, use_llm, status, outcomes, server>>
vars == <<matcherVars, queue, resolutionVars>>

\* A CRM row has no foreign key, a CRM or billing row has a name, and the CRM
\* rows come first.
RawRecord ==
    [system : Systems, record_id : RecordIds,
     name : Names \cup {None}, crm_account_id : STRING \cup {None}]

ASSUME ResolutionAssumption ==
    /\ None \notin Nat /\ None \notin Names
    /\ Similarity \in [Names -> [Names -> ScoreRange]]
    /\ \A n \in Names : Similarity[n][n] = Certain
    /\ \A d \in Datasets :
           /\ d \in Seq(RawRecord)
           /\ \A n \in DOMAIN d : d[n].name = None => d[n].system = "psa"
           /\ \A m, n \in DOMAIN d :
                  m < n /\ d[n].system = "crm" => d[m].system = "crm"
    /\ CustomerLookupInput \subseteq Names
    /\ Resolvers \subseteq BOOLEAN
    /\ ReplyIds \subseteq Nat
    /\ Confidences \subseteq ScoreRange

LlmAcceptThreshold == 7500000
MinLookupScore     == 5000000

NoServer == <<>>

Init ==
    /\ MatcherInit /\ QueueInit
    /\ dataset \in Datasets /\ use_llm \in Resolvers
    /\ status = "running" /\ outcomes = <<>> /\ server = NoServer

-----------------------------------------------------------------------------
(* One record.                                                             *)

Resolving == status = "running" /\ Len(outcomes) < Len(dataset)
Record    == dataset[Len(outcomes) + 1]

Conclude(canonical_id, confidence, method) ==
    /\ outcomes' = Append(outcomes,
           [system |-> Record.system, record_id |-> Record.record_id,
            matched_canonical_id |-> canonical_id,
            confidence |-> confidence, method |-> method])
    /\ UNCHANGED <<dataset, use_llm, status, server>>

NameMethod(score) == IF score >= ExactNameConfidence THEN "exact_name" ELSE "fuzzy_name"

MergeCrm ==
    /\ Resolving /\ Record.system = "crm"
    /\ MergeCrmRecord(Record)
    /\ Conclude(Best(Record.name), BestScore(Record.name),
                NameMethod(BestScore(Record.name)))
    /\ UNCHANGED queue

AddCrm ==
    /\ Resolving /\ Record.system = "crm"
    /\ AddCrmRecord(Record)
    /\ Conclude(Len(registry) + 1, Certain, "new_entity")
    /\ UNCHANGED queue

MatchByKey ==
    /\ Resolving /\ HasKnownKey(Record)
    /\ attach(crm_key[Record.crm_account_id], Record)
    /\ Conclude(crm_key[Record.crm_account_id], Certain, "exact_key")
    /\ UNCHANGED <<crm_key, queue>>

\* Billing and PSA records that no key settles.
ByName  == Resolving /\ Record.system # "crm" /\ ~HasKnownKey(Record)
Unnamed == Record.system = "psa" /\ Record.name \in {None, ""}

MatchByName ==
    /\ ByName /\ ~Unnamed
    /\ BestScore(Record.name) >= FuzzyAutoAccept
    /\ attach(Best(Record.name), Record)
    /\ Conclude(Best(Record.name), BestScore(Record.name),
                NameMethod(BestScore(Record.name)))
    /\ UNCHANGED <<crm_key, queue>>

Enqueue(confidence, reason) ==
    /\ add(Record, reason)
    /\ Conclude(None, confidence, "unresolved")
    /\ UNCHANGED matcherVars

HasCandidates == ~Unnamed /\ BestScore(Record.name) > 0

\* Without candidates there is one reason, whether the record has no name or
\* its name resembles none in the registry.
QueueUncandidated ==
    /\ ByName /\ ~HasCandidates
    /\ Enqueue(0, "no_name")

\* Mutant: a name that settles the record does not end the cascade.
MutResidual == ByName /\ HasCandidates

Residual == ByName /\ HasCandidates /\ BestScore(Record.name) < FuzzyAutoAccept

QueueResidual ==
    /\ Residual
    /\ use_llm => BestScore(Record.name) < FuzzyLlmFloor
    /\ Enqueue(BestScore(Record.name), IF use_llm THEN "weak" ELSE "no_resolver")

\* The LLM resolver is asked; an answer that does not parse is None with
\* confidence 0.
AsksLlm == Residual /\ BestScore(Record.name) >= FuzzyLlmFloor /\ use_llm

Accepted(id, confidence) == id # None /\ confidence >= LlmAcceptThreshold

\* Mutant: the outcome of the deterministic stage is returned.
MutAcceptLlm ==
    /\ AsksLlm
    /\ \E id \in ReplyIds, c \in Confidences :
           /\ Accepted(id, c)
           /\ attach(id, Record)
           /\ Conclude(None, BestScore(Record.name), "unresolved")
    /\ UNCHANGED <<crm_key, queue>>

\* The id is attached as it was read: it need not be a candidate.
AcceptLlm ==
    /\ AsksLlm
    /\ \E id \in ReplyIds, c \in Confidences :
           /\ Accepted(id, c)
           /\ attach(id, Record)
           /\ Conclude(id, c, "llm")
    /\ UNCHANGED <<crm_key, queue>>

\* Mutant: the unsure answer is returned but nobody is told.
MutQueueUnsure ==
    /\ AsksLlm
    /\ \E id \in ReplyIds \cup {None}, c \in Confidences \cup {0} : ~Accepted(id, c)
    /\ Conclude(None, BestScore(Record.name), "unresolved")
    /\ UNCHANGED <<matcherVars, queue>>

QueueUnsure ==
    /\ AsksLlm
    /\ \E id \in ReplyIds \cup {None}, c \in Confidences \cup {0} : ~Accepted(id, c)
    /\ Enqueue(BestScore(Record.name), "llm_uncertain")

Abort ==
    /\ status' = "raised"
    /\ UNCHANGED <<matcherVars, queue, dataset, use_llm, outcomes, server>>

\* The KeyError of attach.
AbortOnUnknownId ==
    /\ AsksLlm
    /\ \E id \in ReplyIds, c \in Confidences : Accepted(id, c) /\ id \notin Ids
    /\ Abort

AbortOnProviderError ==
    /\ AsksLlm
    /\ "provider_error" \in Faults
    /\ Abort

Report ==
    /\ status = "running" /\ Len(outcomes) = Len(dataset)
    /\ status' = "reported"
    /\ UNCHANGED <<matcherVars, queue, dataset, use_llm, outcomes, server>>

-----------------------------------------------------------------------------
(* After the report.                                                       *)

RecordsOf(rows) == [k \in DOMAIN rows |-> rows[k].record_id]

\* record_to_canonical; of two outcomes of one job the later one counts.
JobOwner(job_id) ==
    LET placed == {n \in DOMAIN outcomes :
                      /\ outcomes[n].system = "psa"
                      /\ outcomes[n].record_id = job_id
                      /\ outcomes[n].matched_canonical_id # None}
    IN  IF placed = {} THEN None
        ELSE outcomes[CHOOSE n \in placed : \A m \in placed : m <= n].matched_canonical_id

PsaPlacedWith(id) ==
    {n \in DOMAIN dataset : /\ dataset[n].system = "psa"
                            /\ JobOwner(dataset[n].record_id) = id}

\* Mutant: the server keeps one job per customer.
MutJobsServed(id) ==
    LET jobs == Selected(RecordsOf(dataset), PsaPlacedWith(id))
    IN  IF jobs = <<>> THEN <<>> ELSE <<jobs[Len(jobs)]>>

\* The job ids of the PSA records that record_to_canonical gives to id.
JobsServed(id) == Selected(RecordsOf(dataset), PsaPlacedWith(id))

\* KestrelToolServer.__init__: indexes the outcomes once, never again.
BuildServer ==
    /\ status = "reported" /\ server = NoServer
    /\ server' = [id \in Ids |-> JobsServed(id)]
    /\ UNCHANGED <<matcherVars, queue, dataset, use_llm, status, outcomes>>

\* round(score, 4), in ten-thousandths; halves go to the even one.
Rounded(score) ==
    LET whole == score \div 1000
        rest  == score % 1000
    IN  IF rest > 500 \/ (rest = 500 /\ whole % 2 = 1) THEN whole + 1 ELSE whole

MatchScore(query, id) == Rounded(Score(query, id))

Matches(query) == {id \in Ids : Score(query, id) >= MinLookupScore}

\* Mutant: sorted in ascending order and read from the end.
MutListedBefore(query, i, j) ==
    \/ MatchScore(query, i) > MatchScore(query, j)
    \/ MatchScore(query, i) = MatchScore(query, j) /\ j < i

\* Order of a stable sort by descending match_score.
ListedBefore(query, i, j) ==
    \/ MatchScore(query, i) > MatchScore(query, j)
    \/ MatchScore(query, i) = MatchScore(query, j) /\ i < j

\* lookup_customer of an accepted query, its first match, which is all that is
\* read of it; None without one.
lookup_customer(query) ==
    IF Matches(query) = {} THEN None
    ELSE CHOOSE i \in Matches(query) :
             \A j \in Matches(query) \ {i} : ListedBefore(query, i, j)

\* A reviewer closes an item, or closes it again.
Review ==
    /\ status = "reported"
    /\ \E item \in DOMAIN queue, id \in ReplyIds \cup {None} : resolve(item, id)
    /\ UNCHANGED <<matcherVars, resolutionVars>>

-----------------------------------------------------------------------------

ProgramStep ==
    \/ MergeCrm \/ AddCrm \/ MatchByKey \/ MatchByName
    \/ QueueUncandidated \/ QueueResidual
    \/ AcceptLlm \/ QueueUnsure \/ AbortOnUnknownId \/ AbortOnProviderError
    \/ Report

Next == ProgramStep \/ BuildServer \/ Review

Spec == Init /\ [][Next]_vars

=============================================================================
