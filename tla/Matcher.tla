------------------------------- MODULE Matcher -------------------------------
(***************************************************************************)
(* DeterministicMatcher (src/interop/deterministic.py): the registry of    *)
(* canonical customers and the index from CRM account to customer.         *)
(*                                                                         *)
(* Canonical ids are numbered in the order the registry is filled, so the  *)
(* registry is the sequence of its customers.  The name comparison of      *)
(* normalize.py is the constant Similarity: a table of ten-millionths, in  *)
(* general not symmetric, in which a name scores Certain with itself.      *)
(* Scores are quotients of lengths; in this unit two that differ stay      *)
(* apart, and so do a score and half a unit of a rounded one.              *)
(***************************************************************************)
EXTENDS Integers, Sequences, FiniteSets

CONSTANT
    Similarity      \* name_similarity: Similarity[a][b] for names a and b

VARIABLES
    registry,       \* _registry
    crm_key         \* _crm_account_id_to_canonical

matcherVars == <<registry, crm_key>>

Certain    == 10000000
ScoreRange == 0 .. Certain

ExactNameConfidence == 9500000
FuzzyLlmFloor       == 5500000
TopK                == 3

\* Mutant: a threshold that takes two names with a common core for one.
MutFuzzyAutoAccept == 6500000

FuzzyAutoAccept == 8500000

Systems == {"crm", "billing", "psa"}
Names   == DOMAIN Similarity
Ids     == DOMAIN registry

MatcherInit == registry = <<>> /\ crm_key = <<>>

Score(name, id) == Similarity[name][registry[id].name]

\* Order of a stable sort by descending score, and of a scan that keeps the
\* first of the highest scores.
Outscores(name, i, j) ==
    \/ Score(name, i) > Score(name, j)
    \/ Score(name, i) = Score(name, j) /\ i < j

\* Mutant: the scan stops at the first customer with any similarity.
MutBest(name) ==
    CHOOSE i \in Ids : \A j \in Ids \ {i} :
        Score(name, j) = 0 \/ (Score(name, i) > 0 /\ i < j)

Best(name) == CHOOSE i \in Ids : \A j \in Ids \ {i} : Outscores(name, i, j)

BestScore(name) == IF Ids = {} THEN 0 ELSE Score(name, Best(name))

\* The ids of candidates_for_name; Best heads the list when there is one.
Candidates(name) ==
    {i \in Ids : /\ Score(name, i) > 0
                 /\ Cardinality({j \in Ids \ {i} : Outscores(name, j, i)}) < TopK}

NewCustomer(name) == [name |-> name, source_record_ids |-> [s \in Systems |-> <<>>]]

With(customers, id, rec) ==
    [customers EXCEPT ![id].source_record_ids[rec.system] =
         Append(@, rec.record_id)]

\* A KeyError unless the id is known.
attach(id, rec) == id \in Ids /\ registry' = With(registry, id, rec)

IndexAccount(account_id, id) ==
    crm_key' = [a \in DOMAIN crm_key \cup {account_id} |->
                    IF a = account_id THEN id ELSE crm_key[a]]

\* Mutant: only the account a customer was created from is indexed.
MutMergeCrmRecord(rec) ==
    /\ BestScore(rec.name) >= FuzzyAutoAccept
    /\ attach(Best(rec.name), rec)
    /\ UNCHANGED crm_key

MergeCrmRecord(rec) ==
    /\ BestScore(rec.name) >= FuzzyAutoAccept
    /\ attach(Best(rec.name), rec)
    /\ IndexAccount(rec.record_id, Best(rec.name))

\* Mutant: the counter moves on before the id is written to the index.
MutAddCrmRecord(rec) ==
    /\ BestScore(rec.name) < FuzzyAutoAccept
    /\ registry' = With(Append(registry, NewCustomer(rec.name)),
                        Len(registry) + 1, rec)
    /\ IndexAccount(rec.record_id, Len(registry) + 2)

AddCrmRecord(rec) ==
    /\ BestScore(rec.name) < FuzzyAutoAccept
    /\ registry' = With(Append(registry, NewCustomer(rec.name)),
                        Len(registry) + 1, rec)
    /\ IndexAccount(rec.record_id, Len(registry) + 1)

\* A foreign key of None or "" is in no index.
HasKnownKey(rec) == rec.system = "billing" /\ rec.crm_account_id \in DOMAIN crm_key

=============================================================================
