------------------------- MODULE EntityScoreProofs -------------------------
(***************************************************************************)
(* Proofs about the score of a resolution against the ground truth: every  *)
(* record is scored or waits, a billing row is recalled with the account   *)
(* its key names, and precision is only lost to names that look alike or   *)
(* to the LLM.                                                             *)
(***************************************************************************)
EXTENDS EntityScore, ResolutionProofs, FiniteSetTheorems

-----------------------------------------------------------------------------
(* Counting.                                                               *)

\* Two sets that match one to one have as many elements.
LEMMA CountsAlike ==
    ASSUME NEW S, IsFiniteSet(S), NEW T, NEW f \in [S -> T],
           \A a, b \in S : f[a] = f[b] => a = b, \A t \in T : \E a \in S : f[a] = t
    PROVE  IsFiniteSet(T) /\ Cardinality(T) = Cardinality(S)
<1>1. f \in Surjection(S, T) /\ f \in Injection(S, T)
  BY DEF Surjection, Injection, IsInjective
<1> QED
  BY <1>1, FS_Surjection

\* Positions are finitely many.
LEMMA PositionsFinite ==
    ASSUME NEW n \in Nat
    PROVE  /\ IsFiniteSet(1 .. n) /\ Cardinality(1 .. n) = n
           /\ \A S \in SUBSET (1 .. n) : IsFiniteSet(S) /\ Cardinality(S) \in Nat
<1> DEFINE one == 1
<1>1. one \in Int /\ n \in Int /\ (IF one > n THEN 0 ELSE n - one + 1) = n
  OBVIOUS
<1> HIDE DEF one
<1>2. IsFiniteSet(one .. n) /\ Cardinality(one .. n) = n
  BY <1>1, FS_Interval
<1>3. ASSUME NEW S \in SUBSET (1 .. n) PROVE IsFiniteSet(S) /\ Cardinality(S) \in Nat
  BY <1>2, FS_Subset, FS_CardinalityType DEF one
<1> QED
  BY <1>2, <1>3 DEF one

\* A selection has one element per position selected.
LEMMA SelectedCounts ==
    ASSUME NEW X, NEW s \in Seq(X), NEW S
    PROVE  Len(Selected(s, S)) = Cardinality({k \in DOMAIN s : k \in S})
<1> DEFINE n == Len(s)
<1>1. n \in Nat /\ DOMAIN s = 1 .. n /\ \A k \in 1 .. n : s[k] \in X
  OBVIOUS
<1> HIDE DEF n
<1>2. PICK f : Keeps(f, s, S, n) /\ Selected(s, S) = f[n]
  BY <1>1, SelectedRun DEF n
<1> DEFINE First(m) == {k \in 1 .. m : k \in S}
           Right(m) == f[m] \in Seq(X) /\ Len(f[m]) = Cardinality(First(m))
           Bad == {m \in 0 .. n : ~Right(m)}
<1>3. ASSUME NEW m \in 1 .. n, Right(m - 1) PROVE Right(m)
  <2> DEFINE old == f[m - 1]
             before == First(m - 1)
  <2>1. f[m] = IF m \in S THEN Append(old, s[m]) ELSE old
    <3>1. m \in 0 .. n /\ m # 0
      BY <1>1
    <3> HIDE DEF Right
    <3> QED
      BY <1>2, <3>1 DEF Keeps
  <2>2. /\ s[m] \in X /\ old \in Seq(X) /\ Len(old) = Cardinality(before)
        /\ m \notin before
        /\ First(m) = IF m \in S THEN before \cup {m} ELSE before
    BY <1>1, <1>3
  <2>3. IsFiniteSet(before)
    <3>1. m - 1 \in Nat /\ before \in SUBSET (1 .. m - 1)
      BY <1>1
    <3> HIDE DEF before
    <3> QED
      BY <3>1, PositionsFinite
  <2> HIDE DEF before, old
  <2>4. CASE m \in S
    <3>1. f[m] \in Seq(X) /\ Len(f[m]) = Len(old) + 1
      BY <2>1, <2>2, <2>4
    <3>2. Cardinality(before \cup {m}) = Cardinality(before) + 1
      BY <2>2, <2>3, FS_AddElement
    <3> QED
      BY <2>2, <2>4, <3>1, <3>2
  <2>5. CASE m \notin S
    BY <2>1, <2>2, <2>5
  <2> QED
    BY <2>4, <2>5
<1>4. Right(0)
  <2>1. f[0] = <<>> /\ First(0) = {}
    BY <1>1, <1>2 DEF Keeps
  <2> HIDE DEF First
  <2> QED
    BY <2>1, FS_EmptySet
<1>5. First(n) = {k \in DOMAIN s : k \in S}
  BY <1>1
<1> HIDE DEF Right
<1>6. Bad = {}
  <2> SUFFICES ASSUME Bad # {} PROVE FALSE
    OBVIOUS
  <2>1. PICK m \in Bad : \A j \in Bad : m <= j
    <3>1. Bad \in SUBSET Nat
      BY <1>1
    <3> HIDE DEF Bad
    <3> QED
      BY <3>1, LeastNatural
  <2>2. m \in 0 .. n /\ ~Right(m)
    OBVIOUS
  <2>3. m \in 1 .. n /\ m - 1 \in 0 .. n /\ ~(m <= m - 1)
    BY <1>1, <1>4, <2>2
  <2>4. Right(m - 1)
    BY <2>1, <2>3
  <2> QED
    BY <1>3, <2>2, <2>3, <2>4
<1>7. Right(n)
  BY <1>1, <1>6
<1> QED
  BY <1>2, <1>5, <1>7 DEF Right

-----------------------------------------------------------------------------
(* The rows and the truth.                                                 *)

\* A truth is that of the dataset.
TruthIsOfRows ==
    Generated => \E g \in KestrelDatasets :
                     dataset = g.records /\ ground_truth = g.ground_truth

Scored == IInv /\ Traced /\ Reasoned /\ TruthIsOfRows

\* No step of the resolver, the server or a reviewer changes an export.
LEMMA DatasetStays == [Next]_vars => dataset' = dataset
<1> SUFFICES ASSUME [Next]_vars PROVE dataset' = dataset
  OBVIOUS
<1>1. CASE MergeCrm \/ AddCrm \/ MatchByKey \/ MatchByName \/ AcceptLlm
  <2>1. \E id, c, m : Conclude(id, c, m)
    <3>1. CASE MergeCrm
      BY <3>1 DEF MergeCrm
    <3>2. CASE AddCrm
      BY <3>2 DEF AddCrm
    <3>3. CASE MatchByKey
      BY <3>3 DEF MatchByKey
    <3>4. CASE MatchByName
      BY <3>4 DEF MatchByName
    <3>5. CASE AcceptLlm
      BY <3>5 DEF AcceptLlm
    <3> QED
      BY <1>1, <3>1, <3>2, <3>3, <3>4, <3>5
  <2> QED
    BY <2>1 DEF Conclude
<1>2. CASE QueueUncandidated \/ QueueResidual \/ QueueUnsure
  BY <1>2 DEF QueueUncandidated, QueueResidual, QueueUnsure, Enqueue, Conclude
<1>3. CASE AbortOnUnknownId \/ AbortOnProviderError \/ Report \/ BuildServer \/ Review
           \/ UNCHANGED vars
  BY <1>3 DEF AbortOnUnknownId, AbortOnProviderError, Abort, Report, BuildServer,
     Review, vars, resolutionVars
<1> QED
  BY <1>1, <1>2, <1>3 DEF Next, ProgramStep

LEMMA ScoredHolds == ScoredSpec => []Scored
<1>1. ScoredInit => Scored
  <2> SUFFICES ASSUME ScoredInit PROVE Scored
    OBVIOUS
  <2>1. IInv /\ Traced /\ Reasoned
    BY InitHolds, InitTraces, InitReasoned DEF ScoredInit
  <2>2. TruthIsOfRows
    <3>1. CASE ground_truth = {}
      BY <3>1 DEF TruthIsOfRows, Generated
    <3>2. CASE \E t \in Truths : dataset = t[1] /\ ground_truth = t[2]
      BY <3>2 DEF TruthIsOfRows, Truths
    <3> QED
      BY <3>1, <3>2 DEF ScoredInit
  <2> QED
    BY <2>1, <2>2 DEF Scored
<1>2. Scored /\ [ScoredNext]_scoredVars => Scored'
  <2> SUFFICES ASSUME Scored, [ScoredNext]_scoredVars PROVE Scored'
    OBVIOUS
  <2>1. [Next]_vars /\ ground_truth' = ground_truth
    BY DEF ScoredNext, scoredVars
  <2>2. IInv' /\ Traced' /\ Reasoned'
    BY <2>1, StepHolds, StepTraces, StepReasoned DEF Scored
  <2>3. TruthIsOfRows'
    BY <2>1, DatasetStays DEF Scored, TruthIsOfRows, Generated
  <2> QED
    BY <2>2, <2>3 DEF Scored
<1> QED
  BY <1>1, <1>2, PTL DEF ScoredSpec

\* What the generator promises of its rows and links.
RowsMatchLinks ==
    /\ \A m, n \in DOMAIN dataset : Key(dataset[m]) = Key(dataset[n]) => m = n
    /\ \A n \in DOMAIN dataset : \E l \in ground_truth : Key(l) = Key(dataset[n])
    /\ \A l \in ground_truth : \E n \in DOMAIN dataset : Key(l) = Key(dataset[n])
    /\ \A l, k \in ground_truth : Key(l) = Key(k) => l = k
    /\ \A m, n \in DOMAIN dataset :
           (/\ dataset[m].system = "billing" /\ dataset[n].system = "crm"
            /\ dataset[m].crm_account_id = dataset[n].record_id)
           => \A l, k \in ground_truth :
                  Key(l) = Key(dataset[m]) /\ Key(k) = Key(dataset[n])
                      => l.canonical_id = k.canonical_id

LEMMA GeneratedMatches ==
    ASSUME TruthIsOfRows, Generated
    PROVE  RowsMatchLinks
BY EntityScoreAssumption DEF EntityScoreAssumption, TruthIsOfRows, RowsMatchLinks

\* The owner the truth names has a link to the row.
LEMMA OwnerHasLink ==
    ASSUME RowsMatchLinks, NEW n \in DOMAIN dataset
    PROVE  \E l \in ground_truth :
               Key(l) = Key(dataset[n]) /\ l.canonical_id = OwnerOf(dataset[n])
BY DEF RowsMatchLinks, OwnerOf

\* A key leads to a row of the same owner.
LEMMA KeyOwnsRow ==
    ASSUME RowsMatchLinks, NEW m \in DOMAIN dataset, NEW n \in DOMAIN dataset,
           dataset[m].system = "billing", dataset[n].system = "crm",
           dataset[m].crm_account_id = dataset[n].record_id
    PROVE  OwnerOf(dataset[m]) = OwnerOf(dataset[n])
<1>1. PICK l \in ground_truth :
          Key(l) = Key(dataset[m]) /\ l.canonical_id = OwnerOf(dataset[m])
  BY OwnerHasLink
<1>2. PICK k \in ground_truth :
          Key(k) = Key(dataset[n]) /\ k.canonical_id = OwnerOf(dataset[n])
  BY OwnerHasLink
<1> QED
  BY <1>1, <1>2 DEF RowsMatchLinks

\* Rows of one owner are a pair of the truth.
LEMMA ActualPair ==
    ASSUME RowsMatchLinks, NEW m \in DOMAIN dataset, NEW n \in DOMAIN dataset,
           OwnerOf(dataset[m]) = OwnerOf(dataset[n]), Key(dataset[m]) # Key(dataset[n])
    PROVE  {Key(dataset[m]), Key(dataset[n])} \in actual_pairs
<1> DEFINE id == OwnerOf(dataset[m])
           members == {Key(l) : l \in {k \in ground_truth : k.canonical_id = id}}
           a == Key(dataset[m])
           b == Key(dataset[n])
<1>1. PICK l \in ground_truth : Key(l) = a /\ l.canonical_id = id
  BY OwnerHasLink
<1>2. PICK k \in ground_truth : Key(k) = b /\ k.canonical_id = id
  BY OwnerHasLink
<1>3. members \in actual_clusters
  BY <1>1 DEF actual_clusters
<1>4. a \in members /\ b \in members /\ a # b
  BY <1>1, <1>2
<1> HIDE DEF members, a, b
<1>5. {a, b} \in PairsWithin(members)
  BY <1>4 DEF PairsWithin
<1>6. {a, b} \in actual_pairs
  BY <1>3, <1>5 DEF actual_pairs, clusters_to_pairs
<1> QED
  BY <1>6 DEF a, b

\* Records of one customer are a pair of the prediction.
LEMMA PredictedPair ==
    ASSUME NEW m \in Placed, NEW n \in Placed, Key(outcomes[m]) # Key(outcomes[n]),
           outcomes[m].matched_canonical_id = outcomes[n].matched_canonical_id
    PROVE  {Key(outcomes[m]), Key(outcomes[n])} \in predicted_pairs
<1> DEFINE id == outcomes[m].matched_canonical_id
           members == {Key(outcomes[k]) :
                          k \in {j \in Placed : outcomes[j].matched_canonical_id = id}}
           a == Key(outcomes[m])
           b == Key(outcomes[n])
<1>1. members \in predicted_clusters
  BY DEF predicted_clusters
<1>2. a \in members /\ b \in members /\ a # b
  OBVIOUS
<1> HIDE DEF members, a, b
<1>3. {a, b} \in PairsWithin(members)
  BY <1>2 DEF PairsWithin
<1>4. {a, b} \in predicted_pairs
  BY <1>1, <1>3 DEF predicted_pairs, clusters_to_pairs
<1> QED
  BY <1>4 DEF a, b

\* And every pair of the prediction is of two such records.
LEMMA PredictedPairOnly ==
    ASSUME NEW p \in predicted_pairs
    PROVE  \E m, n \in Placed :
               /\ p = {Key(outcomes[m]), Key(outcomes[n])}
               /\ Key(outcomes[m]) # Key(outcomes[n])
               /\ outcomes[m].matched_canonical_id = outcomes[n].matched_canonical_id
<1>1. PICK c \in predicted_clusters : p \in PairsWithin(c)
  BY DEF predicted_pairs, clusters_to_pairs
<1>2. PICK a \in c, b \in c : p = {a, b} /\ a # b
  BY <1>1 DEF PairsWithin
<1>3. PICK id : c = {Key(outcomes[k]) :
                        k \in {j \in Placed : outcomes[j].matched_canonical_id = id}}
  BY DEF predicted_clusters
<1>4. PICK m \in Placed : a = Key(outcomes[m]) /\ outcomes[m].matched_canonical_id = id
  BY <1>2, <1>3
<1>5. PICK n \in Placed : b = Key(outcomes[n]) /\ outcomes[n].matched_canonical_id = id
  BY <1>2, <1>3
<1> QED
  BY <1>2, <1>4, <1>5

\* An outcome goes by the key of its row.
LEMMA OutcomeKeys ==
    ASSUME IInv, Traced, NEW n \in DOMAIN outcomes
    PROVE  n \in DOMAIN dataset /\ Key(outcomes[n]) = Key(dataset[n])
<1>1. n \in DOMAIN dataset
  <2>1. dataset \in Seq(RawRecord) /\ outcomes \in Seq(Outcome) /\ Len(outcomes) <= Len(dataset)
    BY ResolutionAssumption DEF ResolutionAssumption, IInv, Typed
  <2> QED
    BY <2>1
<1> QED
  BY <1>1 DEF IInv, Typed, Traced, RecordsTraced, OutcomesNamed, Key

-----------------------------------------------------------------------------
(* Recall.                                                                 *)

\* The resolver finds every pair that a foreign key tells, for every corpus
\* and whatever its names were merged into (resolve_billing_record).
THEOREM KeysAreRecalled == ScoredSpec => []KeyedPairsAreRecalled
<1>1. Scored => KeyedPairsAreRecalled
  <2> SUFFICES ASSUME Scored, Generated, status = "reported",
                      NEW m \in DOMAIN dataset, NEW n \in DOMAIN dataset,
                      dataset[m].system = "billing", dataset[n].system = "crm",
                      dataset[m].crm_account_id = dataset[n].record_id
               PROVE  {Key(dataset[m]), Key(dataset[n])} \in predicted_pairs \cap actual_pairs
    BY DEF KeyedPairsAreRecalled
  <2>1. IInv /\ Traced /\ RecordsTraced /\ RowsMatchLinks
    BY GeneratedMatches DEF Scored, Traced
  <2>2. m \in DOMAIN outcomes /\ n \in DOMAIN outcomes
    <3>1. Len(outcomes) = Len(dataset)
      BY <2>1 DEF Traced, ServerFrozen
    <3> QED
      BY <2>1, <3>1, ListsOfIds
  <2>3. PICK id \in Ids :
            /\ outcomes[m].matched_canonical_id = id
            /\ Holds(registry, id, dataset[n].record_id)
    BY <2>1, <2>2 DEF IInv, KeyFollowsAccount, CrmAccounts, Holds
  <2>4. PICK a \in DOMAIN outcomes :
            /\ dataset[a].system = "crm" /\ dataset[a].record_id = dataset[n].record_id
            /\ outcomes[a].matched_canonical_id = id
    BY <2>1, <2>3, HeldIsPlaced
  <2>5. a = n
    <3>1. a \in DOMAIN dataset /\ Key(dataset[a]) = Key(dataset[n])
      BY <2>1, <2>4, OutcomeKeys DEF Key
    <3> QED
      BY <2>1, <3>1 DEF RowsMatchLinks
  <2>6. id # None
    <3>1. id \in Nat
      BY <2>1 DEF IInv, Typed, Ids
    <3> QED
      BY <3>1, ResolutionAssumption DEF ResolutionAssumption
  <2>7. Key(dataset[m]) # Key(dataset[n])
    BY DEF Key
  <2>8. /\ m \in Placed /\ n \in Placed
        /\ outcomes[m].matched_canonical_id = outcomes[n].matched_canonical_id
        /\ Key(outcomes[m]) = Key(dataset[m]) /\ Key(outcomes[n]) = Key(dataset[n])
    BY <2>1, <2>2, <2>3, <2>4, <2>5, <2>6, OutcomeKeys DEF Placed
  <2>9. {Key(dataset[m]), Key(dataset[n])} \in predicted_pairs
    <3>1. {Key(outcomes[m]), Key(outcomes[n])} \in predicted_pairs
      BY <2>7, <2>8, PredictedPair
    <3> QED
      BY <2>8, <3>1
  <2>10. {Key(dataset[m]), Key(dataset[n])} \in actual_pairs
    BY <2>1, <2>7, ActualPair, KeyOwnsRow
  <2> QED
    BY <2>9, <2>10
<1> QED
  BY <1>1, ScoredHolds, PTL

-----------------------------------------------------------------------------
(* Precision.                                                              *)

\* Without lookalikes a name leads to its owner.
LEMMA NameLeadsToOwner ==
    ASSUME IInv, Reasoned, ~Lookalikes, NEW id, NEW n \in DOMAIN dataset,
           Resembles(dataset[n].name, id),
           NEW f \in DOMAIN dataset, dataset[f].name = registry[id].name
    PROVE  OwnerOf(dataset[n]) = OwnerOf(dataset[f])
<1>1. dataset[n].name \in Names /\ dataset[f].name \in Names
  <2>1. registry[id] \in Customer
    BY DEF IInv, Typed, Resembles, Ids
  <2> QED
    BY <2>1 DEF Customer, Resembles
<1>2. dataset[n].name # None /\ dataset[f].name # None
  BY <1>1, ResolutionAssumption DEF ResolutionAssumption
<1>3. Similarity[dataset[n].name][dataset[f].name] >= 8500000
  BY DEF Resembles, Score, FuzzyAutoAccept
<1> QED
  BY <1>2, <1>3 DEF Lookalikes

\* Without lookalikes whoever the LLM did not place is with the owner's account.
LEMMA OwnersMeet ==
    ASSUME IInv, Traced, Reasoned, RowsMatchLinks, ~Lookalikes,
           NEW id, NEW f \in DOMAIN dataset, dataset[f].name = registry[id].name,
           NEW n \in Placed, outcomes[n].matched_canonical_id = id,
           outcomes[n].method # "llm"
    PROVE  OwnerOf(dataset[n]) = OwnerOf(dataset[f])
<1>1. n \in DOMAIN outcomes /\ n \in DOMAIN dataset /\ id # None
  BY OutcomeKeys DEF Placed
<1>2. ASSUME NEW a \in DOMAIN outcomes, NEW m, outcomes[a].method = m,
             outcomes[a].matched_canonical_id = id
      PROVE  Justified(a, id, m)
  BY <1>2 DEF Reasoned, OutcomesJustified
<1>3. PICK m : outcomes[n].method = m
  OBVIOUS
<1>4. Resembles(dataset[n].name, id) \/ KeyedTo(n, id)
  BY <1>1, <1>2, <1>3 DEF Justified
<1>5. CASE Resembles(dataset[n].name, id)
  BY <1>1, <1>5, NameLeadsToOwner
<1>6. CASE KeyedTo(n, id)
  <2>1. PICK a \in DOMAIN outcomes :
            /\ dataset[a].system = "crm" /\ outcomes[a].matched_canonical_id = id
            /\ dataset[n].crm_account_id = dataset[a].record_id
    BY <1>6 DEF KeyedTo
  <2>2. PICK k : outcomes[a].method = k
    OBVIOUS
  <2>3. Justified(a, id, k) /\ a \in DOMAIN dataset
    BY <1>2, <2>1, <2>2, OutcomeKeys
  <2>4. OwnerOf(dataset[a]) = OwnerOf(dataset[f])
    BY <2>1, <2>3, NameLeadsToOwner DEF Justified
  <2>5. OwnerOf(dataset[n]) = OwnerOf(dataset[a])
    BY <1>1, <1>6, <2>1, <2>3, KeyOwnsRow DEF KeyedTo
  <2> QED
    BY <2>4, <2>5
<1> QED
  BY <1>4, <1>5, <1>6

\* Every false pair goes back to two names that look alike or to the LLM, for
\* every corpus and every order of its rows (resolve_crm_self,
\* resolve_billing_record, resolve_psa_record).
THEOREM PrecisionNeedsLookalikes == ScoredSpec => []FalsePairsNeedLookalikes
<1>1. Scored => FalsePairsNeedLookalikes
  <2> SUFFICES ASSUME Scored, Generated, ~Lookalikes,
                      NEW p \in predicted_pairs, p \cap PlacedByLlm = {}
               PROVE  p \in actual_pairs
    BY DEF FalsePairsNeedLookalikes
  <2>1. IInv /\ Traced /\ Reasoned /\ RowsMatchLinks
    BY GeneratedMatches DEF Scored
  <2>2. PICK m \in Placed, n \in Placed :
            /\ p = {Key(outcomes[m]), Key(outcomes[n])}
            /\ Key(outcomes[m]) # Key(outcomes[n])
            /\ outcomes[m].matched_canonical_id = outcomes[n].matched_canonical_id
    BY PredictedPairOnly
  <2>3. PICK id : outcomes[m].matched_canonical_id = id
    OBVIOUS
  <2>4. outcomes[m].method # "llm" /\ outcomes[n].method # "llm"
    <3>1. \A k \in Placed : outcomes[k].method = "llm" => Key(outcomes[k]) \in PlacedByLlm
      BY DEF PlacedByLlm
    <3> QED
      BY <2>2, <3>1
  <2>5. /\ m \in DOMAIN outcomes /\ n \in DOMAIN outcomes
        /\ m \in DOMAIN dataset /\ Key(outcomes[m]) = Key(dataset[m])
        /\ n \in DOMAIN dataset /\ Key(outcomes[n]) = Key(dataset[n])
        /\ id # None
    <3>1. \A k \in Placed : k \in DOMAIN outcomes /\ outcomes[k].matched_canonical_id # None
      BY DEF Placed
    <3> QED
      BY <2>1, <2>3, <3>1, OutcomeKeys
  <2>6. id \in Ids
    BY <2>1, <2>3, <2>5 DEF Traced, RecordsTraced, OutcomesNamed
  <2>7. PICK f \in DOMAIN dataset : dataset[f].name = registry[id].name
    BY <2>1, <2>6, FounderExists
  <2>8. OwnerOf(dataset[m]) = OwnerOf(dataset[f])
    BY <2>1, <2>3, <2>4, <2>7, OwnersMeet
  <2>9. OwnerOf(dataset[n]) = OwnerOf(dataset[f])
    BY <2>1, <2>2, <2>3, <2>4, <2>7, OwnersMeet
  <2>10. {Key(dataset[m]), Key(dataset[n])} \in actual_pairs
    BY <2>1, <2>2, <2>5, <2>8, <2>9, ActualPair
  <2> QED
    BY <2>2, <2>5, <2>10
<1> QED
  BY <1>1, ScoredHolds, PTL

-----------------------------------------------------------------------------
(* Coverage.                                                               *)

\* The scorer counts each placed record once.
LEMMA ResolvedAreCounted ==
    ASSUME IInv, Traced, RowsMatchLinks
    PROVE  Cardinality(UNION predicted_clusters) = Cardinality(Placed)
<1> DEFINE keys == UNION predicted_clusters
           f == [n \in Placed |-> Key(outcomes[n])]
<1>1. keys = {Key(outcomes[n]) : n \in Placed}
  <2>1. ASSUME NEW key \in keys PROVE key \in {Key(outcomes[n]) : n \in Placed}
    BY DEF predicted_clusters
  <2>2. ASSUME NEW n \in Placed PROVE Key(outcomes[n]) \in keys
    <3> DEFINE id == outcomes[n].matched_canonical_id
               members == {Key(outcomes[k]) :
                              k \in {m \in Placed : outcomes[m].matched_canonical_id = id}}
    <3>1. Key(outcomes[n]) \in members
      OBVIOUS
    <3>2. members \in predicted_clusters
      BY DEF predicted_clusters
    <3> QED
      BY <3>1, <3>2
  <2> QED
    BY <2>1, <2>2
<1>2. IsFiniteSet(Placed)
  <2>1. Len(outcomes) \in Nat /\ Placed \in SUBSET (1 .. Len(outcomes))
    BY ListsOfIds DEF IInv, Typed, Placed
  <2> QED
    BY <2>1, PositionsFinite
<1>3. ASSUME NEW a \in Placed, NEW b \in Placed, Key(outcomes[a]) = Key(outcomes[b])
      PROVE  a = b
  <2>1. a \in DOMAIN outcomes /\ b \in DOMAIN outcomes
    BY DEF Placed
  <2>2. /\ a \in DOMAIN dataset /\ b \in DOMAIN dataset
        /\ Key(dataset[a]) = Key(dataset[b])
    BY <1>3, <2>1, OutcomeKeys
  <2> QED
    BY <2>2 DEF RowsMatchLinks
<1>4. /\ f \in [Placed -> keys] /\ \A a, b \in Placed : f[a] = f[b] => a = b
      /\ \A key \in keys : \E n \in Placed : f[n] = key
  BY <1>1, <1>3
<1> HIDE DEF f, keys
<1>5. Cardinality(keys) = Cardinality(Placed)
  BY <1>2, <1>4, CountsAlike
<1> QED
  BY <1>5 DEF keys

\* The truth has one link per row.
LEMMA LinksAreCounted ==
    ASSUME IInv, RowsMatchLinks
    PROVE  Cardinality(ground_truth) = Len(dataset)
<1> DEFINE f == [n \in DOMAIN dataset |->
                    CHOOSE l \in ground_truth : Key(l) = Key(dataset[n])]
           S == DOMAIN dataset
<1>1. \A n \in S : f[n] \in ground_truth /\ Key(f[n]) = Key(dataset[n])
  BY DEF RowsMatchLinks
<1>2. f \in [S -> ground_truth]
  <2>1. f = [n \in S |-> f[n]]
    OBVIOUS
  <2> HIDE DEF f
  <2> QED
    BY <1>1, <2>1
<1> HIDE DEF f
<1>3. \A a, b \in S : f[a] = f[b] => a = b
  BY <1>1 DEF RowsMatchLinks
<1>4. \A l \in ground_truth : \E n \in S : f[n] = l
  BY <1>1 DEF RowsMatchLinks
<1>5. Len(dataset) \in Nat /\ S = 1 .. Len(dataset)
  BY ListsOfIds
<1> HIDE DEF S
<1>6. IsFiniteSet(S) /\ Cardinality(S) = Len(dataset)
  BY <1>5, PositionsFinite
<1> QED
  BY <1>2, <1>3, <1>4, <1>6, CountsAlike

\* The queue has one item per record that was not placed.
LEMMA QueuedAreCounted ==
    ASSUME IInv, Traced
    PROVE  Len(queue) = Cardinality(DOMAIN outcomes \ Placed)
<1> DEFINE U == {n \in DOMAIN outcomes : outcomes[n].matched_canonical_id = None}
           ids == RecordsOf(outcomes)
<1>1. ids \in Seq(RecordIds) /\ DOMAIN ids = DOMAIN outcomes
  BY ListsOfIds
<1>2. RecordsOf(queue) = Selected(ids, U)
  BY DEF Traced, RecordsTraced, UnplacedWaitForReview, UnplacedRecords
<1>3. Len(RecordsOf(queue)) = Len(queue)
  <2>1. \A r \in ReviewItems : r.record_id \in RecordIds
    BY DEF ReviewItems
  <2>2. queue \in Seq(ReviewItems)
    BY DEF Traced, RecordsTraced
  <2> QED
    BY <2>1, <2>2, RecordsOfRows
<1>4. {k \in DOMAIN ids : k \in U} = DOMAIN outcomes \ Placed
  BY <1>1 DEF Placed
<1> HIDE DEF U, ids
<1> QED
  BY <1>1, <1>2, <1>3, <1>4, SelectedCounts

\* Two finite sets with nothing in common.
LEMMA CardinalityOfDisjoint ==
    ASSUME NEW S, NEW T, IsFiniteSet(S), IsFiniteSet(T), S \cap T = {},
           Cardinality(S) \in Nat, Cardinality(T) \in Nat
    PROVE  Cardinality(S \cup T) = Cardinality(S) + Cardinality(T)
<1>1. Cardinality(S \cup T) = Cardinality(S) + Cardinality(T) - Cardinality({})
  <2>1. Cardinality(S \cup T)
            = Cardinality(S) + Cardinality(T) - Cardinality(S \cap T)
    BY FS_Union
  <2> QED
    BY <2>1
<1>2. Cardinality({}) = 0
  BY FS_EmptySet
<1> DEFINE s == Cardinality(S)
           t == Cardinality(T)
<1>3. s \in Nat /\ t \in Nat
  OBVIOUS
<1>4. Cardinality(S \cup T) = s + t - 0
  BY <1>1, <1>2
<1> HIDE DEF s, t
<1>5. s + t - 0 = s + t
  BY <1>3
<1>6. Cardinality(S \cup T) = s + t
  BY <1>4, <1>5
<1> QED
  BY <1>6 DEF s, t

\* The rate of resolved records and the work that is left add up, for every
\* corpus and every LLM (score_entity_resolution, ReviewQueue).
THEOREM NothingIsLostUnscored == ScoredSpec => []ScoreMeetsQueue
<1>1. Scored => ScoreMeetsQueue
  <2> SUFFICES ASSUME Scored, Generated, status = "reported"
               PROVE  score_entity_resolution.resolved_record_count + Len(queue)
                          = score_entity_resolution.total_record_count
    BY DEF ScoreMeetsQueue
  <2>1. IInv /\ Traced /\ RowsMatchLinks
    BY GeneratedMatches DEF Scored
  <2>2. /\ score_entity_resolution.resolved_record_count = Cardinality(Placed)
        /\ score_entity_resolution.total_record_count = Len(dataset)
    BY <2>1, ResolvedAreCounted, LinksAreCounted DEF score_entity_resolution
  <2> DEFINE all == 1 .. Len(dataset)
             rest == all \ Placed
  <2>3. DOMAIN outcomes = all /\ Placed \subseteq all /\ Len(dataset) \in Nat
    <3>1. Len(outcomes) = Len(dataset)
      BY <2>1 DEF Traced, ServerFrozen
    <3> QED
      BY <2>1, <3>1, ListsOfIds DEF Placed
  <2>4. Len(queue) = Cardinality(rest)
    BY <2>1, <2>3, QueuedAreCounted
  <2>5. /\ IsFiniteSet(Placed) /\ Cardinality(Placed) \in Nat
        /\ IsFiniteSet(rest) /\ Cardinality(rest) \in Nat
        /\ Cardinality(all) = Len(dataset)
    BY <2>3, PositionsFinite
  <2>6. Placed \cup rest = all /\ Placed \cap rest = {}
    BY <2>3
  <2> HIDE DEF all, rest
  <2>7. Cardinality(all) = Cardinality(Placed) + Cardinality(rest)
    BY <2>5, <2>6, CardinalityOfDisjoint
  <2> QED
    BY <2>2, <2>4, <2>5, <2>7
<1> QED
  BY <1>1, ScoredHolds, PTL

=============================================================================
