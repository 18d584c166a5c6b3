-------------------------- MODULE ResolutionProofs --------------------------
(***************************************************************************)
(* Proofs about entity resolution: for every dataset, similarity table and *)
(* LLM, customers stay apart, foreign keys survive merging, a record       *)
(* placed by its name is with the customer it resembles most, and what the *)
(* registry, the queue and the tool server hold is what the outcomes say.  *)
(***************************************************************************)
EXTENDS ResolutionRefinement, Minima, SequenceTheorems, TLAPS

Customer == [name : Names, source_record_ids : [Systems -> Seq(RecordIds)]]

Outcome == [system : Systems, record_id : RecordIds,
            matched_canonical_id : Nat \cup {None},
            confidence : ScoreRange, method : Methods]

\* The part of the state that resolve_dataset builds, with its types; one
\* outcome per record handled, in the order of the records.
Typed ==
    /\ dataset \in Datasets
    /\ registry \in Seq(Customer)
    /\ outcomes \in Seq(Outcome)
    /\ Len(outcomes) <= Len(dataset)
    /\ \A n \in DOMAIN outcomes : outcomes[n].system = dataset[n].system
    /\ \A a \in DOMAIN crm_key : crm_key[a] \in Ids

Holds(customers, id, account) ==
    \E k \in DOMAIN customers[id].source_record_ids["crm"] :
        customers[id].source_record_ids["crm"][k] = account

\* Every CRM row handled is in the index, and the index points to a customer
\* that holds the account.
AccountsIndexed ==
    /\ \A n \in DOMAIN outcomes :
           dataset[n].system = "crm" => dataset[n].record_id \in DOMAIN crm_key
    /\ \A a \in DOMAIN crm_key : Holds(registry, crm_key[a], a)

\* A record placed by its name is with a customer of the registry.
NamedIsPlaced ==
    \A n \in DOMAIN outcomes :
        outcomes[n].method \in {"exact_name", "fuzzy_name"} =>
            outcomes[n].matched_canonical_id \in Ids

IInv ==
    /\ Typed /\ AccountsIndexed /\ NamedIsPlaced
    /\ CustomersStayApart /\ KeyFollowsAccount /\ PlacedByNameIsBest

-----------------------------------------------------------------------------
(* The best match.                                                         *)

\* A score is a number from 0 to Certain.
LEMMA ScoreNumbers ==
    /\ Certain \in Nat /\ Certain \in ScoreRange /\ 0 \in ScoreRange
    /\ \A s \in ScoreRange : s \in Nat /\ s <= Certain
<1>1. Certain \in Nat
  BY DEF Certain
<1> QED
  BY <1>1 DEF ScoreRange

LEMMA ScoreType ==
    ASSUME registry \in Seq(Customer), NEW name \in Names, NEW id \in Ids
    PROVE  /\ Score(name, id) \in ScoreRange
           /\ Score(name, id) \in Nat
           /\ Score(name, id) <= Certain
<1>1. registry[id] \in Customer
  BY DEF Ids
<1>2. registry[id].name \in Names
  BY <1>1 DEF Customer
<1>3. \A n \in Names : Similarity[name][n] \in ScoreRange
  BY ResolutionAssumption DEF ResolutionAssumption
<1>4. Score(name, id) \in ScoreRange
  BY ONLY <1>2, <1>3 DEF Score
<1> QED
  BY <1>4, ScoreNumbers

\* A non-empty registry has a best match, and no customer outscores it.
LEMMA BestIsBest ==
    ASSUME registry \in Seq(Customer), NEW name \in Names, Ids # {}
    PROVE  /\ Best(name) \in Ids
           /\ \A id \in Ids : Score(name, id) <= Score(name, Best(name))
           /\ \A id \in Ids \ {Best(name)} : Outscores(name, Best(name), id)
<1> DEFINE f == [id \in Ids |-> Score(name, id)]
<1>1. \A id \in Ids : f[id] = Score(name, id)
  OBVIOUS
<1>2. \A id \in Ids : f[id] \in Nat /\ f[id] <= Certain
  <2> SUFFICES ASSUME NEW id \in Ids PROVE f[id] \in Nat /\ f[id] <= Certain
    OBVIOUS
  <2>1. Score(name, id) \in Nat /\ Score(name, id) <= Certain
    BY ScoreType
  <2>2. f[id] = Score(name, id)
    BY <1>1
  <2> HIDE DEF f
  <2> QED
    BY ONLY <2>1, <2>2
<1>3. \A id \in Ids : id \in Nat
  BY DEF Ids
<1> HIDE DEF f
<1>4. PICK k \in Ids :
          \A j \in Ids \ {k} : f[k] > f[j] \/ (f[k] = f[j] /\ k < j)
  BY <1>2, <1>3, ScoreNumbers, FirstOfGreatest
<1>5. \A j \in Ids \ {k} : Outscores(name, k, j)
  BY <1>1, <1>4 DEF Outscores
<1>6. Best(name) \in Ids /\ \A j \in Ids \ {Best(name)} : Outscores(name, Best(name), j)
  BY <1>5 DEF Best
<1>7. ASSUME NEW j \in Ids PROVE Score(name, j) <= Score(name, Best(name))
  <2>1. Score(name, j) \in Nat /\ Score(name, Best(name)) \in Nat
    BY <1>6, ScoreType
  <2>2. CASE j = Best(name)
    BY ONLY <2>1, <2>2
  <2>3. CASE j # Best(name)
    <3>1. \/ Score(name, Best(name)) > Score(name, j)
          \/ Score(name, Best(name)) = Score(name, j)
      BY <2>3, <1>6 DEF Outscores
    <3> QED
      BY ONLY <3>1, <2>1
  <2> QED
    BY <2>2, <2>3
<1> QED
  BY <1>6, <1>7

\* BestScore is the best of the scores, 0 for an empty registry.
LEMMA BestScoreBounds ==
    ASSUME registry \in Seq(Customer), NEW name \in Names
    PROVE  /\ BestScore(name) \in ScoreRange
           /\ BestScore(name) \in Nat
           /\ \A id \in Ids : Score(name, id) <= BestScore(name)
           /\ BestScore(name) > 0 =>
                  /\ Best(name) \in Ids /\ BestScore(name) = Score(name, Best(name))
                  /\ \A id \in Ids \ {Best(name)} : Outscores(name, Best(name), id)
<1>0. 0 \in ScoreRange /\ 0 \in Nat /\ ~(0 > 0)
  BY ScoreNumbers
<1>1. CASE Ids = {}
  <2>1. BestScore(name) = 0
    BY <1>1 DEF BestScore
  <2> QED
    BY ONLY <2>1, <1>0, <1>1
<1>2. CASE Ids # {}
  <2>1. BestScore(name) = Score(name, Best(name))
    BY <1>2 DEF BestScore
  <2>2. /\ Best(name) \in Ids
        /\ \A id \in Ids : Score(name, id) <= Score(name, Best(name))
        /\ \A id \in Ids \ {Best(name)} : Outscores(name, Best(name), id)
    BY <1>2, BestIsBest
  <2>3. Score(name, Best(name)) \in ScoreRange /\ Score(name, Best(name)) \in Nat
    BY <2>2, ScoreType
  <2> QED
    BY ONLY <2>1, <2>2, <2>3
<1> QED
  BY <1>1, <1>2

LEMMA BestScoreType ==
    ASSUME registry \in Seq(Customer), NEW name \in Names
    PROVE  BestScore(name) \in ScoreRange
<1>1. BestScore(name) \in Nat /\ BestScore(name) \in ScoreRange
  BY BestScoreBounds
<1> QED
  BY ONLY <1>1

\* The customer comes before every other one under this name.
Leads(name, id) ==
    /\ name \in Names /\ id \in Ids
    /\ Score(name, id) >= FuzzyAutoAccept
    /\ \A j \in Ids \ {id} : Outscores(name, id, j)

-----------------------------------------------------------------------------
(* The operations of the matcher.                                          *)

\* A registry after an operation that creates no customer: the names stay,
\* and no customer loses an account.
Grown(customers, before) ==
    /\ customers \in Seq(Customer)
    /\ DOMAIN customers = DOMAIN before
    /\ \A i \in DOMAIN before : customers[i].name = before[i].name
    /\ \A i \in DOMAIN before : \A a : Holds(before, i, a) => Holds(customers, i, a)

LEMMA WithGrows ==
    ASSUME NEW customers \in Seq(Customer), NEW id \in DOMAIN customers,
           NEW rec, rec.system \in Systems, rec.record_id \in RecordIds
    PROVE  /\ Grown(With(customers, id, rec), customers)
           /\ rec.system = "crm" => Holds(With(customers, id, rec), id, rec.record_id)
<1> DEFINE c == customers[id]
           held == c.source_record_ids[rec.system]
           longer == Append(held, rec.record_id)
           ids == [c.source_record_ids EXCEPT ![rec.system] = longer]
           new == [c EXCEPT !.source_record_ids = ids]
           after == With(customers, id, rec)
<1>1. c \in Customer
  OBVIOUS
<1>2. held \in Seq(RecordIds) /\ c.source_record_ids \in [Systems -> Seq(RecordIds)]
  BY <1>1 DEF Customer
<1>3. /\ longer \in Seq(RecordIds)
      /\ Len(longer) = Len(held) + 1
      /\ \A k \in 1 .. Len(held) : longer[k] = held[k]
      /\ longer[Len(held) + 1] = rec.record_id
  BY <1>2, AppendProperties
<1>4. /\ ids \in [Systems -> Seq(RecordIds)] /\ ids[rec.system] = longer
      /\ \A s \in Systems \ {rec.system} : ids[s] = c.source_record_ids[s]
  <2> HIDE DEF longer, held
  <2> QED
    BY <1>2, <1>3
<1>5. /\ new \in Customer /\ new.name = c.name
      /\ new.source_record_ids = ids
  <2> HIDE DEF ids
  <2> QED
    BY <1>1, <1>4 DEF Customer
<1>6. after = [customers EXCEPT ![id] = new]
  BY DEF With
<1>7. /\ after \in Seq(Customer) /\ DOMAIN after = DOMAIN customers
      /\ after[id] = new
      /\ \A i \in DOMAIN customers \ {id} : after[i] = customers[i]
  <2> HIDE DEF after, new
  <2> QED
    BY <1>5, <1>6, ExceptSeq
<1> HIDE DEF after, new, ids
<1>8. ASSUME NEW i \in DOMAIN customers, NEW a, Holds(customers, i, a)
      PROVE  Holds(after, i, a)
  <2>1. CASE i # id
    BY <2>1, <1>7, <1>8 DEF Holds
  <2>2. CASE i = id /\ rec.system # "crm"
    <3>1. after[i].source_record_ids["crm"] = customers[i].source_record_ids["crm"]
      BY <2>2, <1>4, <1>5, <1>7 DEF Systems
    <3> QED
      BY <3>1, <1>8 DEF Holds
  <2>3. CASE i = id /\ rec.system = "crm"
    <3>1. after[i].source_record_ids["crm"] = longer
      BY <2>3, <1>4, <1>5, <1>7
    <3>2. PICK k \in DOMAIN held : held[k] = a
      BY <2>3, <1>8 DEF Holds
    <3> HIDE DEF held, longer
    <3>3. k \in 1 .. Len(held) /\ k \in DOMAIN longer
      BY <1>2, <1>3, <3>2
    <3> QED
      BY <3>1, <3>2, <3>3, <1>3 DEF Holds
  <2> QED
    BY <2>1, <2>2, <2>3
<1>9. ASSUME rec.system = "crm" PROVE Holds(after, id, rec.record_id)
  <2>1. after[id].source_record_ids["crm"] = longer
    BY <1>9, <1>4, <1>5, <1>7
  <2>2. Len(held) + 1 \in DOMAIN longer
    <3> HIDE DEF held, longer
    <3> QED
      BY <1>2, <1>3
  <2> HIDE DEF held, longer
  <2> QED
    BY <2>1, <2>2, <1>3 DEF Holds
<1>10. \A i \in DOMAIN customers : after[i].name = customers[i].name
  BY <1>5, <1>7
<1> QED
  BY <1>7, <1>8, <1>9, <1>10 DEF Grown, after

-----------------------------------------------------------------------------
(* The step that concludes a record.                                       *)

\* The record in hand is well-formed and every later step leaves it behind.
LEMMA RecordType ==
    ASSUME Typed, Resolving
    PROVE  /\ Len(outcomes) + 1 \in DOMAIN dataset
           /\ Len(outcomes) + 1 \notin DOMAIN outcomes
           /\ Record.system \in Systems /\ Record.record_id \in RecordIds
           /\ Record.name \in Names \cup {None}
           /\ Record.system # "psa" => Record.name \in Names
<1>1. /\ dataset \in Seq(RawRecord)
      /\ \A n \in DOMAIN dataset : dataset[n].name = None => dataset[n].system = "psa"
  BY ResolutionAssumption DEF ResolutionAssumption, Typed
<1>2. outcomes \in Seq(Outcome) /\ Len(outcomes) < Len(dataset)
  BY DEF Typed, Resolving
<1>3. /\ Len(outcomes) + 1 \in DOMAIN dataset
      /\ Len(outcomes) + 1 \notin DOMAIN outcomes
  BY <1>1, <1>2
<1>4. dataset[Len(outcomes) + 1] \in RawRecord
  BY <1>1, <1>3
<1> QED
  BY <1>1, <1>3, <1>4 DEF Record, RawRecord

\* The outcomes after a record was concluded with a customer and a method.
Concluded(id, m) ==
    /\ dataset' = dataset
    /\ outcomes' \in Seq(Outcome) /\ Len(outcomes') <= Len(dataset)
    /\ DOMAIN outcomes' = DOMAIN outcomes \cup {Len(outcomes) + 1}
    /\ \A n \in DOMAIN outcomes : outcomes'[n] = outcomes[n]
    /\ outcomes'[Len(outcomes) + 1].system = Record.system
    /\ outcomes'[Len(outcomes) + 1].matched_canonical_id = id
    /\ outcomes'[Len(outcomes) + 1].method = m

\* A record is concluded, with arguments of their types.
Concludes(id, c, m) ==
    /\ Typed /\ Resolving
    /\ id \in Nat \cup {None} /\ c \in ScoreRange /\ m \in Methods
    /\ Conclude(id, c, m)

LEMMA ConcludeStep ==
    ASSUME NEW id, NEW c, NEW m, Concludes(id, c, m)
    PROVE  Concluded(id, m)
<1> USE DEF Concludes
<1> DEFINE o == [system |-> Record.system, record_id |-> Record.record_id,
                 matched_canonical_id |-> id, confidence |-> c, method |-> m]
<1>1. o \in Outcome
  BY RecordType DEF Outcome
<1>2. o.system = Record.system /\ o.matched_canonical_id = id /\ o.method = m
  OBVIOUS
<1>3. outcomes' = Append(outcomes, o) /\ dataset' = dataset
  BY DEF Conclude
<1>4. outcomes \in Seq(Outcome) /\ Len(outcomes) < Len(dataset) /\ dataset \in Seq(RawRecord)
  BY ResolutionAssumption DEF ResolutionAssumption, Typed, Resolving
<1> HIDE DEF o
<1>5. /\ outcomes' \in Seq(Outcome) /\ Len(outcomes') = Len(outcomes) + 1
      /\ \A n \in 1 .. Len(outcomes) : outcomes'[n] = outcomes[n]
      /\ outcomes'[Len(outcomes) + 1] = o
  BY <1>1, <1>3, <1>4, AppendProperties
<1>6. /\ DOMAIN outcomes = 1 .. Len(outcomes) /\ DOMAIN outcomes' = 1 .. Len(outcomes')
      /\ Len(outcomes) \in Nat /\ Len(dataset) \in Nat
  BY <1>4, <1>5
<1>7. /\ DOMAIN outcomes' = DOMAIN outcomes \cup {Len(outcomes) + 1}
      /\ Len(outcomes') <= Len(dataset)
  BY <1>4, <1>5, <1>6
<1> QED
  BY <1>2, <1>3, <1>5, <1>6, <1>7 DEF Concluded

\* What each action that concludes a record with a customer does.
Placement(id, m) ==
    /\ Concluded(id, m)
    /\ registry' \in Seq(Customer)
    /\ \A i \in Ids : /\ i \in Ids' /\ registry'[i].name = registry[i].name
                      /\ \A a : Holds(registry, i, a) => Holds(registry', i, a)
    /\ Ids' = Ids \/ Record.system = "crm"
    /\ CustomersStayApart'
    /\ DOMAIN crm_key \subseteq DOMAIN crm_key'
    /\ \A a \in DOMAIN crm_key' :
           crm_key'[a] \in Ids' /\ Holds(registry', crm_key'[a], a)
    /\ Record.system = "crm" => Record.record_id \in DOMAIN crm_key'
    /\ m \in {"exact_name", "fuzzy_name"} =>
           /\ id \in Ids'
           /\ Record.system # "crm" =>
                  \A j \in Ids' : Similarity[Record.name][registry'[j].name]
                                      <= Similarity[Record.name][registry'[id].name]
    /\ HasKnownKey(Record) =>
           m = "exact_key" /\ id \in Ids' /\ Holds(registry', id, Record.crm_account_id)

\* The invariant survives any such step.
LEMMA PlacementKeepsInvariant ==
    ASSUME IInv, Resolving, NEW id, NEW m, Placement(id, m)
    PROVE  IInv'
<1> DEFINE new == Len(outcomes) + 1
<1>1. /\ new \in DOMAIN dataset /\ new \notin DOMAIN outcomes
      /\ DOMAIN outcomes' = DOMAIN outcomes \cup {new}
      /\ dataset' = dataset /\ Record = dataset[new]
      /\ \A n \in DOMAIN outcomes : outcomes'[n] = outcomes[n]
      /\ outcomes'[new].system = dataset[new].system
      /\ outcomes'[new].matched_canonical_id = id
      /\ outcomes'[new].method = m
  BY RecordType DEF IInv, Placement, Concluded, Record
<1>2. \A l, n \in DOMAIN dataset :
          l < n /\ dataset[n].system = "crm" => dataset[l].system = "crm"
  BY ResolutionAssumption DEF ResolutionAssumption, IInv, Typed
<1>3. /\ DOMAIN outcomes \subseteq DOMAIN dataset
      /\ \A n \in DOMAIN outcomes : n < new
      /\ \A n \in DOMAIN dataset : n < new => n \in DOMAIN outcomes
      /\ \A n \in DOMAIN dataset : n \in Nat /\ new \in Nat
  <2>1. dataset \in Seq(RawRecord) /\ outcomes \in Seq(Outcome) /\ Len(outcomes) <= Len(dataset)
    BY ResolutionAssumption DEF ResolutionAssumption, IInv, Typed
  <2> QED
    BY <2>1
<1> HIDE DEF new
<1>4. Typed'
  BY <1>1 DEF IInv, Typed, Placement, Concluded
<1>5. AccountsIndexed'
  <2>1. ASSUME NEW n \in DOMAIN outcomes', dataset'[n].system = "crm"
        PROVE  dataset'[n].record_id \in DOMAIN crm_key'
    BY <2>1, <1>1 DEF IInv, AccountsIndexed, Placement
  <2>2. \A a \in DOMAIN crm_key' : Holds(registry', crm_key'[a], a)
    BY DEF Placement
  <2> QED
    BY <2>1, <2>2 DEF AccountsIndexed, Holds
<1>6. NamedIsPlaced'
  <2>1. ASSUME NEW n \in DOMAIN outcomes', outcomes'[n].method \in {"exact_name", "fuzzy_name"}
        PROVE  outcomes'[n].matched_canonical_id \in Ids'
    BY <2>1, <1>1 DEF IInv, NamedIsPlaced, Placement
  <2> QED
    BY <2>1 DEF NamedIsPlaced
<1>7. CustomersStayApart'
  BY DEF Placement
<1>8. KeyFollowsAccount'
  <2>1. ASSUME NEW n \in DOMAIN outcomes', NEW a \in DOMAIN dataset,
               dataset[a].system = "crm", dataset[n].system = "billing",
               dataset[n].crm_account_id = dataset[a].record_id
        PROVE  /\ outcomes'[n].matched_canonical_id \in Ids'
               /\ outcomes'[n].method = "exact_key"
               /\ Holds(registry', outcomes'[n].matched_canonical_id, dataset[a].record_id)
    <3>1. CASE n \in DOMAIN outcomes
      <4>1. PICK i \in Ids :
                /\ outcomes[n].matched_canonical_id = i
                /\ outcomes[n].method = "exact_key"
                /\ Holds(registry, i, dataset[a].record_id)
        BY <2>1, <3>1 DEF IInv, KeyFollowsAccount, CrmAccounts, Holds
      <4> QED
        BY <4>1, <3>1, <1>1 DEF Placement
    <3>2. CASE n = new
      <4>1. ~(new < a) /\ a # new
        BY <1>1, <1>2, <2>1, <3>2
      <4>2. a \in DOMAIN outcomes
        BY <4>1, <1>1, <1>3
      <4>3. dataset[a].record_id \in DOMAIN crm_key
        BY <4>2, <2>1 DEF IInv, AccountsIndexed
      <4>4. HasKnownKey(Record)
        BY <4>3, <3>2, <2>1, <1>1 DEF HasKnownKey
      <4> QED
        BY <4>4, <3>2, <2>1, <1>1 DEF Placement
    <3> QED
      BY <3>1, <3>2, <1>1
  <2> QED
    BY <2>1, <1>1 DEF KeyFollowsAccount, CrmAccounts, Holds
<1>9. PlacedByNameIsBest'
  <2>1. ASSUME NEW n \in DOMAIN outcomes', NEW j \in Ids',
               outcomes'[n].system # "crm",
               outcomes'[n].method \in {"exact_name", "fuzzy_name"}
        PROVE  Similarity[dataset[n].name][registry'[j].name]
                   <= Similarity[dataset[n].name]
                          [registry'[outcomes'[n].matched_canonical_id].name]
    <3>1. CASE n \in DOMAIN outcomes
      <4>1. outcomes[n].system = dataset[n].system
        BY <3>1 DEF IInv, Typed
      <4>2. Record.system # "crm"
        BY <4>1, <3>1, <2>1, <1>1, <1>2, <1>3
      <4>3. j \in Ids
        BY <4>2, <2>1 DEF Placement
      <4>4. /\ outcomes[n].matched_canonical_id \in Ids
            /\ Score(dataset[n].name, j)
                   <= Score(dataset[n].name, outcomes[n].matched_canonical_id)
        BY <4>3, <3>1, <2>1, <1>1 DEF IInv, NamedIsPlaced, PlacedByNameIsBest
      <4>5. /\ registry'[j].name = registry[j].name
            /\ registry'[outcomes[n].matched_canonical_id].name
                   = registry[outcomes[n].matched_canonical_id].name
        BY <4>3, <4>4 DEF Placement
      <4> QED
        BY <4>4, <4>5, <3>1, <1>1 DEF Score
    <3>2. CASE n = new
      BY <3>2, <2>1, <1>1 DEF Placement
    <3> QED
      BY <3>1, <3>2, <1>1
  <2> QED
    BY <2>1, <1>1 DEF PlacedByNameIsBest, Score
<1> QED
  BY <1>4, <1>5, <1>6, <1>7, <1>8, <1>9 DEF IInv

-----------------------------------------------------------------------------
(* The actions.                                                            *)

\* Attaching a record creates no customer and takes nothing from one.
LEMMA AttachGrows ==
    ASSUME IInv, Resolving, NEW id, attach(id, Record)
    PROVE  /\ id \in Ids /\ id \in Nat
           /\ registry' \in Seq(Customer) /\ Ids' = Ids
           /\ \A i \in Ids : /\ registry'[i].name = registry[i].name
                             /\ \A a : Holds(registry, i, a) => Holds(registry', i, a)
           /\ Record.system = "crm" => Holds(registry', id, Record.record_id)
           /\ CustomersStayApart'
<1>1. id \in Ids /\ registry' = With(registry, id, Record) /\ registry \in Seq(Customer)
  BY DEF attach, IInv, Typed
<1>2. Record.system \in Systems /\ Record.record_id \in RecordIds
  BY RecordType DEF IInv
<1>3. /\ Grown(registry', registry)
      /\ Record.system = "crm" => Holds(registry', id, Record.record_id)
  BY <1>1, <1>2, WithGrows DEF Ids
<1>4. id \in Nat
  BY <1>1 DEF Ids
<1>5. /\ registry' \in Seq(Customer) /\ Ids' = Ids
      /\ \A i \in Ids : /\ registry'[i].name = registry[i].name
                        /\ \A a : Holds(registry, i, a) => Holds(registry', i, a)
  BY <1>3 DEF Grown, Ids
<1>6. CustomersStayApart'
  BY <1>5 DEF IInv, CustomersStayApart
<1> QED
  BY <1>1, <1>3, <1>4, <1>5, <1>6

\* A score at the threshold is that of a customer, whom nobody outscores.
LEMMA AcceptedIsBest ==
    ASSUME IInv, NEW name \in Names, BestScore(name) >= FuzzyAutoAccept
    PROVE  /\ Best(name) \in Ids /\ BestScore(name) \in ScoreRange
           /\ BestScore(name) = Score(name, Best(name))
           /\ \A j \in Ids : Score(name, j) <= Score(name, Best(name))
           /\ \A j \in Ids \ {Best(name)} : Outscores(name, Best(name), j)
<1>1. registry \in Seq(Customer)
  BY DEF IInv, Typed
<1>2. BestScore(name) \in Nat /\ BestScore(name) \in ScoreRange
  BY <1>1, BestScoreBounds
<1>3. \A s \in Nat : s >= 8500000 => s > 0
  BY ONLY TRUE
<1>4. BestScore(name) > 0
  BY <1>2, <1>3 DEF FuzzyAutoAccept
<1> QED
  BY <1>1, <1>2, <1>4, BestScoreBounds

LEMMA MergeCrmPlaces ==
    ASSUME IInv, MergeCrm
    PROVE  IInv'
<1> DEFINE id == Best(Record.name)
           m == NameMethod(BestScore(Record.name))
<1>1. Resolving /\ Record.system = "crm" /\ Record.name \in Names /\ Typed
  BY RecordType DEF MergeCrm, IInv
<1>2. id \in Ids /\ BestScore(Record.name) \in ScoreRange
  BY <1>1, AcceptedIsBest DEF MergeCrm, MergeCrmRecord
<1>3. /\ attach(id, Record)
      /\ crm_key' = [a \in DOMAIN crm_key \cup {Record.record_id} |->
                        IF a = Record.record_id THEN id ELSE crm_key[a]]
      /\ Conclude(id, BestScore(Record.name), m)
  BY DEF MergeCrm, MergeCrmRecord, IndexAccount
<1>4. m \in {"exact_name", "fuzzy_name"} /\ m \in Methods
  BY DEF NameMethod, Methods
<1> HIDE DEF id, m
<1>5. /\ id \in Nat /\ registry' \in Seq(Customer) /\ Ids' = Ids
      /\ \A i \in Ids : /\ registry'[i].name = registry[i].name
                        /\ \A a : Holds(registry, i, a) => Holds(registry', i, a)
      /\ Holds(registry', id, Record.record_id)
      /\ CustomersStayApart'
  BY <1>1, <1>3, AttachGrows
<1>6. Concluded(id, m)
  <2>1. Concludes(id, BestScore(Record.name), m)
    BY <1>1, <1>2, <1>3, <1>4, <1>5 DEF Concludes
  <2> QED
    BY <2>1, ConcludeStep
<1>7. /\ DOMAIN crm_key' = DOMAIN crm_key \cup {Record.record_id}
      /\ \A a \in DOMAIN crm_key' :
             crm_key'[a] \in Ids' /\ Holds(registry', crm_key'[a], a)
  <2>1. /\ DOMAIN crm_key' = DOMAIN crm_key \cup {Record.record_id}
        /\ \A a \in DOMAIN crm_key' :
               crm_key'[a] = IF a = Record.record_id THEN id ELSE crm_key[a]
    <3> DEFINE account == Record.record_id
    <3>1. crm_key' = [a \in DOMAIN crm_key \cup {account} |->
                         IF a = account THEN id ELSE crm_key[a]]
      BY <1>3
    <3> HIDE DEF account
    <3>2. /\ DOMAIN crm_key' = DOMAIN crm_key \cup {account}
          /\ \A a \in DOMAIN crm_key' :
                 crm_key'[a] = IF a = account THEN id ELSE crm_key[a]
      BY ONLY <3>1
    <3> QED
      BY ONLY <3>2 DEF account
  <2>2. \A a \in DOMAIN crm_key : crm_key[a] \in Ids /\ Holds(registry, crm_key[a], a)
    BY DEF IInv, Typed, AccountsIndexed
  <2>3. ASSUME NEW a \in DOMAIN crm_key'
        PROVE  crm_key'[a] \in Ids' /\ Holds(registry', crm_key'[a], a)
    <3>1. CASE a = Record.record_id
      BY ONLY <1>2, <1>5, <2>1, <3>1
    <3>2. CASE a # Record.record_id
      <4>1. a \in DOMAIN crm_key /\ crm_key'[a] = crm_key[a]
        BY ONLY <2>1, <3>2
      <4> QED
        BY ONLY <1>5, <2>2, <4>1
    <3> QED
      BY <3>1, <3>2
  <2> QED
    BY <2>1, <2>3
<1>8. ~HasKnownKey(Record)
  BY <1>1 DEF HasKnownKey
<1>9. Placement(id, m)
  BY <1>1, <1>2, <1>5, <1>6, <1>7, <1>8 DEF Placement
<1> QED
  BY <1>1, <1>9, PlacementKeepsInvariant

\* A customer added for a CRM row has its name and the next id.
LEMMA AddedCustomer ==
    ASSUME IInv, AddCrm
    PROVE  /\ Len(registry) + 1 \in Nat /\ Ids' = Ids \cup {Len(registry) + 1}
           /\ \A i \in Ids : registry'[i].name = registry[i].name
           /\ registry'[Len(registry) + 1].name = Record.name
<1> DEFINE id == Len(registry) + 1
           new == NewCustomer(Record.name)
           grown == Append(registry, new)
<1>1. Record.name \in Names /\ Record.system \in Systems /\ Record.record_id \in RecordIds
  BY RecordType DEF AddCrm, IInv
<1>2. registry' = With(grown, id, Record) /\ registry \in Seq(Customer)
  BY DEF AddCrm, AddCrmRecord, IInv, Typed
<1>3. new \in Customer /\ new.name = Record.name
  BY <1>1, EmptySeq DEF NewCustomer, Customer
<1> HIDE DEF new
<1>4. /\ grown \in Seq(Customer) /\ id \in Nat /\ DOMAIN grown = Ids \cup {id}
      /\ \A i \in Ids : grown[i] = registry[i]
      /\ grown[id] = new
  BY <1>2, <1>3 DEF Ids
<1> HIDE DEF grown, id
<1>5. Grown(registry', grown)
  BY <1>1, <1>2, <1>4, WithGrows
<1> QED
  BY <1>3, <1>4, <1>5 DEF Grown, Ids, id

LEMMA AddCrmPlaces ==
    ASSUME IInv, AddCrm
    PROVE  IInv'
<1> DEFINE id == Len(registry) + 1
           grown == Append(registry, NewCustomer(Record.name))
<1>1. Resolving /\ Record.system = "crm" /\ Record.name \in Names /\ Typed
      /\ Record.system \in Systems /\ Record.record_id \in RecordIds
  BY RecordType DEF AddCrm, IInv
<1>2. /\ registry' = With(grown, id, Record)
      /\ crm_key' = [a \in DOMAIN crm_key \cup {Record.record_id} |->
                        IF a = Record.record_id THEN id ELSE crm_key[a]]
      /\ BestScore(Record.name) < FuzzyAutoAccept
      /\ Conclude(id, Certain, "new_entity")
  BY DEF AddCrm, AddCrmRecord, IndexAccount
<1>3. registry \in Seq(Customer) /\ NewCustomer(Record.name) \in Customer
      /\ NewCustomer(Record.name).name = Record.name
  BY <1>1, EmptySeq DEF Typed, NewCustomer, Customer
<1>4. /\ grown \in Seq(Customer)
      /\ id \in Nat /\ id \notin Ids /\ DOMAIN grown = Ids \cup {id}
      /\ \A i \in Ids : grown[i] = registry[i] /\ i \in Nat /\ i < id
      /\ grown[id].name = Record.name
  <2> HIDE DEF grown
  <2>1. /\ grown \in Seq(Customer) /\ Len(grown) = Len(registry) + 1
        /\ \A i \in 1 .. Len(registry) : grown[i] = registry[i]
        /\ grown[Len(registry) + 1] = NewCustomer(Record.name)
    BY <1>3, AppendProperties DEF grown
  <2>2. Ids = 1 .. Len(registry) /\ DOMAIN grown = 1 .. Len(grown) /\ Len(registry) \in Nat
    BY <1>3, <2>1 DEF Ids
  <2> QED
    BY <1>3, <2>1, <2>2
<1> HIDE DEF grown, id
<1>5. /\ Grown(registry', grown) /\ Holds(registry', id, Record.record_id)
  BY <1>1, <1>2, <1>4, WithGrows
<1>6. /\ registry' \in Seq(Customer) /\ Ids' = Ids \cup {id}
      /\ \A i \in Ids : /\ registry'[i].name = registry[i].name
                        /\ \A a : Holds(registry, i, a) => Holds(registry', i, a)
      /\ registry'[id].name = Record.name
  <2>1. \A i \in Ids : \A a : Holds(registry, i, a) => Holds(grown, i, a)
    BY <1>4 DEF Holds
  <2> QED
    BY <1>4, <1>5, <2>1 DEF Grown, Ids
<1>7. CustomersStayApart'
  <2>1. ASSUME NEW i \in Ids', NEW j \in Ids', i < j
        PROVE  Similarity[registry'[j].name][registry'[i].name] < FuzzyAutoAccept
    <3>1. CASE j \in Ids
      <4>1. i \in Ids
        BY <3>1, <2>1, <1>4, <1>6
      <4> QED
        BY <4>1, <3>1, <2>1, <1>6 DEF IInv, CustomersStayApart
    <3>2. CASE j = id
      <4>1. i \in Ids
        BY <3>2, <2>1, <1>4, <1>6
      <4>2. /\ Score(Record.name, i) \in Nat /\ BestScore(Record.name) \in Nat
            /\ Score(Record.name, i) <= BestScore(Record.name)
        BY <4>1, <1>1, <1>3, ScoreType, BestScoreBounds
      <4>3. Score(Record.name, i) < 8500000
        BY ONLY <4>2, <1>2 DEF FuzzyAutoAccept
      <4> QED
        BY <4>1, <4>3, <3>2, <1>6 DEF Score, FuzzyAutoAccept
    <3> QED
      BY <3>1, <3>2, <1>6
  <2> QED
    BY <2>1 DEF CustomersStayApart
<1>8. Concluded(id, "new_entity")
  <2>1. Certain \in ScoreRange
    BY ScoreNumbers
  <2>2. "new_entity" \in Methods /\ id \in Nat \cup {None}
    BY <1>4 DEF Methods
  <2>3. Concludes(id, Certain, "new_entity")
    BY <2>1, <2>2, <1>1, <1>2 DEF Concludes
  <2> QED
    BY <2>3, ConcludeStep
<1>9. /\ DOMAIN crm_key' = DOMAIN crm_key \cup {Record.record_id}
      /\ \A a \in DOMAIN crm_key' :
             crm_key'[a] \in Ids' /\ Holds(registry', crm_key'[a], a)
  BY <1>2, <1>5, <1>6 DEF IInv, Typed, AccountsIndexed
<1>10. ~HasKnownKey(Record)
  BY <1>1 DEF HasKnownKey
<1>11. Placement(id, "new_entity")
  BY <1>1, <1>6, <1>7, <1>8, <1>9, <1>10 DEF Placement
<1> QED
  BY <1>1, <1>11, PlacementKeepsInvariant

\* A record attached to a customer by a key, a name or an LLM; the index and
\* the queue stay as they were.
Attaches(id, c, m) ==
    /\ Resolving /\ Record.system # "crm"
    /\ c \in ScoreRange /\ m \in Methods
    /\ attach(id, Record) /\ Conclude(id, c, m) /\ UNCHANGED <<crm_key, queue>>
    /\ m \in {"exact_name", "fuzzy_name"} =>
           /\ Record.name \in Names /\ Leads(Record.name, id)
           /\ \A j \in Ids : Score(Record.name, j) <= Score(Record.name, id)
    /\ HasKnownKey(Record) => m = "exact_key" /\ id = crm_key[Record.crm_account_id]
    /\ m = "exact_key" => HasKnownKey(Record)
    /\ m \in {"exact_key", "exact_name", "fuzzy_name", "llm"}
    /\ m = "llm" => Residual
    /\ m # "exact_key" => ~Unnamed

LEMMA AttachedPlaces ==
    ASSUME IInv, NEW id, NEW c, NEW m, Attaches(id, c, m)
    PROVE  IInv'
<1> USE DEF Attaches
<1>1. /\ id \in Ids /\ id \in Nat /\ registry' \in Seq(Customer) /\ Ids' = Ids
      /\ \A i \in Ids : /\ registry'[i].name = registry[i].name
                        /\ \A a : Holds(registry, i, a) => Holds(registry', i, a)
      /\ CustomersStayApart'
  BY AttachGrows
<1>2. Concluded(id, m)
  <2>1. Concludes(id, c, m)
    BY <1>1 DEF Concludes, IInv
  <2> QED
    BY <2>1, ConcludeStep
<1>3. \A a \in DOMAIN crm_key : crm_key[a] \in Ids /\ Holds(registry, crm_key[a], a)
  BY DEF IInv, Typed, AccountsIndexed
<1>4. \A a \in DOMAIN crm_key' : crm_key'[a] \in Ids' /\ Holds(registry', crm_key'[a], a)
  BY <1>1, <1>3
<1>5. m \in {"exact_name", "fuzzy_name"} =>
          \A j \in Ids' : Similarity[Record.name][registry'[j].name]
                              <= Similarity[Record.name][registry'[id].name]
  BY <1>1 DEF Score
<1>6. HasKnownKey(Record) =>
          m = "exact_key" /\ id \in Ids' /\ Holds(registry', id, Record.crm_account_id)
  BY <1>1, <1>3 DEF HasKnownKey
<1>7. Placement(id, m)
  BY <1>1, <1>2, <1>4, <1>5, <1>6 DEF Placement
<1> QED
  BY <1>7, PlacementKeepsInvariant

\* A record that waits for a person changes nothing but the outcomes.
LEMMA QueuedPlaces ==
    ASSUME IInv, ByName, NEW c \in ScoreRange, Conclude(None, c, "unresolved"),
           UNCHANGED matcherVars
    PROVE  IInv'
<1>1. Resolving /\ Record.system # "crm" /\ ~HasKnownKey(Record)
  BY DEF ByName
<1>2. "unresolved" \in Methods /\ "unresolved" \notin {"exact_name", "fuzzy_name"}
  BY DEF Methods
<1>3. Concluded(None, "unresolved")
  <2>1. Concludes(None, c, "unresolved")
    BY <1>1, <1>2 DEF Concludes, IInv
  <2> QED
    BY <2>1, ConcludeStep
<1>4. registry' = registry /\ crm_key' = crm_key /\ Ids' = Ids
  BY DEF matcherVars, Ids
<1>5. CustomersStayApart'
  BY <1>4 DEF IInv, CustomersStayApart
<1>6. \A a \in DOMAIN crm_key' : crm_key'[a] \in Ids' /\ Holds(registry', crm_key'[a], a)
  BY <1>4 DEF IInv, Typed, AccountsIndexed
<1>7. registry' \in Seq(Customer)
  BY <1>4 DEF IInv, Typed
<1>8. Placement(None, "unresolved")
  BY <1>1, <1>2, <1>3, <1>4, <1>5, <1>6, <1>7 DEF Placement
<1> QED
  BY <1>1, <1>8, PlacementKeepsInvariant

\* The actions that attach a record.
LEMMA ActionsAttach ==
    ASSUME IInv, MatchByKey \/ MatchByName \/ AcceptLlm
    PROVE  \E id, c, m : Attaches(id, c, m)
<1>1. CASE MatchByKey
  <2>1. Certain \in ScoreRange
    BY ScoreNumbers
  <2>2. "exact_key" \in Methods /\ "exact_key" \notin {"exact_name", "fuzzy_name"}
    BY DEF Methods
  <2>3. Resolving /\ Record.system # "crm"
    BY <1>1 DEF MatchByKey, HasKnownKey
  <2>4. /\ attach(crm_key[Record.crm_account_id], Record)
        /\ Conclude(crm_key[Record.crm_account_id], Certain, "exact_key")
        /\ UNCHANGED <<crm_key, queue>>
    BY <1>1 DEF MatchByKey
  <2>5. Attaches(crm_key[Record.crm_account_id], Certain, "exact_key")
    BY <1>1, <2>1, <2>2, <2>3, <2>4 DEF Attaches, MatchByKey
  <2> QED
    BY <2>5
<1>2. CASE MatchByName
  <2> DEFINE id == Best(Record.name)
             m == NameMethod(BestScore(Record.name))
  <2>1. Resolving /\ Record.system # "crm" /\ ~HasKnownKey(Record) /\ ~Unnamed
    BY <1>2 DEF MatchByName, ByName
  <2>2. Record.name \in Names
    BY <1>2, <2>1, RecordType DEF MatchByName, Unnamed, IInv
  <2>3. /\ id \in Ids /\ BestScore(Record.name) \in ScoreRange
        /\ BestScore(Record.name) = Score(Record.name, id)
        /\ BestScore(Record.name) >= FuzzyAutoAccept
        /\ \A j \in Ids : Score(Record.name, j) <= Score(Record.name, id)
        /\ \A j \in Ids \ {id} : Outscores(Record.name, id, j)
    BY <1>2, <2>2, AcceptedIsBest DEF MatchByName
  <2>4. m \in Methods /\ m \in {"exact_name", "fuzzy_name"}
    BY DEF NameMethod, Methods
  <2>5. attach(id, Record) /\ Conclude(id, BestScore(Record.name), m)
        /\ UNCHANGED <<crm_key, queue>>
    BY <1>2 DEF MatchByName
  <2> HIDE DEF id, m
  <2>6. Leads(Record.name, id)
    BY <2>2, <2>3 DEF Leads
  <2>7. Attaches(id, BestScore(Record.name), m)
    BY <2>1, <2>2, <2>3, <2>4, <2>5, <2>6 DEF Attaches
  <2> QED
    BY <2>7
<1>3. CASE AcceptLlm
  <2>1. /\ Resolving /\ Record.system # "crm" /\ ~HasKnownKey(Record)
        /\ Residual /\ ~Unnamed
    BY <1>3 DEF AcceptLlm, AsksLlm, Residual, ByName, HasCandidates
  <2>2. PICK id \in ReplyIds, c \in Confidences :
            attach(id, Record) /\ Conclude(id, c, "llm")
    BY <1>3 DEF AcceptLlm
  <2>3. c \in ScoreRange /\ UNCHANGED <<crm_key, queue>>
    <3>1. Confidences \subseteq ScoreRange
      BY ResolutionAssumption DEF ResolutionAssumption
    <3>2. UNCHANGED <<crm_key, queue>>
      BY <1>3 DEF AcceptLlm
    <3> QED
      BY <3>1, <3>2
  <2>4. "llm" \in Methods /\ "llm" \notin {"exact_name", "fuzzy_name"}
    BY DEF Methods
  <2>5. Attaches(id, c, "llm")
    BY <2>1, <2>2, <2>3, <2>4 DEF Attaches
  <2> QED
    BY <2>5
<1> QED
  BY <1>1, <1>2, <1>3

\* The actions that queue a record.
LEMMA ActionsQueue ==
    ASSUME IInv, QueueUncandidated \/ QueueResidual \/ QueueUnsure
    PROVE  \E c \in ScoreRange, reason \in Reasons : ByName /\ Enqueue(c, reason)
<1>1. CASE QueueUncandidated
  <2>1. 0 \in ScoreRange /\ "no_name" \in Reasons
    BY ScoreNumbers DEF Reasons
  <2> QED
    BY <1>1, <2>1 DEF QueueUncandidated
<1>2. CASE QueueResidual \/ QueueUnsure
  <2>1. Residual /\ \E reason \in Reasons : Enqueue(BestScore(Record.name), reason)
    BY <1>2 DEF QueueResidual, QueueUnsure, AsksLlm, Reasons
  <2>2. ByName /\ Record.name \in Names
    BY <2>1, RecordType DEF Residual, HasCandidates, Unnamed, ByName, IInv
  <2>3. BestScore(Record.name) \in ScoreRange
    <3>1. registry \in Seq(Customer)
      BY DEF IInv, Typed
    <3> QED
      BY <2>2, <3>1, BestScoreType, ZenonT(60)
  <2> QED
    BY <2>1, <2>2, <2>3
<1> QED
  BY <1>1, <1>2

-----------------------------------------------------------------------------
(* The invariant.                                                          *)

LEMMA InitHolds == Init => IInv
<1> SUFFICES ASSUME Init PROVE IInv
  OBVIOUS
<1>1. registry = <<>> /\ crm_key = <<>> /\ outcomes = <<>> /\ dataset \in Datasets
  BY DEF Init, MatcherInit
<1>2. dataset \in Seq(RawRecord) /\ Len(dataset) \in Nat
  BY <1>1, ResolutionAssumption DEF ResolutionAssumption
<1>3. /\ DOMAIN registry = {} /\ DOMAIN crm_key = {} /\ DOMAIN outcomes = {}
      /\ Len(outcomes) = 0
      /\ registry \in Seq(Customer) /\ outcomes \in Seq(Outcome)
  BY <1>1
<1> QED
  BY <1>1, <1>2, <1>3 DEF IInv, Typed, AccountsIndexed, NamedIsPlaced, Ids,
     CustomersStayApart, KeyFollowsAccount, PlacedByNameIsBest

LEMMA StepHolds == IInv /\ [Next]_vars => IInv'
<1> SUFFICES ASSUME IInv, [Next]_vars PROVE IInv'
  OBVIOUS
<1>1. CASE MergeCrm
  BY <1>1, MergeCrmPlaces
<1>2. CASE AddCrm
  BY <1>2, AddCrmPlaces
<1>3. CASE MatchByKey \/ MatchByName \/ AcceptLlm
  BY <1>3, ActionsAttach, AttachedPlaces
<1>4. CASE QueueUncandidated \/ QueueResidual \/ QueueUnsure
  <2>1. PICK c \in ScoreRange, reason \in Reasons : ByName /\ Enqueue(c, reason)
    BY <1>4, ActionsQueue
  <2>2. ByName /\ Conclude(None, c, "unresolved") /\ UNCHANGED matcherVars
    BY <2>1 DEF Enqueue
  <2> QED
    BY <2>2, QueuedPlaces
<1>8. CASE UNCHANGED <<registry, crm_key, dataset, outcomes>>
  <2>1. registry' = registry /\ crm_key' = crm_key /\ dataset' = dataset
        /\ outcomes' = outcomes /\ Ids' = Ids /\ CrmAccounts' = CrmAccounts
    BY <1>8 DEF Ids, CrmAccounts
  <2>2. Typed' /\ AccountsIndexed' /\ NamedIsPlaced'
    BY <2>1 DEF IInv, Typed, AccountsIndexed, NamedIsPlaced, Holds
  <2>3. CustomersStayApart' /\ KeyFollowsAccount'
    BY <2>1 DEF IInv, CustomersStayApart, KeyFollowsAccount
  <2>4. PlacedByNameIsBest'
    BY <2>1 DEF IInv, PlacedByNameIsBest, Score
  <2> QED
    BY <2>2, <2>3, <2>4 DEF IInv
<1>9. CASE AbortOnUnknownId \/ AbortOnProviderError \/ Report \/ BuildServer \/ Review
           \/ UNCHANGED vars
  BY <1>8, <1>9 DEF AbortOnUnknownId, AbortOnProviderError, Abort, Report, BuildServer,
     Review, vars, matcherVars, resolutionVars
<1> QED
  BY <1>1, <1>2, <1>3, <1>4, <1>9 DEF Next, ProgramStep

LEMMA InvariantHolds == Spec => []IInv
BY InitHolds, StepHolds, PTL DEF Spec

-----------------------------------------------------------------------------
(* The first match of a lookup.                                            *)

LEMMA RoundedType ==
    ASSUME NEW s \in Nat
    PROVE  Rounded(s) \in Nat
<1> DEFINE q == s \div 1000
           u == s % 1000
<1>1. q \in Int /\ u \in 0 .. 999 /\ s = 1000 * q + u
  OBVIOUS
<1>2. Rounded(s) = IF u > 500 \/ (u = 500 /\ q % 2 = 1) THEN q + 1 ELSE q
  BY DEF Rounded
<1> HIDE DEF q, u
<1> QED
  BY ONLY <1>1, <1>2, s \in Nat

\* Rounding keeps the order of scores, up to ties.
LEMMA RoundedMonotone ==
    ASSUME NEW s \in Nat, NEW t \in Nat, s <= t
    PROVE  Rounded(s) <= Rounded(t)
<1> DEFINE q == s \div 1000
           r == t \div 1000
           u == s % 1000
           v == t % 1000
<1>1. q \in Int /\ u \in 0 .. 999 /\ s = 1000 * q + u
  OBVIOUS
<1>2. r \in Int /\ v \in 0 .. 999 /\ t = 1000 * r + v
  OBVIOUS
<1>3. /\ Rounded(s) = IF u > 500 \/ (u = 500 /\ q % 2 = 1) THEN q + 1 ELSE q
      /\ Rounded(t) = IF v > 500 \/ (v = 500 /\ r % 2 = 1) THEN r + 1 ELSE r
  BY DEF Rounded
<1> HIDE DEF q, r, u, v
<1>4. q <= r
  BY ONLY <1>1, <1>2, s <= t
<1>5. CASE q < r
  <2>1. Rounded(s) <= q + 1 /\ r <= Rounded(t)
    BY ONLY <1>1, <1>2, <1>3
  <2>2. Rounded(s) \in Nat /\ Rounded(t) \in Nat
    BY RoundedType
  <2> QED
    BY ONLY <1>1, <1>2, <1>5, <2>1, <2>2
<1>6. CASE q = r
  <2>1. u <= v
    BY ONLY <1>1, <1>2, <1>6, s <= t
  <2>2. (u > 500 \/ (u = 500 /\ q % 2 = 1)) => (v > 500 \/ (v = 500 /\ r % 2 = 1))
    BY ONLY <1>1, <1>2, <1>6, <2>1
  <2> QED
    BY ONLY <1>1, <1>3, <1>6, <2>2
<1> QED
  BY ONLY <1>1, <1>2, <1>4, <1>5, <1>6

\* The scores the proofs compare others with are not changed by rounding.
LEMMA RoundedBounds ==
    ASSUME NEW s \in Nat
    PROVE  /\ s <= Certain => Rounded(s) <= 10000
           /\ s = Certain => Rounded(s) = 10000
           /\ s <= 8500000 => Rounded(s) <= 8500
           /\ s >= 8500000 => Rounded(s) >= 8500
<1>1. Rounded(Certain) = 10000 /\ Rounded(8500000) = 8500
  BY DEF Rounded, Certain
<1>2. /\ s <= Certain => Rounded(s) <= Rounded(Certain)
      /\ s <= 8500000 => Rounded(s) <= Rounded(8500000)
      /\ s >= 8500000 => Rounded(8500000) <= Rounded(s)
  BY RoundedMonotone, ScoreNumbers
<1>3. Rounded(s) \in Nat
  BY RoundedType
<1> QED
  BY ONLY <1>1, <1>2, <1>3, s \in Nat

\* What lookup_customer finds, when anything is like the query, is a match,
\* and no other match is listed before it.
LEMMA FirstIsFound ==
    ASSUME registry \in Seq(Customer), NEW name \in Names, Matches(name) # {}
    PROVE  /\ lookup_customer(name) \in Matches(name)
           /\ \A j \in Matches(name) \ {lookup_customer(name)} :
                  ListedBefore(name, lookup_customer(name), j)
<1> DEFINE S == Matches(name)
           f == [j \in S |-> MatchScore(name, j)]
<1>1. \A j \in S : j \in Ids /\ j \in Nat
  BY DEF Matches, Ids
<1>2. ASSUME NEW j \in S
      PROVE  f[j] = MatchScore(name, j) /\ f[j] \in Nat /\ f[j] <= Certain
  <2>1. Score(name, j) \in Nat /\ Score(name, j) <= Certain
    BY <1>1, ScoreType
  <2>2. MatchScore(name, j) \in Nat /\ MatchScore(name, j) <= 10000
    BY <2>1, RoundedType, RoundedBounds DEF MatchScore
  <2>3. f[j] = MatchScore(name, j)
    OBVIOUS
  <2> HIDE DEF f
  <2> QED
    BY ONLY <2>2, <2>3 DEF Certain
<1> HIDE DEF f, S
<1>3. S # {}
  BY DEF S
<1>4. PICK k \in S : \A j \in S \ {k} : f[k] > f[j] \/ (f[k] = f[j] /\ k < j)
  BY <1>1, <1>2, <1>3, ScoreNumbers, FirstOfGreatest
<1>5. \A j \in S \ {k} : ListedBefore(name, k, j)
  BY <1>2, <1>4 DEF ListedBefore
<1>6. lookup_customer(name) =
          CHOOSE i \in S : \A j \in S \ {i} : ListedBefore(name, i, j)
  BY DEF lookup_customer, S
<1>7. \E i \in S : \A j \in S \ {i} : ListedBefore(name, i, j)
  BY <1>5
<1>8. /\ lookup_customer(name) \in S
      /\ \A j \in S \ {lookup_customer(name)} : ListedBefore(name, lookup_customer(name), j)
  BY ONLY <1>6, <1>7
<1> QED
  BY <1>8 DEF S

-----------------------------------------------------------------------------
(* The theorems about names and keys.                                      *)

\* No CRM row creates a customer that one of the customers before it would
\* have absorbed, whatever rows, names and scores there are
\* (resolve_crm_self).
THEOREM CustomersNeverAlike == Spec => []CustomersStayApart
BY InvariantHolds, PTL DEF IInv

\* A foreign key leads to the customer that holds the account, for every
\* export and every merge (resolve_billing_record, resolve_crm_self).
THEOREM KeysSurviveMerging == Spec => []KeyFollowsAccount
BY InvariantHolds, PTL DEF IInv

\* No customer is a better home for a record placed by its name, until the
\* end of the run and after it (_best_registry_match).
THEOREM NamesFindTheirBest == Spec => []PlacedByNameIsBest
BY InvariantHolds, PTL DEF IInv

\* A customer's own name, if a lookup accepts it, finds the customer first: it
\* scores Certain there and rounding leaves that, the earlier customers stay
\* below the threshold, rounded or not, and of equal scores the earlier
\* customer comes first (lookup_customer).
THEOREM OwnNameFindsCustomer == Spec => []CustomerFoundByOwnName
<1>1. IInv => CustomerFoundByOwnName
  <2> SUFFICES ASSUME IInv, NEW id \in Ids, registry[id].name \in CustomerLookupInput
               PROVE  lookup_customer(registry[id].name) = id
    BY DEF CustomerFoundByOwnName
  <2> DEFINE name == registry[id].name
             found == lookup_customer(name)
  <2>1. /\ registry \in Seq(Customer) /\ registry[id] \in Customer
        /\ \A j \in Ids : j \in Nat
    BY DEF IInv, Typed, Ids
  <2>2. name \in Names
    BY <2>1 DEF Customer
  <2>3. Score(name, id) = Certain
    BY <2>2, ResolutionAssumption DEF ResolutionAssumption, Score
  <2>4. \A j \in Ids : j < id => Score(name, j) < 8500000
    BY <2>1 DEF IInv, CustomersStayApart, Score, FuzzyAutoAccept
  <2> HIDE DEF name, found
  <2>5. id \in Matches(name) /\ Matches(name) \subseteq Ids
    <3>1. Certain >= 5000000
      BY DEF Certain
    <3> QED
      BY <2>3, <3>1 DEF Matches, MinLookupScore
  <2>6. found \in Matches(name)
        /\ \A j \in Matches(name) \ {found} : ListedBefore(name, found, j)
    BY <2>1, <2>2, <2>5, FirstIsFound DEF found
  <2>7. found \in Ids /\ Score(name, found) \in Nat /\ Score(name, found) <= Certain
    BY <2>1, <2>2, <2>5, <2>6, ScoreType
  <2>8. /\ MatchScore(name, id) = 10000
        /\ MatchScore(name, found) \in Nat /\ MatchScore(name, found) <= 10000
        /\ found < id => MatchScore(name, found) <= 8500
    <3>1. MatchScore(name, id) = 10000
      BY <2>3, RoundedBounds, ScoreNumbers DEF MatchScore
    <3>2. /\ Rounded(Score(name, found)) \in Nat
          /\ Rounded(Score(name, found)) <= 10000
          /\ Score(name, found) <= 8500000 => Rounded(Score(name, found)) <= 8500
      BY <2>7, RoundedType, RoundedBounds
    <3>3. found < id => Score(name, found) < 8500000
      BY <2>4, <2>7
    <3>4. found < id => Score(name, found) <= 8500000
      BY ONLY <2>7, <3>3
    <3> QED
      BY <3>1, <3>2, <3>4 DEF MatchScore
  <2>9. found = id
    <3> SUFFICES ASSUME found # id PROVE FALSE
      OBVIOUS
    <3>1. \/ MatchScore(name, found) > MatchScore(name, id)
          \/ MatchScore(name, found) = MatchScore(name, id) /\ found < id
      BY <2>5, <2>6 DEF ListedBefore
    <3> QED
      BY ONLY <2>8, <3>1
  <2> QED
    BY <2>9 DEF name, found
<1> QED
  BY <1>1, InvariantHolds, PTL

-----------------------------------------------------------------------------
(* What the records' lists say of one another.                             *)

\* The record ids of rows, one by one.
LEMMA RecordsOfRows ==
    ASSUME NEW Row, \A r \in Row : r.record_id \in RecordIds,
           NEW rows \in Seq(Row)
    PROVE  /\ RecordsOf(rows) \in Seq(RecordIds)
           /\ Len(RecordsOf(rows)) = Len(rows)
           /\ \A n \in DOMAIN rows : RecordsOf(rows)[n] = rows[n].record_id
           /\ \A r \in Row : RecordsOf(Append(rows, r))
                                 = Append(RecordsOf(rows), r.record_id)
<1>1. \A n \in 1 .. Len(rows) : rows[n] \in Row /\ rows[n].record_id \in RecordIds
  OBVIOUS
<1>2. /\ RecordsOf(rows) \in Seq(RecordIds)
      /\ Len(RecordsOf(rows)) = Len(rows)
      /\ \A n \in DOMAIN rows : RecordsOf(rows)[n] = rows[n].record_id
  BY <1>1 DEF RecordsOf
<1>3. ASSUME NEW r \in Row
      PROVE  RecordsOf(Append(rows, r)) = Append(RecordsOf(rows), r.record_id)
  <2> DEFINE longer == Append(rows, r)
  <2>1. longer \in Seq(Row) /\ Len(longer) = Len(rows) + 1
    OBVIOUS
  <2>2. /\ RecordsOf(longer) \in Seq(RecordIds)
        /\ Len(RecordsOf(longer)) = Len(rows) + 1
        /\ \A n \in 1 .. Len(rows) + 1 : RecordsOf(longer)[n] = longer[n].record_id
    <3>1. \A n \in 1 .. Len(longer) : longer[n] \in Row /\ longer[n].record_id \in RecordIds
      BY <2>1
    <3> HIDE DEF longer
    <3> QED
      BY <2>1, <3>1 DEF RecordsOf
  <2>3. /\ Append(RecordsOf(rows), r.record_id) \in Seq(RecordIds)
        /\ Len(Append(RecordsOf(rows), r.record_id)) = Len(rows) + 1
    BY <1>2
  <2>4. ASSUME NEW n \in 1 .. Len(rows) + 1
        PROVE  RecordsOf(longer)[n] = Append(RecordsOf(rows), r.record_id)[n]
    <3>0. RecordsOf(longer)[n] = longer[n].record_id
      BY <2>2
    <3>1. CASE n \in 1 .. Len(rows)
      <4>1. longer[n] = rows[n]
        BY <3>1
      <4>2. Append(RecordsOf(rows), r.record_id)[n] = RecordsOf(rows)[n]
        BY <1>2, <3>1
      <4> QED
        BY <1>2, <3>0, <3>1, <4>1, <4>2
    <3>2. CASE n = Len(rows) + 1
      <4>1. longer[n] = r
        BY <3>2
      <4>2. Append(RecordsOf(rows), r.record_id)[n] = r.record_id
        BY <1>2, <3>2
      <4> QED
        BY <3>0, <4>1, <4>2
    <3>3. Len(rows) \in Nat
      OBVIOUS
    <3>4. n \in 1 .. Len(rows) \/ n = Len(rows) + 1
      BY ONLY <3>3, n \in 1 .. Len(rows) + 1
    <3> QED
      BY <3>1, <3>2, <3>4
  <2> DEFINE a == RecordsOf(longer)
             b == Append(RecordsOf(rows), r.record_id)
  <2>5. /\ a \in Seq(RecordIds) /\ b \in Seq(RecordIds) /\ Len(a) = Len(b)
        /\ \A n \in 1 .. Len(a) : a[n] = b[n]
    BY <2>2, <2>3, <2>4
  <2> HIDE DEF a, b
  <2>6. a = b
    BY ONLY <2>5, SeqEqual
  <2> QED
    BY <2>6 DEF a, b
<1> QED
  BY <1>2, <1>3

\* A selection from rows that grow by one.
LEMMA SelectionGrows ==
    ASSUME NEW Row, \A r \in Row : r.record_id \in RecordIds,
           NEW rows \in Seq(Row), NEW r \in Row, NEW S, NEW T,
           \A n \in DOMAIN rows : n \in S <=> n \in T
    PROVE  Selected(RecordsOf(Append(rows, r)), T) =
               IF Len(rows) + 1 \in T
               THEN Append(Selected(RecordsOf(rows), S), r.record_id)
               ELSE Selected(RecordsOf(rows), S)
<1> DEFINE ids == RecordsOf(rows)
           id == r.record_id
<1>1. /\ ids \in Seq(RecordIds) /\ Len(ids) = Len(rows) /\ id \in RecordIds
      /\ RecordsOf(Append(rows, r)) = Append(ids, id)
      /\ Len(rows) \in Nat /\ DOMAIN rows = 1 .. Len(rows)
  BY RecordsOfRows
<1> HIDE DEF ids, id
<1>2. Selected(ids, S) = Selected(ids, T)
  <2>1. \A n \in 1 .. Len(ids) : ids[n] = ids[n] /\ (n \in S <=> n \in T)
    BY <1>1
  <2>2. Len(ids) \in Nat
    BY <1>1
  <2> QED
    BY ONLY <2>1, <2>2, SelectedAgrees
<1>3. Selected(Append(ids, id), T) =
          IF Len(ids) + 1 \in T THEN Append(Selected(ids, T), id) ELSE Selected(ids, T)
  BY <1>1, SelectedAppend
<1> QED
  BY <1>1, <1>2, <1>3 DEF ids, id

\* What concluding a record with id adds to the two selections of outcomes.
PlacesRecord(id) ==
    /\ \A i \in Nat, s \in Systems :
           PlacedWith(i, s)' = IF i = id /\ s = Record.system
                               THEN Append(PlacedWith(i, s), Record.record_id)
                               ELSE PlacedWith(i, s)
    /\ UnplacedRecords' = IF id = None
                          THEN Append(UnplacedRecords, Record.record_id)
                          ELSE UnplacedRecords
    /\ outcomes'[Len(outcomes) + 1].record_id = Record.record_id

LEMMA ConcludePlaces ==
    ASSUME NEW id, NEW c, NEW m, Concludes(id, c, m)
    PROVE  PlacesRecord(id) /\ Concluded(id, m)
<1>0. Concluded(id, m)
  BY ConcludeStep
<1> USE DEF Concludes
<1> DEFINE o == [system |-> Record.system, record_id |-> Record.record_id,
                 matched_canonical_id |-> id, confidence |-> c, method |-> m]
           new == Len(outcomes) + 1
<1>1. o \in Outcome
  BY RecordType DEF Outcome
<1>2. /\ o.system = Record.system /\ o.matched_canonical_id = id
      /\ o.record_id = Record.record_id
  OBVIOUS
<1>3. outcomes' = Append(outcomes, o) /\ outcomes \in Seq(Outcome)
  BY DEF Conclude, Typed
<1>4. \A r \in Outcome : r.record_id \in RecordIds
  BY DEF Outcome
<1> HIDE DEF o
<1>5. /\ DOMAIN outcomes' = DOMAIN outcomes \cup {new} /\ new \notin DOMAIN outcomes
      /\ \A n \in DOMAIN outcomes : outcomes'[n] = outcomes[n]
      /\ outcomes'[new] = o
  BY <1>1, <1>3
<1> HIDE DEF new
<1>6. ASSUME NEW i \in Nat, NEW s \in Systems
      PROVE  PlacedWith(i, s)' = IF i = id /\ s = Record.system
                                 THEN Append(PlacedWith(i, s), Record.record_id)
                                 ELSE PlacedWith(i, s)
  <2> DEFINE S == {n \in DOMAIN outcomes :
                      outcomes[n].system = s /\ outcomes[n].matched_canonical_id = i}
             T == {n \in DOMAIN outcomes' :
                      outcomes'[n].system = s /\ outcomes'[n].matched_canonical_id = i}
  <2>1. \A n \in DOMAIN outcomes : n \in S <=> n \in T
    BY <1>5
  <2>2. new \in T <=> i = id /\ s = Record.system
    BY <1>2, <1>5
  <2>3. PlacedWith(i, s) = Selected(RecordsOf(outcomes), S)
        /\ PlacedWith(i, s)' = Selected(RecordsOf(Append(outcomes, o)), T)
    BY <1>3 DEF PlacedWith, RecordsOf
  <2> HIDE DEF S, T
  <2>4. Selected(RecordsOf(Append(outcomes, o)), T) =
            IF new \in T THEN Append(Selected(RecordsOf(outcomes), S), o.record_id)
            ELSE Selected(RecordsOf(outcomes), S)
    BY <1>1, <1>3, <1>4, <2>1, SelectionGrows DEF new
  <2> QED
    BY <1>2, <2>2, <2>3, <2>4
<1>7. UnplacedRecords' = IF id = None THEN Append(UnplacedRecords, Record.record_id)
                         ELSE UnplacedRecords
  <2> DEFINE S == {n \in DOMAIN outcomes : outcomes[n].matched_canonical_id = None}
             T == {n \in DOMAIN outcomes' : outcomes'[n].matched_canonical_id = None}
  <2>1. \A n \in DOMAIN outcomes : n \in S <=> n \in T
    BY <1>5
  <2>2. new \in T <=> id = None
    BY <1>2, <1>5
  <2>3. UnplacedRecords = Selected(RecordsOf(outcomes), S)
        /\ UnplacedRecords' = Selected(RecordsOf(Append(outcomes, o)), T)
    BY <1>3 DEF UnplacedRecords, RecordsOf
  <2> HIDE DEF S, T
  <2>4. Selected(RecordsOf(Append(outcomes, o)), T) =
            IF new \in T THEN Append(Selected(RecordsOf(outcomes), S), o.record_id)
            ELSE Selected(RecordsOf(outcomes), S)
    BY <1>1, <1>3, <1>4, <2>1, SelectionGrows DEF new
  <2> QED
    BY <1>2, <2>2, <2>3, <2>4
<1> QED
  BY <1>0, <1>2, <1>5, <1>6, <1>7 DEF new, PlacesRecord

\* With adds one id to one list of one customer.
LEMMA WithAppends ==
    ASSUME NEW customers \in Seq(Customer), NEW id \in DOMAIN customers,
           NEW rec, rec.system \in Systems, rec.record_id \in RecordIds,
           NEW i \in DOMAIN customers, NEW s \in Systems
    PROVE  With(customers, id, rec)[i].source_record_ids[s] =
               IF i = id /\ s = rec.system
               THEN Append(customers[i].source_record_ids[s], rec.record_id)
               ELSE customers[i].source_record_ids[s]
<1> DEFINE c == customers[id]
           longer == Append(c.source_record_ids[rec.system], rec.record_id)
           ids == [c.source_record_ids EXCEPT ![rec.system] = longer]
           new == [c EXCEPT !.source_record_ids = ids]
<1>0. c \in Customer
  OBVIOUS
<1>1. c \in Customer /\ c.source_record_ids \in [Systems -> Seq(RecordIds)]
  BY <1>0 DEF Customer
<1>2. With(customers, id, rec) = [customers EXCEPT ![id] = new]
  BY DEF With
<1> HIDE DEF longer
<1>3. ids[s] = IF s = rec.system THEN longer ELSE c.source_record_ids[s]
  BY <1>1
<1> HIDE DEF ids
<1>4. new.source_record_ids = ids
  BY <1>1 DEF Customer
<1> HIDE DEF new
<1>5. [customers EXCEPT ![id] = new][i] = IF i = id THEN new ELSE customers[i]
  OBVIOUS
<1> QED
  BY <1>2, <1>3, <1>4, <1>5 DEF longer

ReviewItems ==
    [system : Systems \ {"crm"}, record_id : RecordIds, reason : Reasons,
     status : {"pending", "resolved", "rejected"},
     resolved_canonical_id : ReplyIds \cup {None}]

\* An outcome is about its record and names a customer or none.
OutcomesNamed ==
    \A n \in DOMAIN outcomes :
        /\ outcomes[n].record_id = dataset[n].record_id
        /\ outcomes[n].matched_canonical_id \in Ids \cup {None}

\* Every record handled has left its id where the registry, the queue and the
\* outcomes agree on it.
RecordsTraced ==
    /\ OutcomesNamed
    /\ queue \in Seq(ReviewItems)
    /\ DOMAIN crm_key \subseteq RecordIds
    /\ OutcomesExplainRegistry
    /\ UnplacedWaitForReview

\* The outcome of a record that is concluded with a customer, or with none.
LEMMA ConcludeNames ==
    ASSUME OutcomesNamed, \A i \in Ids : i \in Ids', NEW id, NEW m,
           id \in Ids' \cup {None}, Concluded(id, m), PlacesRecord(id)
    PROVE  OutcomesNamed'
<1>1. /\ dataset' = dataset
      /\ DOMAIN outcomes' = DOMAIN outcomes \cup {Len(outcomes) + 1}
      /\ \A n \in DOMAIN outcomes : outcomes'[n] = outcomes[n]
      /\ outcomes'[Len(outcomes) + 1].matched_canonical_id = id
  BY DEF Concluded
<1>2. outcomes'[Len(outcomes) + 1].record_id = dataset[Len(outcomes) + 1].record_id
  BY DEF PlacesRecord, Record
<1> QED
  BY <1>1, <1>2 DEF OutcomesNamed

\* Placing a record asks nothing of the queue.
LEMMA QueueStays ==
    ASSUME UnplacedWaitForReview, queue' = queue, NEW id, id # None, PlacesRecord(id)
    PROVE  UnplacedWaitForReview'
<1>1. UnplacedRecords' = UnplacedRecords
  BY DEF PlacesRecord
<1>2. RecordsOf(queue)' = RecordsOf(queue)
  BY DEF RecordsOf
<1> QED
  BY <1>1, <1>2 DEF UnplacedWaitForReview

\* A record attached to a customer.
AttachesRecord(id, c, m) ==
    /\ Resolving /\ c \in ScoreRange /\ m \in Methods
    /\ attach(id, Record) /\ Conclude(id, c, m)

LEMMA AttachedTraces ==
    ASSUME IInv, RecordsTraced, NEW id, NEW c, NEW m, AttachesRecord(id, c, m),
           queue' = queue, DOMAIN crm_key' \subseteq RecordIds
    PROVE  RecordsTraced'
<1> USE DEF AttachesRecord
<1>1. id \in Ids /\ id \in Nat /\ Ids' = Ids
  BY AttachGrows
<1>2. registry' = With(registry, id, Record) /\ registry \in Seq(Customer)
  BY DEF attach, IInv, Typed
<1>3. id # None /\ Record.system \in Systems /\ Record.record_id \in RecordIds
  BY <1>1, RecordType, ResolutionAssumption DEF ResolutionAssumption, IInv
<1>4. Concludes(id, c, m)
  BY <1>1 DEF IInv, Concludes
<1>5. PlacesRecord(id) /\ Concluded(id, m)
  BY <1>4, ConcludePlaces
<1>6. \A i \in Ids : i \in DOMAIN registry /\ i \in Nat
  BY <1>2 DEF Ids
<1>7. ASSUME NEW i \in Ids', NEW s \in Systems
      PROVE  registry'[i].source_record_ids[s] = PlacedWith(i, s)'
  <2>1. i \in DOMAIN registry /\ i \in Nat
    BY <1>1, <1>6
  <2>2. registry'[i].source_record_ids[s] =
            IF i = id /\ s = Record.system
            THEN Append(registry[i].source_record_ids[s], Record.record_id)
            ELSE registry[i].source_record_ids[s]
    BY <1>1, <1>2, <1>3, <2>1, WithAppends DEF Ids
  <2>3. PlacedWith(i, s)' = IF i = id /\ s = Record.system
                            THEN Append(PlacedWith(i, s), Record.record_id)
                            ELSE PlacedWith(i, s)
    BY <1>5, <2>1 DEF PlacesRecord
  <2>4. registry[i].source_record_ids[s] = PlacedWith(i, s)
    BY <2>1 DEF RecordsTraced, OutcomesExplainRegistry, Ids
  <2> QED
    BY <2>2, <2>3, <2>4
<1>8. OutcomesExplainRegistry'
  BY <1>7 DEF OutcomesExplainRegistry
<1>9. OutcomesNamed'
  BY <1>1, <1>5, ConcludeNames DEF RecordsTraced
<1>10. UnplacedWaitForReview'
  BY <1>3, <1>5, QueueStays DEF RecordsTraced
<1> QED
  BY <1>8, <1>9, <1>10 DEF RecordsTraced

\* A customer created for a CRM row holds that row and nothing else.
LEMMA AddedTraces ==
    ASSUME IInv, RecordsTraced, AddCrm
    PROVE  RecordsTraced'
<1> DEFINE id == Len(registry) + 1
           new == NewCustomer(Record.name)
           grown == Append(registry, new)
<1>1. /\ Typed /\ Resolving /\ Record.system = "crm" /\ Record.name \in Names
      /\ Record.system \in Systems /\ Record.record_id \in RecordIds
  BY RecordType DEF AddCrm, IInv
<1>2. /\ registry' = With(grown, id, Record) /\ queue' = queue
      /\ DOMAIN crm_key' = DOMAIN crm_key \cup {Record.record_id}
      /\ Conclude(id, Certain, "new_entity")
  BY DEF AddCrm, AddCrmRecord, IndexAccount
<1>3. /\ registry \in Seq(Customer) /\ new \in Customer
      /\ \A s \in Systems : new.source_record_ids[s] = <<>>
  BY <1>1, EmptySeq DEF Typed, NewCustomer, Customer
<1> HIDE DEF new
<1>4. /\ grown \in Seq(Customer)
      /\ id \in Nat /\ id \notin Ids /\ DOMAIN grown = Ids \cup {id}
      /\ \A i \in Ids : grown[i] = registry[i] /\ i \in Nat
      /\ grown[id] = new
  <2>1. /\ grown \in Seq(Customer) /\ Len(grown) = Len(registry) + 1
        /\ \A i \in 1 .. Len(registry) : grown[i] = registry[i]
        /\ grown[Len(registry) + 1] = new
    BY <1>3, AppendProperties
  <2> HIDE DEF grown
  <2>2. Ids = 1 .. Len(registry) /\ DOMAIN grown = 1 .. Len(grown) /\ Len(registry) \in Nat
    BY <1>3, <2>1 DEF Ids
  <2> QED
    BY <2>1, <2>2
<1> HIDE DEF grown, id
<1>5. Ids' = Ids \cup {id} /\ id # None
  <2>1. Grown(registry', grown)
    BY <1>1, <1>2, <1>4, WithGrows
  <2> QED
    BY <1>4, <2>1, ResolutionAssumption DEF ResolutionAssumption, Grown, Ids
<1>6. Certain \in ScoreRange
  BY ScoreNumbers
<1>7. Concludes(id, Certain, "new_entity")
  BY <1>1, <1>2, <1>4, <1>6 DEF Methods, Concludes
<1>8. PlacesRecord(id) /\ Concluded(id, "new_entity")
  BY <1>7, ConcludePlaces
<1>9. ASSUME NEW i \in Ids', NEW s \in Systems
      PROVE  registry'[i].source_record_ids[s] = PlacedWith(i, s)'
  <2>1. i \in DOMAIN grown /\ i \in Nat
    BY <1>4, <1>5
  <2>2. registry'[i].source_record_ids[s] =
            IF i = id /\ s = Record.system
            THEN Append(grown[i].source_record_ids[s], Record.record_id)
            ELSE grown[i].source_record_ids[s]
    <3>1. With(grown, id, Record)[i].source_record_ids[s] =
              IF i = id /\ s = Record.system
              THEN Append(grown[i].source_record_ids[s], Record.record_id)
              ELSE grown[i].source_record_ids[s]
      <4>1. /\ grown \in Seq(Customer) /\ id \in DOMAIN grown /\ i \in DOMAIN grown
            /\ Record.system \in Systems /\ Record.record_id \in RecordIds
            /\ s \in Systems
        BY <1>1, <1>4, <2>1
      <4> QED
        BY ONLY <4>1, WithAppends
    <3> QED
      BY <1>2, <3>1
  <2>3. PlacedWith(i, s)' = IF i = id /\ s = Record.system
                            THEN Append(PlacedWith(i, s), Record.record_id)
                            ELSE PlacedWith(i, s)
    BY <1>8, <2>1 DEF PlacesRecord
  <2>4. grown[i].source_record_ids[s] = PlacedWith(i, s)
    <3>1. CASE i \in Ids
      BY <3>1, <1>4 DEF RecordsTraced, OutcomesExplainRegistry
    <3>2. CASE i = id
      <4> DEFINE S == {n \in DOMAIN outcomes : /\ outcomes[n].system = s
                                               /\ outcomes[n].matched_canonical_id = i}
                 ids == RecordsOf(outcomes)
      <4>1. S = {}
        BY <1>4, <1>5, <3>2 DEF RecordsTraced, OutcomesNamed
      <4>2. ids \in Seq(RecordIds)
        <5>1. \A r \in Outcome : r.record_id \in RecordIds
          BY DEF Outcome
        <5>2. outcomes \in Seq(Outcome)
          BY <1>1 DEF Typed
        <5> QED
          BY <5>1, <5>2, RecordsOfRows
      <4> HIDE DEF S, ids
      <4>3. Selected(ids, S) = <<>>
        BY <4>1, <4>2, SelectedKeeps
      <4>4. PlacedWith(i, s) = <<>>
        BY <4>3 DEF PlacedWith, S, ids
      <4> QED
        BY <1>3, <1>4, <3>2, <4>4
    <3> QED
      BY <3>1, <3>2, <1>5
  <2> QED
    BY <2>2, <2>3, <2>4
<1>10. OutcomesExplainRegistry'
  BY <1>9 DEF OutcomesExplainRegistry
<1>11. OutcomesNamed'
  BY <1>5, <1>8, ConcludeNames DEF RecordsTraced
<1>12. UnplacedWaitForReview'
  BY <1>2, <1>5, <1>8, QueueStays DEF RecordsTraced
<1> QED
  BY <1>1, <1>2, <1>10, <1>11, <1>12 DEF RecordsTraced

\* A record that no stage places waits at the end of the queue.
LEMMA QueuedTraces ==
    ASSUME IInv, RecordsTraced, ByName, NEW c \in ScoreRange, NEW reason \in Reasons,
           Enqueue(c, reason)
    PROVE  RecordsTraced'
<1> DEFINE item == [system |-> Record.system, record_id |-> Record.record_id,
                    reason |-> reason, status |-> "pending",
                    resolved_canonical_id |-> None]
<1>1. /\ Resolving /\ Record.system \in Systems \ {"crm"}
      /\ Record.record_id \in RecordIds
  BY RecordType DEF ByName, IInv
<1>2. item \in ReviewItems /\ item.record_id = Record.record_id
  BY <1>1 DEF ReviewItems
<1>3. /\ queue' = Append(queue, item) /\ queue \in Seq(ReviewItems)
      /\ Conclude(None, c, "unresolved") /\ registry' = registry /\ crm_key' = crm_key
  BY DEF Enqueue, add, matcherVars, RecordsTraced
<1> HIDE DEF item
<1>4. Concludes(None, c, "unresolved")
  BY <1>1, <1>3 DEF Methods, IInv, Concludes
<1>5. PlacesRecord(None) /\ Concluded(None, "unresolved")
  BY <1>4, ConcludePlaces
<1>6. registry \in Seq(Customer)
  BY DEF IInv, Typed
<1>7. Ids' = Ids /\ None \notin Ids
  <2>1. \A i \in Ids : i \in Nat
    BY DEF IInv, Typed, Ids
  <2> QED
    BY <1>3, <2>1, ResolutionAssumption DEF ResolutionAssumption, Ids
<1>8. OutcomesExplainRegistry'
  <2>1. ASSUME NEW i \in Ids, NEW s \in Systems
        PROVE  PlacedWith(i, s)' = PlacedWith(i, s)
    <3>1. i \in Nat /\ i # None
      BY <1>7 DEF IInv, Typed, Ids
    <3> QED
      BY <3>1, <1>5 DEF PlacesRecord
  <2> QED
    BY <1>3, <1>7, <2>1 DEF RecordsTraced, OutcomesExplainRegistry
<1>9. OutcomesNamed'
  BY <1>5, <1>7, ConcludeNames DEF RecordsTraced
<1>10. queue' \in Seq(ReviewItems)
  BY <1>2, <1>3
<1>11. UnplacedWaitForReview'
  <2>1. UnplacedRecords' = Append(UnplacedRecords, Record.record_id)
    BY <1>5 DEF PlacesRecord
  <2>2. \A r \in ReviewItems : r.record_id \in RecordIds
    BY DEF ReviewItems
  <2>3. RecordsOf(Append(queue, item)) = Append(RecordsOf(queue), item.record_id)
    BY <1>2, <1>3, <2>2, RecordsOfRows
  <2>4. RecordsOf(queue)' = RecordsOf(Append(queue, item))
    BY <1>3 DEF RecordsOf
  <2> QED
    BY <1>2, <2>1, <2>3, <2>4 DEF RecordsTraced, UnplacedWaitForReview
<1> QED
  BY <1>3, <1>8, <1>9, <1>10, <1>11 DEF RecordsTraced

-----------------------------------------------------------------------------
(* Who comes first under a name.                                           *)

\* A record placed by its name after the CRM rows is with the customer that
\* leads under this name, until the end of the run.
NamedLead ==
    \A n \in DOMAIN outcomes : \A name, id :
        (/\ outcomes[n].system # "crm"
         /\ outcomes[n].method \in {"exact_name", "fuzzy_name"}
         /\ dataset[n].name = name
         /\ outcomes[n].matched_canonical_id = id)
        => Leads(name, id)

\* There is one such customer, and it is the best match.
LEMMA LeaderIsBest ==
    ASSUME registry \in Seq(Customer), NEW name, NEW id, Leads(name, id)
    PROVE  Best(name) = id
<1>1. /\ Best(name) \in Ids
      /\ \A j \in Ids \ {Best(name)} : Outscores(name, Best(name), j)
  BY DEF Leads, Best
<1> SUFFICES ASSUME Best(name) # id PROVE FALSE
  OBVIOUS
<1>2. name \in Names /\ id \in Ids /\ Outscores(name, id, Best(name))
      /\ Outscores(name, Best(name), id)
  BY <1>1 DEF Leads
<1>3. /\ Score(name, Best(name)) \in Nat /\ Score(name, id) \in Nat
      /\ Best(name) \in Nat /\ id \in Nat
  BY <1>1, <1>2, ScoreType DEF Ids
<1>4. /\ \/ Score(name, Best(name)) > Score(name, id)
         \/ Score(name, Best(name)) = Score(name, id) /\ Best(name) < id
      /\ \/ Score(name, id) > Score(name, Best(name))
         \/ Score(name, id) = Score(name, Best(name)) /\ id < Best(name)
  BY <1>2 DEF Outscores
<1> QED
  BY ONLY <1>3, <1>4

\* While CRM rows are handled, nothing but CRM rows has been.
LEMMA CrmRowsLead ==
    ASSUME IInv, Resolving, Record.system = "crm", NEW id, NEW m, Concluded(id, m)
    PROVE  NamedLead'
<1> DEFINE new == Len(outcomes) + 1
<1>1. /\ DOMAIN outcomes' = DOMAIN outcomes \cup {new}
      /\ \A n \in DOMAIN outcomes : outcomes'[n] = outcomes[n]
      /\ outcomes'[new].system = "crm"
  BY DEF Concluded
<1>2. /\ new \in DOMAIN dataset /\ dataset[new].system = "crm"
      /\ \A n \in DOMAIN outcomes : n \in DOMAIN dataset /\ n < new
      /\ \A n \in DOMAIN outcomes : outcomes[n].system = dataset[n].system
  <2>1. dataset \in Seq(RawRecord) /\ outcomes \in Seq(Outcome) /\ Len(outcomes) <= Len(dataset)
    BY ResolutionAssumption DEF ResolutionAssumption, IInv, Typed
  <2>2. new \in DOMAIN dataset /\ dataset[new] = Record
    BY RecordType DEF IInv, Record
  <2>3. \A n \in DOMAIN outcomes : outcomes[n].system = dataset[n].system
    BY DEF IInv, Typed
  <2> QED
    BY <2>1, <2>2, <2>3
<1>3. \A l, n \in DOMAIN dataset :
          l < n /\ dataset[n].system = "crm" => dataset[l].system = "crm"
  BY ResolutionAssumption DEF ResolutionAssumption, IInv, Typed
<1> HIDE DEF new
<1>4. \A n \in DOMAIN outcomes : outcomes[n].system = "crm"
  BY <1>2, <1>3
<1>5. \A n \in DOMAIN outcomes' : outcomes'[n].system = "crm"
  BY <1>1, <1>4
<1> QED
  BY <1>5 DEF NamedLead

\* A step that creates no customer leaves the leaders where they are.
LEMMA LeadersStay ==
    ASSUME Ids' = Ids, \A i \in Ids : registry'[i].name = registry[i].name,
           NEW name, NEW id, Leads(name, id)
    PROVE  Leads(name, id)'
<1>1. \A i \in Ids : Score(name, i)' = Score(name, i)
  BY DEF Score
<1>2. id \in Ids /\ \A j \in Ids \ {id} : Outscores(name, id, j)'
  BY <1>1 DEF Leads, Outscores
<1> QED
  BY <1>1, <1>2 DEF Leads

\* A record that is not placed by its name, or placed with the leader.
LEMMA NamesLead ==
    ASSUME IInv, NamedLead, Resolving, Ids' = Ids,
           \A i \in Ids : registry'[i].name = registry[i].name,
           NEW id, NEW m, Concluded(id, m),
           m \in {"exact_name", "fuzzy_name"} => Leads(Record.name, id)
    PROVE  NamedLead'
<1> DEFINE new == Len(outcomes) + 1
<1>1. /\ DOMAIN outcomes' = DOMAIN outcomes \cup {new} /\ dataset' = dataset
      /\ \A n \in DOMAIN outcomes : outcomes'[n] = outcomes[n]
      /\ outcomes'[new].matched_canonical_id = id /\ outcomes'[new].method = m
      /\ dataset[new] = Record
  BY DEF Concluded, Record
<1> HIDE DEF new
<1>2. ASSUME NEW name, NEW i, Leads(name, i) PROVE Leads(name, i)'
  BY <1>2, LeadersStay
<1>3. ASSUME NEW n \in DOMAIN outcomes', NEW name, NEW i, outcomes'[n].system # "crm",
             outcomes'[n].method \in {"exact_name", "fuzzy_name"},
             dataset'[n].name = name, outcomes'[n].matched_canonical_id = i
      PROVE  Leads(name, i)'
  <2>1. CASE n \in DOMAIN outcomes
    <3>1. Leads(name, i)
      BY <1>1, <1>3, <2>1 DEF NamedLead
    <3> QED
      BY <1>2, <3>1
  <2>2. CASE n = new
    <3>1. Leads(name, i)
      BY <1>1, <1>3, <2>2
    <3> QED
      BY <1>2, <3>1
  <2> QED
    BY <1>1, <2>1, <2>2
<1> QED
  BY <1>3 DEF NamedLead

-----------------------------------------------------------------------------
(* The second invariant.                                                   *)

\* There is a server only once there is a report, and it keeps what it read
\* of the outcomes, which are as many as the records.
ServerFrozen ==
    /\ use_llm \in BOOLEAN
    /\ status \in {"running", "reported", "raised"}
    /\ status = "reported" => Len(outcomes) = Len(dataset)
    /\ server # NoServer =>
           status = "reported" /\ server = [id \in Ids |-> JobsServed(id)]

Traced == RecordsTraced /\ NamedLead /\ ServerFrozen

LEMMA InitTraces == Init => Traced
<1> SUFFICES ASSUME Init PROVE Traced
  OBVIOUS
<1>1. /\ registry = <<>> /\ crm_key = <<>> /\ outcomes = <<>> /\ queue = <<>>
      /\ status = "running" /\ server = NoServer /\ use_llm \in BOOLEAN
  BY ResolutionAssumption DEF ResolutionAssumption, Init, MatcherInit, QueueInit
<1>2. /\ DOMAIN registry = {} /\ DOMAIN crm_key = {} /\ DOMAIN outcomes = {}
      /\ queue \in Seq(ReviewItems)
  BY <1>1
<1>3. ServerFrozen
  BY <1>1 DEF ServerFrozen
<1>4. UnplacedWaitForReview
  <2> DEFINE S == {n \in DOMAIN outcomes : outcomes[n].matched_canonical_id = None}
             ids == RecordsOf(outcomes)
  <2>1. ids = <<>> /\ RecordsOf(queue) = <<>> /\ DOMAIN ids = {}
    <3>1. \A rows : rows = <<>> => RecordsOf(rows) = <<>>
      BY DEF RecordsOf
    <3> QED
      BY <1>1, <3>1
  <2>2. ids \in Seq(RecordIds)
    BY <2>1
  <2> HIDE DEF ids, S
  <2>3. Selected(ids, S) = <<>>
    BY <2>1, <2>2, SelectedKeeps
  <2> QED
    BY <2>1, <2>3 DEF UnplacedWaitForReview, UnplacedRecords, ids, S
<1>5. OutcomesExplainRegistry /\ OutcomesNamed /\ NamedLead
  BY <1>2 DEF OutcomesExplainRegistry, OutcomesNamed, NamedLead, Ids
<1> QED
  BY <1>2, <1>3, <1>4, <1>5 DEF Traced, RecordsTraced

\* A review closes an item; what waits, and in which order, stays.
LEMMA ReviewTraces ==
    ASSUME RecordsTraced, Review
    PROVE  RecordsTraced'
<1>1. PICK item \in DOMAIN queue, id \in ReplyIds \cup {None} : resolve(item, id)
  BY DEF Review
<1>2. /\ registry' = registry /\ crm_key' = crm_key /\ outcomes' = outcomes
      /\ dataset' = dataset /\ queue \in Seq(ReviewItems)
  BY DEF Review, matcherVars, resolutionVars, RecordsTraced
<1> DEFINE closed == IF id = None THEN "rejected" ELSE "resolved"
           new == [[queue[item] EXCEPT !.status = closed]
                       EXCEPT !.resolved_canonical_id = id]
<1>3. queue[item] \in ReviewItems /\ closed \in {"pending", "resolved", "rejected"}
  BY <1>2
<1> HIDE DEF closed
<1>4. new \in ReviewItems /\ new.record_id = queue[item].record_id
  BY <1>1, <1>3 DEF ReviewItems
<1>5. queue' = [queue EXCEPT ![item] = new]
  BY <1>1, <1>2 DEF resolve, closed
<1> HIDE DEF new
<1>6. /\ queue' \in Seq(ReviewItems) /\ DOMAIN queue' = DOMAIN queue
      /\ \A k \in DOMAIN queue : queue'[k].record_id = queue[k].record_id
  <2>1. /\ queue' \in Seq(ReviewItems) /\ DOMAIN queue' = DOMAIN queue
        /\ queue'[item] = new
        /\ \A k \in DOMAIN queue \ {item} : queue'[k] = queue[k]
    BY <1>1, <1>2, <1>4, <1>5, ExceptSeq
  <2> QED
    BY <1>4, <2>1
<1>7. RecordsOf(queue)' = RecordsOf(queue)
  BY <1>6 DEF RecordsOf
<1>8. UnplacedRecords' = UnplacedRecords
  BY <1>2 DEF UnplacedRecords
<1>9. Ids' = Ids /\ \A i, s : PlacedWith(i, s)' = PlacedWith(i, s)
  BY <1>2 DEF Ids, PlacedWith
<1>10. OutcomesExplainRegistry' /\ OutcomesNamed'
  BY <1>2, <1>9 DEF RecordsTraced, OutcomesExplainRegistry, OutcomesNamed
<1>11. UnplacedWaitForReview'
  BY <1>7, <1>8 DEF RecordsTraced, UnplacedWaitForReview
<1> QED
  BY <1>2, <1>6, <1>10, <1>11 DEF RecordsTraced

\* While records are resolved there is no report and no server.
LEMMA RunningIsUnserved ==
    ASSUME ServerFrozen, Resolving, UNCHANGED <<use_llm, status, server>>
    PROVE  ServerFrozen'
BY DEF ServerFrozen, Resolving, NoServer

\* Steps that leave the registry, the outcomes and the queue alone.
LEMMA TracesStay ==
    ASSUME RecordsTraced, NamedLead, UNCHANGED <<matcherVars, queue, dataset, outcomes>>
    PROVE  RecordsTraced' /\ NamedLead'
<1>1. /\ registry' = registry /\ crm_key' = crm_key /\ outcomes' = outcomes
      /\ dataset' = dataset /\ queue' = queue /\ Ids' = Ids
  BY DEF matcherVars, Ids
<1>2. /\ \A i, s : PlacedWith(i, s)' = PlacedWith(i, s)
      /\ UnplacedRecords' = UnplacedRecords /\ RecordsOf(queue)' = RecordsOf(queue)
  BY <1>1 DEF PlacedWith, UnplacedRecords, RecordsOf
<1>3. OutcomesExplainRegistry' /\ OutcomesNamed' /\ UnplacedWaitForReview'
  BY <1>1, <1>2 DEF RecordsTraced, OutcomesExplainRegistry, OutcomesNamed,
     UnplacedWaitForReview
<1>4. ASSUME NEW name, NEW i, Leads(name, i) PROVE Leads(name, i)'
  BY <1>1, <1>4, LeadersStay
<1>5. NamedLead'
  BY <1>1, <1>4 DEF NamedLead
<1> QED
  BY <1>1, <1>3, <1>5 DEF RecordsTraced

\* Nothing rewrites what the server read.
LEMMA ServerStays ==
    ASSUME ServerFrozen, UNCHANGED <<registry, dataset, use_llm, outcomes>>,
           \/ UNCHANGED <<status, server>>
           \/ status = "running" /\ status' = "raised" /\ server' = server
           \/ Report
           \/ BuildServer
    PROVE  ServerFrozen'
<1>1. Ids' = Ids /\ \A id : JobsServed(id)' = JobsServed(id)
  BY DEF Ids, JobsServed, PsaPlacedWith, JobOwner, RecordsOf
<1>2. CASE UNCHANGED <<status, server>>
  BY <1>1, <1>2 DEF ServerFrozen, NoServer
<1>3. CASE status = "running" /\ status' = "raised" /\ server' = server
  BY <1>3 DEF ServerFrozen, NoServer
<1>4. CASE Report
  BY <1>4 DEF ServerFrozen, NoServer, Report
<1>5. CASE BuildServer
  BY <1>1, <1>5 DEF ServerFrozen, NoServer, BuildServer
<1> QED
  BY <1>2, <1>3, <1>4, <1>5

LEMMA StepTraces == IInv /\ Traced /\ [Next]_vars => Traced'
<1> SUFFICES ASSUME IInv, RecordsTraced, NamedLead, ServerFrozen, [Next]_vars
             PROVE  Traced'
  BY DEF Traced
<1>1. CASE MergeCrm
  <2> DEFINE id == Best(Record.name)
             c == BestScore(Record.name)
             m == NameMethod(c)
  <2>1. Resolving /\ Record.system = "crm" /\ Record.name \in Names
        /\ Record.record_id \in RecordIds
    BY <1>1, RecordType DEF MergeCrm, IInv
  <2>2. c \in ScoreRange /\ id \in Ids
    BY <1>1, <2>1, AcceptedIsBest DEF MergeCrm, MergeCrmRecord
  <2>3. /\ attach(id, Record) /\ Conclude(id, c, m) /\ queue' = queue
        /\ DOMAIN crm_key' = DOMAIN crm_key \cup {Record.record_id}
        /\ UNCHANGED <<use_llm, status, server>>
    BY <1>1 DEF MergeCrm, MergeCrmRecord, IndexAccount, Conclude
  <2>4. m \in Methods
    BY DEF NameMethod, Methods
  <2> HIDE DEF id, c, m
  <2>5. DOMAIN crm_key' \subseteq RecordIds
    BY <2>1, <2>3 DEF RecordsTraced
  <2>6. RecordsTraced'
    <3>1. AttachesRecord(id, c, m)
      BY <2>1, <2>2, <2>3, <2>4 DEF AttachesRecord
    <3> QED
      BY <2>3, <2>5, <3>1, AttachedTraces
  <2>7. Concluded(id, m)
    <3>1. id \in Nat
      BY <2>1, <2>3, AttachGrows
    <3>2. Concludes(id, c, m)
      BY <2>1, <2>2, <2>3, <2>4, <3>1 DEF Concludes, IInv
    <3> QED
      BY <3>2, ConcludeStep
  <2> QED
    BY <2>1, <2>3, <2>6, <2>7, CrmRowsLead, RunningIsUnserved DEF Traced
<1>2. CASE AddCrm
  <2>1. Resolving /\ Record.system = "crm" /\ UNCHANGED <<use_llm, status, server>>
        /\ Conclude(Len(registry) + 1, Certain, "new_entity")
    BY <1>2 DEF AddCrm, Conclude
  <2>2. Len(registry) + 1 \in Nat /\ Certain \in ScoreRange /\ "new_entity" \in Methods
    <3>1. registry \in Seq(Customer)
      BY DEF IInv, Typed
    <3> QED
      BY <3>1, ScoreNumbers DEF Methods
  <2>3. Concluded(Len(registry) + 1, "new_entity")
    <3>1. Concludes(Len(registry) + 1, Certain, "new_entity")
      BY <2>1, <2>2 DEF Concludes, IInv
    <3> QED
      BY <3>1, ConcludeStep
  <2> QED
    BY <1>2, <2>1, <2>3, AddedTraces, CrmRowsLead, RunningIsUnserved DEF Traced
<1>3. CASE MatchByKey \/ MatchByName \/ AcceptLlm
  <2>1. PICK id, c, m : Attaches(id, c, m)
    BY <1>3, ActionsAttach
  <2>2. /\ Resolving /\ c \in ScoreRange /\ m \in Methods /\ attach(id, Record)
        /\ Conclude(id, c, m) /\ crm_key' = crm_key /\ queue' = queue
        /\ m \in {"exact_name", "fuzzy_name"} => Leads(Record.name, id)
    BY <2>1 DEF Attaches
  <2>3. /\ id \in Nat /\ Ids' = Ids
        /\ \A i \in Ids : registry'[i].name = registry[i].name
    BY <2>2, AttachGrows
  <2>4. Concluded(id, m)
    <3>1. Concludes(id, c, m)
      BY <2>2, <2>3 DEF Concludes, IInv
    <3> QED
      BY <3>1, ConcludeStep
  <2>5. NamedLead'
    BY <2>2, <2>3, <2>4, NamesLead
  <2>6. RecordsTraced'
    <3>1. AttachesRecord(id, c, m)
      BY <2>2 DEF AttachesRecord
    <3>2. queue' = queue /\ DOMAIN crm_key' \subseteq RecordIds
      BY <2>2 DEF RecordsTraced
    <3> QED
      BY <3>1, <3>2, AttachedTraces
  <2>7. UNCHANGED <<use_llm, status, server>>
    BY <2>2 DEF Conclude
  <2> QED
    BY <2>2, <2>5, <2>6, <2>7, RunningIsUnserved DEF Traced
<1>4. CASE QueueUncandidated \/ QueueResidual \/ QueueUnsure
  <2>1. PICK c \in ScoreRange, reason \in Reasons : ByName /\ Enqueue(c, reason)
    BY <1>4, ActionsQueue
  <2>2. /\ Resolving /\ Conclude(None, c, "unresolved")
        /\ Ids' = Ids /\ registry' = registry /\ UNCHANGED <<use_llm, status, server>>
    BY <2>1 DEF ByName, Enqueue, matcherVars, Ids, Conclude
  <2>3. "unresolved" \in Methods /\ "unresolved" \notin {"exact_name", "fuzzy_name"}
    BY DEF Methods
  <2>4. Concluded(None, "unresolved")
    <3>1. Concludes(None, c, "unresolved")
      BY <2>2, <2>3 DEF Concludes, IInv
    <3> QED
      BY <3>1, ConcludeStep
  <2>5. NamedLead'
    BY <2>2, <2>3, <2>4, NamesLead
  <2>6. RecordsTraced'
    BY <2>1, QueuedTraces
  <2> QED
    BY <2>2, <2>5, <2>6, RunningIsUnserved DEF Traced
<1>5. CASE AbortOnUnknownId \/ AbortOnProviderError \/ Report \/ BuildServer
           \/ UNCHANGED vars
  <2>1. UNCHANGED <<matcherVars, queue, dataset, outcomes>> /\ use_llm' = use_llm
        /\ registry' = registry
    BY <1>5 DEF AbortOnUnknownId, AbortOnProviderError, Abort, Report, BuildServer,
       vars, matcherVars, resolutionVars
  <2>2. \/ UNCHANGED <<status, server>>
        \/ status = "running" /\ status' = "raised" /\ server' = server
        \/ Report
        \/ BuildServer
    BY <1>5 DEF AbortOnUnknownId, AbortOnProviderError, Abort, AsksLlm, Residual,
       ByName, Resolving, vars, resolutionVars
  <2>3. ServerFrozen'
    BY <2>1, <2>2, ServerStays
  <2> QED
    BY <2>1, <2>3, TracesStay DEF Traced
<1>6. CASE Review
  <2>1. /\ UNCHANGED <<registry, dataset, use_llm, outcomes, status, server>>
    BY <1>6 DEF Review, matcherVars, resolutionVars
  <2>2. NamedLead'
    <3>1. Ids' = Ids /\ \A i \in Ids : registry'[i].name = registry[i].name
      BY <2>1 DEF Ids
    <3>2. ASSUME NEW name, NEW i, Leads(name, i) PROVE Leads(name, i)'
      BY <3>1, <3>2, LeadersStay
    <3> QED
      BY <2>1, <3>2 DEF NamedLead
  <2>3. ServerFrozen'
    BY <2>1, ServerStays
  <2> QED
    BY <1>6, <2>2, <2>3, ReviewTraces DEF Traced
<1> QED
  BY <1>1, <1>2, <1>3, <1>4, <1>5, <1>6 DEF Next, ProgramStep

LEMMA TracesHold == Spec => [](IInv /\ Traced)
<1>1. Init => IInv /\ Traced
  BY InitHolds, InitTraces
<1>2. IInv /\ Traced /\ [Next]_vars => (IInv /\ Traced)'
  BY StepHolds, StepTraces
<1> QED
  BY <1>1, <1>2, PTL DEF Spec

-----------------------------------------------------------------------------
(* The theorems about where the records are.                               *)

\* The ids of the rows, as a list that SelectedKeeps and SelectedAgrees take.
LEMMA ListsOfIds ==
    ASSUME IInv
    PROVE  /\ RecordsOf(dataset) \in Seq(RecordIds)
           /\ RecordsOf(outcomes) \in Seq(RecordIds)
           /\ Len(RecordsOf(dataset)) = Len(dataset)
           /\ Len(RecordsOf(outcomes)) = Len(outcomes)
           /\ \A n \in DOMAIN dataset : RecordsOf(dataset)[n] = dataset[n].record_id
           /\ \A n \in DOMAIN outcomes : RecordsOf(outcomes)[n] = outcomes[n].record_id
           /\ DOMAIN dataset = 1 .. Len(dataset) /\ Len(dataset) \in Nat
           /\ DOMAIN outcomes = 1 .. Len(outcomes)
<1>1. dataset \in Seq(RawRecord) /\ outcomes \in Seq(Outcome)
  BY ResolutionAssumption DEF ResolutionAssumption, IInv, Typed
<1>2. /\ \A r \in RawRecord : r.record_id \in RecordIds
      /\ \A r \in Outcome : r.record_id \in RecordIds
  BY DEF RawRecord, Outcome
<1>3. /\ RecordsOf(dataset) \in Seq(RecordIds)
      /\ Len(RecordsOf(dataset)) = Len(dataset)
      /\ \A n \in DOMAIN dataset : RecordsOf(dataset)[n] = dataset[n].record_id
  BY <1>1, <1>2, RecordsOfRows
<1>4. /\ RecordsOf(outcomes) \in Seq(RecordIds)
      /\ Len(RecordsOf(outcomes)) = Len(outcomes)
      /\ \A n \in DOMAIN outcomes : RecordsOf(outcomes)[n] = outcomes[n].record_id
  BY <1>1, <1>2, RecordsOfRows
<1> QED
  BY <1>1, <1>3, <1>4

\* The state of a run is of its types: outcomes and server list records of
\* the dataset, and the index leads to customers.
THEOREM StateIsTyped == Spec => []TypeOK
<1>1. IInv /\ Traced => TypeOK
  <2> SUFFICES ASSUME IInv, Traced PROVE TypeOK
    OBVIOUS
  <2>1. /\ registry \in Seq(Customer) /\ outcomes \in Seq(Outcome)
        /\ queue \in Seq(ReviewItems) /\ DOMAIN crm_key \subseteq RecordIds
        /\ \A a \in DOMAIN crm_key : crm_key[a] \in Ids
        /\ use_llm \in BOOLEAN /\ status \in {"running", "reported", "raised"}
    BY DEF IInv, Typed, Traced, RecordsTraced, ServerFrozen
  <2>2. DOMAIN server \subseteq Ids /\ \A id \in DOMAIN server : server[id] \in Seq(RecordIds)
    <3>1. CASE server = NoServer
      <4>1. DOMAIN server = {}
        BY <3>1 DEF NoServer
      <4> QED
        BY <4>1
    <3>2. CASE server # NoServer
      <4>1. server = [id \in Ids |-> JobsServed(id)]
        BY <3>2 DEF Traced, ServerFrozen
      <4>2. \A id \in Ids : JobsServed(id) \in Seq(RecordIds)
        BY ListsOfIds, SelectedKeeps DEF JobsServed
      <4> QED
        BY <4>1, <4>2
    <3> QED
      BY <3>1, <3>2
  <2> QED
    BY <2>1, <2>2 DEF TypeOK, Customer, Outcome, ReviewItems
<1> QED
  BY <1>1, TracesHold, PTL

\* What a customer holds of a system is what the outcomes say, in their
\* order, for every dataset and whichever stage placed it (attach,
\* register_new).
THEOREM RegistryIsExplained == Spec => []OutcomesExplainRegistry
BY TracesHold, PTL DEF Traced, RecordsTraced

\* No record is lost and none waits that was placed, for every dataset and
\* every LLM (resolve_record, ReviewQueue.add).
THEOREM UnplacedAreQueued == Spec => []UnplacedWaitForReview
BY TracesHold, PTL DEF Traced, RecordsTraced

\* With distinct ids record_to_canonical tells of each job what its outcome
\* says.
LEMMA OwnerIsOutcome ==
    ASSUME DistinctJobs, IInv, Traced, Len(outcomes) = Len(dataset),
           NEW id \in Ids, NEW n \in DOMAIN dataset
    PROVE  n \in PsaPlacedWith(id) <=>
               outcomes[n].system = "psa" /\ outcomes[n].matched_canonical_id = id
<1>1. /\ \A k \in DOMAIN outcomes : /\ k \in DOMAIN dataset /\ k \in Nat
                                     /\ outcomes[k].system = dataset[k].system
                                     /\ outcomes[k].record_id = dataset[k].record_id
      /\ n \in DOMAIN outcomes /\ n \in Nat
  BY ListsOfIds DEF IInv, Typed, Traced, RecordsTraced, OutcomesNamed
<1>2. \A k \in DOMAIN dataset :
          (/\ dataset[k].system = "psa" /\ dataset[n].system = "psa"
           /\ dataset[k].record_id = dataset[n].record_id) => k = n
  BY DEF DistinctJobs, IInv, Typed
<1>3. id # None
  <2>1. id \in Nat
    BY DEF IInv, Typed, Ids
  <2> QED
    BY <2>1, ResolutionAssumption DEF ResolutionAssumption
<1> DEFINE job == dataset[n].record_id
           placed == {k \in DOMAIN outcomes : /\ outcomes[k].system = "psa"
                                              /\ outcomes[k].record_id = job
                                              /\ outcomes[k].matched_canonical_id # None}
<1>4. JobOwner(job) =
          IF placed = {} THEN None
          ELSE outcomes[CHOOSE k \in placed : \A m \in placed : m <= k].matched_canonical_id
  BY DEF JobOwner
<1>5. ASSUME dataset[n].system = "psa"
      PROVE  JobOwner(job) = id <=> outcomes[n].matched_canonical_id = id
  <2>1. \A k \in placed : k = n
    BY <1>1, <1>2, <1>5
  <2>2. n \in placed <=> outcomes[n].matched_canonical_id # None
    BY <1>1, <1>5
  <2> HIDE DEF placed
  <2>3. CASE placed = {}
    BY <1>3, <1>4, <2>2, <2>3
  <2>4. CASE placed # {}
    <3>1. placed = {n} /\ n <= n
      BY <1>1, <2>1, <2>4
    <3>2. (CHOOSE k \in placed : \A m \in placed : m <= k) = n
      BY <3>1
    <3> QED
      BY <1>4, <2>4, <3>2
  <2> QED
    BY <2>3, <2>4
<1>6. n \in PsaPlacedWith(id) <=> dataset[n].system = "psa" /\ JobOwner(job) = id
  BY DEF PsaPlacedWith
<1> QED
  BY <1>1, <1>5, <1>6

\* Where the server reads the jobs of a customer and where the registry holds
\* them is the same list, for every export with distinct job ids
\* (KestrelToolServer.__init__).
THEOREM ServerListsWhatIsHeld ==
    ASSUME DistinctJobs
    PROVE  Spec => []ServerAgreesWithRegistry
<1>1. IInv /\ Traced => ServerAgreesWithRegistry
  <2> SUFFICES ASSUME IInv, Traced, server # NoServer, NEW id \in Ids
               PROVE  server[id] = registry[id].source_record_ids["psa"]
    BY DEF ServerAgreesWithRegistry
  <2> DEFINE S == PsaPlacedWith(id)
             T == {n \in DOMAIN outcomes : /\ outcomes[n].system = "psa"
                                           /\ outcomes[n].matched_canonical_id = id}
             s == RecordsOf(dataset)
             t == RecordsOf(outcomes)
  <2>1. Len(outcomes) = Len(dataset) /\ server = [i \in Ids |-> JobsServed(i)]
    BY DEF Traced, ServerFrozen
  <2>2. server[id] = Selected(s, S)
    BY <2>1 DEF JobsServed
  <2>3. registry[id].source_record_ids["psa"] = Selected(t, T)
    BY DEF Traced, RecordsTraced, OutcomesExplainRegistry, PlacedWith, Systems
  <2>4. ASSUME NEW k \in 1 .. Len(s) PROVE s[k] = t[k] /\ (k \in S <=> k \in T)
    <3>1. /\ k \in DOMAIN dataset /\ k \in DOMAIN outcomes
          /\ s[k] = dataset[k].record_id /\ t[k] = outcomes[k].record_id
          /\ dataset[k].record_id = outcomes[k].record_id
      BY <2>1, ListsOfIds DEF Traced, RecordsTraced, OutcomesNamed
    <3>2. k \in S <=> outcomes[k].system = "psa" /\ outcomes[k].matched_canonical_id = id
      BY <2>1, <3>1, OwnerIsOutcome
    <3> QED
      BY <3>1, <3>2
  <2>5. Len(s) \in Nat /\ Len(t) = Len(s)
    BY <2>1, ListsOfIds
  <2> HIDE DEF S, T, s, t
  <2>6. Selected(s, S) = Selected(t, T)
    BY <2>4, <2>5, SelectedAgrees
  <2> QED
    BY <2>2, <2>3, <2>6
<1> QED
  BY <1>1, TracesHold, PTL

\* Who bills under the name of a PSA job that was placed by its name finds
\* the customer that lists the job, and with a score that is accepted,
\* whatever names there are; what comes before it can only be an earlier
\* customer whose score rounds to the same (lookup_customer,
\* get_completed_jobs, _CUSTOMER_MATCH_THRESHOLD).
THEOREM NamedJobsAreFound ==
    ASSUME DistinctJobs
    PROVE  Spec => []NamedJobIsFoundUnderItsName
<1>1. IInv /\ Traced => NamedJobIsFoundUnderItsName
  <2> SUFFICES ASSUME IInv, Traced, server # NoServer, NEW n \in DOMAIN outcomes,
                      outcomes[n].system = "psa",
                      outcomes[n].method \in {"exact_name", "fuzzy_name"},
                      dataset[n].name \in CustomerLookupInput
               PROVE  LET owner == outcomes[n].matched_canonical_id
                          name  == dataset[n].name
                          found == lookup_customer(name)
                      IN  /\ MatchScore(name, found) >= 7500
                          /\ \/ found = owner
                             \/ /\ found < owner
                                /\ MatchScore(name, found) = MatchScore(name, owner)
                          /\ \E k \in DOMAIN server[owner] :
                                 server[owner][k] = dataset[n].record_id
    BY DEF NamedJobIsFoundUnderItsName
  <2> DEFINE name == dataset[n].name
             owner == outcomes[n].matched_canonical_id
             found == lookup_customer(name)
             s == RecordsOf(dataset)
             S == PsaPlacedWith(owner)
  <2>1. Leads(name, owner) /\ registry \in Seq(Customer)
    BY DEF IInv, Typed, Traced, NamedLead
  <2>2. /\ name \in Names /\ owner \in Ids /\ Ids # {} /\ Score(name, owner) \in Nat
        /\ Score(name, owner) >= 8500000 /\ Best(name) = owner
    BY <2>1, LeaderIsBest, ScoreType DEF Leads, FuzzyAutoAccept
  <2>3. server[owner] = Selected(s, S) /\ Len(outcomes) = Len(dataset)
    BY <2>2 DEF Traced, ServerFrozen, JobsServed
  <2>4. n \in DOMAIN s /\ n \in DOMAIN dataset /\ s[n] = dataset[n].record_id
    BY <2>3, ListsOfIds
  <2>5. n \in S
    BY <2>2, <2>3, <2>4, OwnerIsOutcome
  <2>6. s \in Seq(RecordIds)
    BY ListsOfIds
  <2> HIDE DEF name, owner, found, s, S
  <2>7. \E k \in DOMAIN server[owner] : server[owner][k] = dataset[n].record_id
    <3>1. \E k \in DOMAIN Selected(s, S) : Selected(s, S)[k] = s[n]
      BY <2>4, <2>5, <2>6, SelectedKeeps
    <3> QED
      BY <2>3, <2>4, <3>1
  <2>8. owner \in Matches(name) /\ Matches(name) \subseteq Ids
    <3>1. Score(name, owner) >= 5000000
      BY ONLY <2>2
    <3> QED
      BY <2>2, <3>1 DEF Matches, MinLookupScore
  <2>9. found \in Matches(name)
        /\ \A j \in Matches(name) \ {found} : ListedBefore(name, found, j)
    BY <2>1, <2>2, <2>8, FirstIsFound DEF found
  <2>10. /\ found \in Ids /\ Score(name, found) \in Nat
         /\ Score(name, found) <= Score(name, owner)
    BY <2>1, <2>2, <2>8, <2>9, ScoreType, BestIsBest
  <2>11. /\ MatchScore(name, found) \in Nat /\ MatchScore(name, owner) \in Nat
         /\ MatchScore(name, found) <= MatchScore(name, owner)
         /\ MatchScore(name, owner) >= 8500
    BY <2>2, <2>10, RoundedType, RoundedMonotone, RoundedBounds DEF MatchScore
  <2>12. CASE found = owner
    <3>1. MatchScore(name, found) >= 7500
      BY ONLY <2>11, <2>12
    <3> QED
      BY <2>7, <2>12, <3>1 DEF name, owner, found
  <2>13. CASE found # owner
    <3>1. \/ MatchScore(name, found) > MatchScore(name, owner)
          \/ MatchScore(name, found) = MatchScore(name, owner) /\ found < owner
      BY <2>8, <2>9, <2>13 DEF ListedBefore
    <3>2. /\ MatchScore(name, found) = MatchScore(name, owner) /\ found < owner
          /\ MatchScore(name, found) >= 7500
      BY ONLY <2>11, <3>1
    <3> QED
      BY <2>7, <3>2 DEF name, owner, found
  <2> QED
    BY <2>12, <2>13
<1> QED
  BY <1>1, TracesHold, PTL

-----------------------------------------------------------------------------
(* Why a record is where it is.                                            *)

\* A name that would have been merged into the customer.
Resembles(name, id) ==
    name \in Names /\ id \in Ids /\ Score(name, id) >= FuzzyAutoAccept

\* A billing record with the key of an account of the customer.
KeyedTo(n, id) ==
    /\ dataset[n].system = "billing"
    /\ \E a \in DOMAIN outcomes :
           /\ dataset[a].system = "crm" /\ outcomes[a].matched_canonical_id = id
           /\ dataset[n].crm_account_id = dataset[a].record_id

\* What the method of an outcome says of its record.
Justified(n, id, m) ==
    /\ id # None /\ m # "llm" => Resembles(dataset[n].name, id) \/ KeyedTo(n, id)
    /\ dataset[n].system = "crm" =>
           m # "llm" /\ id # None /\ Resembles(dataset[n].name, id)
    /\ m = "new_entity" =>
           /\ dataset[n].system = "crm"
           /\ id \in Ids /\ registry[id].name = dataset[n].name

OutcomesJustified ==
    \A n \in DOMAIN outcomes : \A id, m :
        outcomes[n].matched_canonical_id = id /\ outcomes[n].method = m
            => Justified(n, id, m)

\* Every customer was created from a CRM row.
Founded ==
    \A id \in Ids : \E f \in DOMAIN outcomes :
        outcomes[f].method = "new_entity" /\ outcomes[f].matched_canonical_id = id

\* A customer holds an account because an outcome placed it there.
LEMMA HeldIsPlaced ==
    ASSUME IInv, RecordsTraced, NEW id \in Ids, NEW account, Holds(registry, id, account)
    PROVE  \E a \in DOMAIN outcomes :
               /\ dataset[a].system = "crm" /\ dataset[a].record_id = account
               /\ outcomes[a].matched_canonical_id = id
<1> DEFINE S == {n \in DOMAIN outcomes : /\ outcomes[n].system = "crm"
                                         /\ outcomes[n].matched_canonical_id = id}
           ids == RecordsOf(outcomes)
<1>1. registry[id].source_record_ids["crm"] = Selected(ids, S)
  BY DEF RecordsTraced, OutcomesExplainRegistry, PlacedWith, Systems
<1>2. ids \in Seq(RecordIds) /\ DOMAIN ids = DOMAIN outcomes
      /\ \A n \in DOMAIN outcomes : ids[n] = outcomes[n].record_id
  BY ListsOfIds
<1>3. \A a \in S : /\ a \in DOMAIN outcomes
                   /\ outcomes[a].system = "crm" /\ outcomes[a].matched_canonical_id = id
  OBVIOUS
<1> HIDE DEF S, ids
<1>4. PICK k \in DOMAIN Selected(ids, S) : Selected(ids, S)[k] = account
  BY <1>1 DEF Holds
<1>5. PICK a \in DOMAIN ids : a \in S /\ ids[a] = Selected(ids, S)[k]
  BY <1>2, <1>4, SelectedOnly
<1>6. outcomes[a].system = dataset[a].system /\ outcomes[a].record_id = dataset[a].record_id
  BY <1>2, <1>5 DEF IInv, Typed, RecordsTraced, OutcomesNamed
<1> QED
  BY <1>2, <1>3, <1>4, <1>5, <1>6

\* The records handled so far keep their reasons, and the new one has its own.
LEMMA JustifiedGrows ==
    ASSUME OutcomesJustified, Founded, NEW k, k = Len(outcomes) + 1,
           k \notin DOMAIN outcomes,
           \A i \in Ids : i \in Ids' /\ registry'[i].name = registry[i].name,
           NEW id, NEW m, Concluded(id, m), Justified(k, id, m)',
           \A i \in Ids' \ Ids : i = id /\ m = "new_entity"
    PROVE  OutcomesJustified' /\ Founded'
<1>1. /\ dataset' = dataset /\ DOMAIN outcomes' = DOMAIN outcomes \cup {k}
      /\ \A n \in DOMAIN outcomes : outcomes'[n] = outcomes[n]
      /\ outcomes'[k].matched_canonical_id = id /\ outcomes'[k].method = m
  BY DEF Concluded
<1>2. ASSUME NEW name, NEW i, Resembles(name, i) PROVE Resembles(name, i)'
  BY <1>2 DEF Resembles, Score
<1>3. ASSUME NEW n, NEW i, KeyedTo(n, i) PROVE KeyedTo(n, i)'
  BY <1>1, <1>3 DEF KeyedTo
<1>4. ASSUME NEW n \in DOMAIN outcomes, NEW i, NEW j, Justified(n, i, j)
      PROVE  Justified(n, i, j)'
  BY <1>1, <1>2, <1>3, <1>4 DEF Justified
<1>5. OutcomesJustified'
  <2>1. ASSUME NEW n \in DOMAIN outcomes', NEW i, NEW j,
               outcomes'[n].matched_canonical_id = i, outcomes'[n].method = j
        PROVE  Justified(n, i, j)'
    <3>1. CASE n \in DOMAIN outcomes
      BY <1>1, <1>4, <2>1, <3>1 DEF OutcomesJustified
    <3>2. CASE n = k
      BY <1>1, <2>1, <3>2
    <3> QED
      BY <1>1, <3>1, <3>2
  <2> QED
    BY <2>1 DEF OutcomesJustified
<1>6. Founded'
  <2>1. ASSUME NEW i \in Ids'
        PROVE  \E f \in DOMAIN outcomes' : /\ outcomes'[f].method = "new_entity"
                                           /\ outcomes'[f].matched_canonical_id = i
    <3>1. CASE i \in Ids
      BY <1>1, <3>1 DEF Founded
    <3>2. CASE i \notin Ids
      BY <1>1, <3>2
    <3> QED
      BY <3>1, <3>2
  <2> QED
    BY <2>1 DEF Founded
<1> QED
  BY <1>5, <1>6

\* Steps that conclude no record.
LEMMA ReasonsStay ==
    ASSUME OutcomesJustified, Founded, UNCHANGED <<registry, dataset, outcomes>>
    PROVE  OutcomesJustified' /\ Founded'
<1>1. Ids' = Ids /\ registry' = registry /\ dataset' = dataset /\ outcomes' = outcomes
  BY DEF Ids
<1>2. ASSUME NEW n, NEW id, NEW m, Justified(n, id, m) PROVE Justified(n, id, m)'
  BY <1>1, <1>2 DEF Justified, Resembles, Score, KeyedTo
<1> QED
  BY <1>1, <1>2 DEF OutcomesJustified, Founded

\* The position of the record in hand.
LEMMA RecordInHand ==
    ASSUME IInv, Resolving
    PROVE  \E k : /\ k = Len(outcomes) + 1 /\ k \notin DOMAIN outcomes
                  /\ k \in DOMAIN dataset /\ dataset[k] = Record
BY RecordType DEF IInv, Record

\* A CRM row that joins a customer, or that founds one.
LEMMA CrmJustifies ==
    ASSUME IInv, OutcomesJustified, Founded, MergeCrm \/ AddCrm
    PROVE  OutcomesJustified' /\ Founded'
<1>1. /\ Resolving /\ Record.system = "crm" /\ Record.name \in Names
      /\ Record.system \in Systems /\ Record.record_id \in RecordIds
  BY RecordType DEF MergeCrm, AddCrm, IInv
<1>2. PICK k : /\ k = Len(outcomes) + 1 /\ k \notin DOMAIN outcomes
               /\ k \in DOMAIN dataset /\ dataset[k] = Record
  BY <1>1, RecordInHand
<1>3. \A i \in Ids : i # None
  <2>1. \A i \in Ids : i \in Nat
    BY DEF IInv, Typed, Ids
  <2> QED
    BY <2>1, ResolutionAssumption DEF ResolutionAssumption
<1>4. CASE MergeCrm
  <2>1. PICK id, c, m : /\ id = Best(Record.name) /\ c = BestScore(Record.name)
                        /\ m = NameMethod(c)
    OBVIOUS
  <2>2. /\ attach(id, Record) /\ Conclude(id, c, m) /\ BestScore(Record.name) >= FuzzyAutoAccept
    BY <1>4, <2>1 DEF MergeCrm, MergeCrmRecord
  <2>3. /\ id \in Ids /\ c \in ScoreRange /\ Score(Record.name, id) >= FuzzyAutoAccept
    BY <1>1, <2>1, <2>2, AcceptedIsBest
  <2>4. m \in Methods /\ m \in {"exact_name", "fuzzy_name"}
    BY <2>1 DEF NameMethod, Methods
  <2>5. id \in Nat /\ Ids' = Ids /\ \A i \in Ids : registry'[i].name = registry[i].name
    BY <1>1, <2>2, AttachGrows
  <2>6. Concluded(id, m)
    <3>1. Concludes(id, c, m)
      BY <1>1, <2>2, <2>3, <2>4, <2>5 DEF Concludes, IInv
    <3> QED
      BY <3>1, ConcludeStep
  <2>7. dataset' = dataset
    BY <2>6 DEF Concluded
  <2>8. Resembles(dataset[k].name, id)'
    BY <1>1, <1>2, <2>3, <2>5, <2>7 DEF Resembles, Score
  <2>9. Justified(k, id, m)'
    BY <1>3, <2>3, <2>4, <2>8 DEF Justified
  <2> QED
    BY <1>2, <2>5, <2>6, <2>9, JustifiedGrows
<1>5. CASE AddCrm
  <2>1. PICK id : id = Len(registry) + 1
    OBVIOUS
  <2>2. Conclude(id, Certain, "new_entity")
    BY <1>5, <2>1 DEF AddCrm
  <2>3. /\ id \in Nat /\ Ids' = Ids \cup {id}
        /\ \A i \in Ids : registry'[i].name = registry[i].name
        /\ registry'[id].name = Record.name
    BY <1>1, <1>5, <2>1, AddedCustomer
  <2>4. Concluded(id, "new_entity")
    <3>1. Certain \in ScoreRange /\ "new_entity" \in Methods
      BY ScoreNumbers DEF Methods
    <3>2. Concludes(id, Certain, "new_entity")
      BY <1>1, <2>2, <2>3, <3>1 DEF Concludes, IInv
    <3> QED
      BY <3>2, ConcludeStep
  <2>5. dataset' = dataset /\ id \in Ids' /\ id # None
    BY <2>3, <2>4, ResolutionAssumption DEF Concluded, ResolutionAssumption
  <2>6. Resembles(dataset[k].name, id)'
    <3>1. Similarity[Record.name][Record.name] = Certain /\ Certain >= 8500000
      BY <1>1, ResolutionAssumption DEF ResolutionAssumption, Certain
    <3> QED
      BY <1>1, <1>2, <2>3, <2>5, <3>1 DEF Resembles, Score, FuzzyAutoAccept
  <2>7. Justified(k, id, "new_entity")'
    BY <1>1, <1>2, <2>3, <2>5, <2>6 DEF Justified
  <2>8. Ids' = Ids \cup {id}
    BY <2>3
  <2> QED
    BY <1>2, <2>3, <2>4, <2>7, <2>8, JustifiedGrows
<1> QED
  BY <1>4, <1>5

\* A record attached by a key, by its name or by an LLM.
LEMMA AttachedIsJustified ==
    ASSUME IInv, RecordsTraced, OutcomesJustified, Founded,
           NEW id, NEW c, NEW m, Attaches(id, c, m)
    PROVE  OutcomesJustified' /\ Founded'
<1>1. /\ Resolving /\ Record.system # "crm" /\ attach(id, Record) /\ crm_key' = crm_key
      /\ m \in {"exact_key", "exact_name", "fuzzy_name", "llm"}
      /\ m = "exact_key" => HasKnownKey(Record) /\ id = crm_key[Record.crm_account_id]
      /\ m \in {"exact_name", "fuzzy_name"} => Leads(Record.name, id)
  BY DEF Attaches
<1>2. PICK k : /\ k = Len(outcomes) + 1 /\ k \notin DOMAIN outcomes
               /\ k \in DOMAIN dataset /\ dataset[k] = Record
  BY <1>1, RecordInHand
<1>3. id \in Ids /\ id \in Nat /\ Ids' = Ids
      /\ \A i \in Ids : registry'[i].name = registry[i].name
  BY <1>1, AttachGrows
<1>4. Concluded(id, m)
  <2>1. Concludes(id, c, m)
    BY <1>3 DEF Attaches, Concludes, IInv
  <2> QED
    BY <2>1, ConcludeStep
<1>5. /\ dataset' = dataset /\ \A n \in DOMAIN outcomes : outcomes'[n] = outcomes[n]
      /\ \A n \in DOMAIN outcomes : n \in DOMAIN outcomes'
  BY <1>4 DEF Concluded
<1>6. CASE m \in {"exact_name", "fuzzy_name"}
  <2>1. Record.name \in Names /\ Score(Record.name, id) >= FuzzyAutoAccept
    BY <1>1, <1>6 DEF Leads
  <2>2. Resembles(dataset[k].name, id)'
    BY <1>2, <1>3, <1>5, <2>1 DEF Resembles, Score
  <2>3. Justified(k, id, m)'
    BY <1>1, <1>2, <1>5, <1>6, <2>2 DEF Justified
  <2> QED
    BY <1>2, <1>3, <1>4, <2>3, JustifiedGrows
<1>7. CASE m = "exact_key"
  <2>1. Holds(registry, id, Record.crm_account_id)
    BY <1>1, <1>7 DEF HasKnownKey, IInv, AccountsIndexed
  <2>2. PICK a \in DOMAIN outcomes :
            /\ dataset[a].system = "crm" /\ dataset[a].record_id = Record.crm_account_id
            /\ outcomes[a].matched_canonical_id = id
    BY <1>3, <2>1, HeldIsPlaced
  <2>3. KeyedTo(k, id)'
    BY <1>1, <1>2, <1>5, <1>7, <2>2 DEF KeyedTo, HasKnownKey
  <2>4. Justified(k, id, m)'
    BY <1>1, <1>2, <1>5, <1>7, <2>3 DEF Justified
  <2> QED
    BY <1>2, <1>3, <1>4, <2>4, JustifiedGrows
<1>8. CASE m = "llm"
  <2>1. Justified(k, id, m)'
    BY <1>1, <1>2, <1>5, <1>8 DEF Justified
  <2> QED
    BY <1>2, <1>3, <1>4, <2>1, JustifiedGrows
<1> QED
  BY <1>1, <1>6, <1>7, <1>8

\* A record that waits needs no reason.
LEMMA QueuedIsJustified ==
    ASSUME IInv, OutcomesJustified, Founded, ByName, NEW c \in ScoreRange, NEW reason,
           Enqueue(c, reason)
    PROVE  OutcomesJustified' /\ Founded'
<1>1. /\ Resolving /\ Record.system # "crm" /\ Conclude(None, c, "unresolved")
      /\ registry' = registry /\ Ids' = Ids
  BY DEF ByName, Enqueue, matcherVars, Ids
<1>2. PICK k : /\ k = Len(outcomes) + 1 /\ k \notin DOMAIN outcomes
               /\ k \in DOMAIN dataset /\ dataset[k] = Record
  BY <1>1, RecordInHand
<1>3. Concluded(None, "unresolved")
  <2>1. Concludes(None, c, "unresolved")
    BY <1>1 DEF Concludes, IInv, Methods
  <2> QED
    BY <2>1, ConcludeStep
<1>4. Justified(k, None, "unresolved")'
  BY <1>1, <1>2, <1>3 DEF Justified, Concluded
<1> QED
  BY <1>1, <1>2, <1>3, <1>4, JustifiedGrows

Reasoned == OutcomesJustified /\ Founded

LEMMA InitReasoned == Init => Reasoned
BY DEF Init, MatcherInit, Reasoned, OutcomesJustified, Founded, Ids

LEMMA StepReasoned == IInv /\ Traced /\ Reasoned /\ [Next]_vars => Reasoned'
<1> SUFFICES ASSUME IInv, RecordsTraced, OutcomesJustified, Founded, [Next]_vars
             PROVE  OutcomesJustified' /\ Founded'
  BY DEF Reasoned, Traced
<1>1. CASE MergeCrm \/ AddCrm
  BY <1>1, CrmJustifies
<1>2. CASE MatchByKey \/ MatchByName \/ AcceptLlm
  BY <1>2, ActionsAttach, AttachedIsJustified
<1>3. CASE QueueUncandidated \/ QueueResidual \/ QueueUnsure
  BY <1>3, ActionsQueue, QueuedIsJustified
<1>4. CASE AbortOnUnknownId \/ AbortOnProviderError \/ Report \/ BuildServer \/ Review
           \/ UNCHANGED vars
  <2>1. UNCHANGED <<registry, dataset, outcomes>>
    BY <1>4 DEF AbortOnUnknownId, AbortOnProviderError, Abort, Report, BuildServer,
       Review, vars, matcherVars, resolutionVars
  <2> QED
    BY <2>1, ReasonsStay
<1> QED
  BY <1>1, <1>2, <1>3, <1>4 DEF Next, ProgramStep

LEMMA ReasonsHold == Spec => [](IInv /\ Traced /\ Reasoned)
<1>1. Init => Reasoned
  BY InitReasoned
<1>2. IInv /\ Traced /\ Reasoned /\ [Next]_vars => Reasoned'
  BY StepReasoned
<1> QED
  BY <1>1, <1>2, TracesHold, PTL DEF Spec

\* Who founded a customer is a CRM row of its name.
LEMMA FounderExists ==
    ASSUME IInv, Reasoned, NEW id \in Ids
    PROVE  \E f \in DOMAIN outcomes :
               /\ f \in DOMAIN dataset /\ dataset[f].system = "crm"
               /\ outcomes[f].method = "new_entity"
               /\ outcomes[f].matched_canonical_id = id
               /\ dataset[f].name = registry[id].name
<1>1. PICK f \in DOMAIN outcomes :
          outcomes[f].method = "new_entity" /\ outcomes[f].matched_canonical_id = id
  BY DEF Reasoned, Founded
<1>2. Justified(f, id, "new_entity")
  BY <1>1 DEF Reasoned, OutcomesJustified
<1>3. f \in DOMAIN dataset
  <2>1. dataset \in Seq(RawRecord) /\ outcomes \in Seq(Outcome) /\ Len(outcomes) <= Len(dataset)
    BY ResolutionAssumption DEF ResolutionAssumption, IInv, Typed
  <2> QED
    BY <2>1
<1> QED
  BY <1>1, <1>2, <1>3 DEF Justified

\* Two accounts merged into one customer were each compared with the account
\* it was created from, and so was every record placed by its name, for every
\* similarity table (_best_registry_match compares with canonical names only).
THEOREM LikenessDoesNotChain == Spec => []NoChainedMerges
<1>1. IInv /\ Traced /\ Reasoned => NoChainedMerges
  <2> SUFFICES ASSUME IInv, Traced, Reasoned, NEW n \in DOMAIN outcomes,
                      outcomes[n].matched_canonical_id # None, outcomes[n].method # "llm"
               PROVE  \E a \in CrmAccounts \cap DOMAIN outcomes :
                          /\ outcomes[a].matched_canonical_id
                                 = outcomes[n].matched_canonical_id
                          /\ \/ /\ outcomes[a].method = "new_entity"
                                /\ Similarity[dataset[n].name][dataset[a].name]
                                       >= FuzzyAutoAccept
                             \/ /\ dataset[n].system = "billing"
                                /\ dataset[n].crm_account_id = dataset[a].record_id
    BY DEF NoChainedMerges
  <2>1. PICK id, m : outcomes[n].matched_canonical_id = id /\ outcomes[n].method = m
    OBVIOUS
  <2>2. Resembles(dataset[n].name, id) \/ KeyedTo(n, id)
    BY <2>1 DEF Reasoned, OutcomesJustified, Justified
  <2>3. CASE Resembles(dataset[n].name, id)
    <3>1. PICK f \in DOMAIN outcomes :
              /\ f \in DOMAIN dataset /\ dataset[f].system = "crm"
              /\ outcomes[f].method = "new_entity"
              /\ outcomes[f].matched_canonical_id = id
              /\ dataset[f].name = registry[id].name
      BY <2>3, FounderExists DEF Resembles
    <3> QED
      BY <2>1, <2>3, <3>1 DEF Resembles, Score, CrmAccounts
  <2>4. CASE KeyedTo(n, id)
    <3>1. DOMAIN outcomes \subseteq DOMAIN dataset
      <4>1. dataset \in Seq(RawRecord) /\ outcomes \in Seq(Outcome)
            /\ Len(outcomes) <= Len(dataset)
        BY ResolutionAssumption DEF ResolutionAssumption, IInv, Typed
      <4> QED
        BY <4>1
    <3> QED
      BY <2>1, <2>4, <3>1 DEF KeyedTo, CrmAccounts
  <2> QED
    BY <2>2, <2>3, <2>4
<1> QED
  BY <1>1, ReasonsHold, PTL

-----------------------------------------------------------------------------
(* The resolver implements the partition of the export.                    *)

\* A customer is created from the first of its rows.
FoundersFirst ==
    \A f, n \in DOMAIN outcomes :
        (/\ outcomes[f].method = "new_entity"
         /\ outcomes[n].matched_canonical_id = outcomes[f].matched_canonical_id)
        => f <= n

\* The position of the record in hand is after those of the outcomes, and the
\* CRM rows are before it unless it is one of them.
LEMMA RecordComesNext ==
    ASSUME IInv, Resolving
    PROVE  \E k : /\ k = Len(outcomes) + 1 /\ k \in Nat /\ k \notin DOMAIN outcomes
                  /\ k \in DOMAIN dataset /\ dataset[k] = Record
                  /\ \A n \in DOMAIN outcomes : n \in Nat /\ n < k /\ n \in DOMAIN dataset
                  /\ \A n \in DOMAIN dataset : n \in Nat /\ (n < k => n \in DOMAIN outcomes)
                  /\ \A n \in DOMAIN dataset \ DOMAIN outcomes : k <= n
                  /\ Record.system # "crm" =>
                         \A n \in DOMAIN dataset :
                             dataset[n].system = "crm" => n \in DOMAIN outcomes
<1>1. PICK k : /\ k = Len(outcomes) + 1 /\ k \notin DOMAIN outcomes
               /\ k \in DOMAIN dataset /\ dataset[k] = Record
  BY RecordInHand
<1>2. dataset \in Seq(RawRecord) /\ outcomes \in Seq(Outcome) /\ Len(outcomes) <= Len(dataset)
  BY ResolutionAssumption DEF ResolutionAssumption, IInv, Typed
<1>3. /\ k \in Nat
      /\ \A n \in DOMAIN outcomes : n \in Nat /\ n < k /\ n \in DOMAIN dataset
      /\ \A n \in DOMAIN dataset : n \in Nat /\ (n < k => n \in DOMAIN outcomes)
      /\ \A n \in DOMAIN dataset \ DOMAIN outcomes : k <= n
  BY <1>1, <1>2
<1>4. \A m, n \in DOMAIN dataset :
          m < n /\ dataset[n].system = "crm" => dataset[m].system = "crm"
  BY ResolutionAssumption DEF ResolutionAssumption, IInv, Typed
<1>5. ASSUME Record.system # "crm", NEW n \in DOMAIN dataset, dataset[n].system = "crm",
             n \notin DOMAIN outcomes
      PROVE  FALSE
  <2>1. k <= n /\ k # n
    BY <1>1, <1>3, <1>5
  <2>2. k < n
    BY <1>3, <2>1
  <2> QED
    BY <1>1, <1>4, <1>5, <2>2
<1> QED
  BY <1>1, <1>3, <1>5

\* A new customer's id is that of no earlier outcome.
LEMMA FoundersGrow ==
    ASSUME IInv, OutcomesNamed, FoundersFirst, Resolving, NEW id, NEW m,
           Concluded(id, m), m = "new_entity" => id \notin Ids \cup {None}
    PROVE  FoundersFirst'
<1>1. PICK k : /\ k = Len(outcomes) + 1 /\ k \in Nat /\ k \notin DOMAIN outcomes
               /\ \A n \in DOMAIN outcomes : n \in Nat /\ n < k
  BY RecordComesNext
<1>2. /\ DOMAIN outcomes' = DOMAIN outcomes \cup {k}
      /\ \A n \in DOMAIN outcomes : outcomes'[n] = outcomes[n]
      /\ outcomes'[k].matched_canonical_id = id /\ outcomes'[k].method = m
  BY <1>1 DEF Concluded
<1>3. ASSUME NEW f \in DOMAIN outcomes', NEW n \in DOMAIN outcomes',
             outcomes'[f].method = "new_entity",
             outcomes'[n].matched_canonical_id = outcomes'[f].matched_canonical_id
      PROVE  f <= n
  <2>1. CASE f = k /\ n = k
    BY <1>1, <2>1
  <2>2. CASE f = k /\ n \in DOMAIN outcomes
    BY <1>2, <1>3, <2>2 DEF OutcomesNamed
  <2>3. CASE f \in DOMAIN outcomes /\ n = k
    BY <1>1, <2>3
  <2>4. CASE f \in DOMAIN outcomes /\ n \in DOMAIN outcomes
    BY <1>2, <1>3, <2>4 DEF FoundersFirst
  <2> QED
    BY <1>2, <2>1, <2>2, <2>3, <2>4
<1> QED
  BY <1>3 DEF FoundersFirst

\* The actions, as they bear on the founders.
LEMMA StepFounders ==
    IInv /\ OutcomesNamed /\ FoundersFirst /\ [Next]_vars => FoundersFirst'
<1> SUFFICES ASSUME IInv, OutcomesNamed, FoundersFirst, [Next]_vars
             PROVE  FoundersFirst'
  OBVIOUS
<1>1. CASE MergeCrm
  <2>1. PICK id, c, m : /\ id = Best(Record.name) /\ c = BestScore(Record.name)
                        /\ m = NameMethod(c)
    OBVIOUS
  <2>2. /\ Resolving /\ Record.name \in Names /\ attach(id, Record) /\ Conclude(id, c, m)
        /\ BestScore(Record.name) >= FuzzyAutoAccept
    BY <1>1, <2>1, RecordType DEF MergeCrm, MergeCrmRecord, IInv
  <2>3. c \in ScoreRange /\ id \in Nat
    <3>1. c \in ScoreRange
      BY <2>1, <2>2, AcceptedIsBest
    <3>2. id \in Nat
      BY <2>2, AttachGrows
    <3> QED
      BY <3>1, <3>2
  <2>4. m \in Methods /\ m # "new_entity"
    BY <2>1 DEF NameMethod, Methods
  <2>5. Concluded(id, m)
    <3>1. Concludes(id, c, m)
      BY <2>2, <2>3, <2>4 DEF Concludes, IInv
    <3> QED
      BY <3>1, ConcludeStep
  <2> QED
    BY <2>2, <2>4, <2>5, FoundersGrow
<1>2. CASE AddCrm
  <2>1. PICK id : id = Len(registry) + 1
    OBVIOUS
  <2>2. Resolving /\ Conclude(id, Certain, "new_entity")
    BY <1>2, <2>1 DEF AddCrm
  <2>3. id \in Nat /\ id \notin Ids
    <3>1. registry \in Seq(Customer)
      BY DEF IInv, Typed
    <3> QED
      BY <2>1, <3>1 DEF Ids
  <2>4. Concluded(id, "new_entity")
    <3>1. Certain \in ScoreRange /\ "new_entity" \in Methods
      BY ScoreNumbers DEF Methods
    <3>2. Concludes(id, Certain, "new_entity")
      BY <2>2, <2>3, <3>1 DEF Concludes, IInv
    <3> QED
      BY <3>2, ConcludeStep
  <2>5. id \notin Ids \cup {None}
    BY <2>3, ResolutionAssumption DEF ResolutionAssumption
  <2> QED
    BY <2>2, <2>4, <2>5, FoundersGrow
<1>3. CASE MatchByKey \/ MatchByName \/ AcceptLlm
  <2>1. PICK id, c, m : Attaches(id, c, m)
    BY <1>3, ActionsAttach
  <2>2. Resolving /\ m # "new_entity" /\ attach(id, Record)
    BY <2>1 DEF Attaches
  <2>3. Concluded(id, m)
    <3>1. Concludes(id, c, m)
      BY <2>1, <2>2, AttachGrows DEF Attaches, Concludes, IInv
    <3> QED
      BY <3>1, ConcludeStep
  <2> QED
    BY <2>2, <2>3, FoundersGrow
<1>4. CASE QueueUncandidated \/ QueueResidual \/ QueueUnsure
  <2>1. PICK c \in ScoreRange, reason \in Reasons : ByName /\ Enqueue(c, reason)
    BY <1>4, ActionsQueue
  <2>2. Resolving /\ Conclude(None, c, "unresolved")
    BY <2>1 DEF ByName, Enqueue
  <2>3. Concluded(None, "unresolved")
    <3>1. Concludes(None, c, "unresolved")
      BY <2>1, <2>2 DEF Concludes, IInv, Methods
    <3> QED
      BY <3>1, ConcludeStep
  <2> QED
    BY <2>2, <2>3, FoundersGrow
<1>5. CASE AbortOnUnknownId \/ AbortOnProviderError \/ Report \/ BuildServer \/ Review
           \/ UNCHANGED vars
  <2>1. outcomes' = outcomes
    BY <1>5 DEF AbortOnUnknownId, AbortOnProviderError, Abort, Report, BuildServer,
       Review, vars, matcherVars, resolutionVars
  <2> QED
    BY <2>1 DEF FoundersFirst
<1> QED
  BY <1>1, <1>2, <1>3, <1>4, <1>5 DEF Next, ProgramStep

\* What the refinement stands on.
Explained == IInv /\ Traced /\ Reasoned /\ FoundersFirst

LEMMA ExplanationHolds == Spec => []Explained
<1>1. Init => FoundersFirst
  BY DEF Init, FoundersFirst
<1>2. IInv /\ Traced /\ FoundersFirst /\ [Next]_vars => FoundersFirst'
  BY StepFounders DEF Traced, RecordsTraced
<1> QED
  BY <1>1, <1>2, ReasonsHold, PTL DEF Spec, Explained

\* The rows of the customers and the rows that wait are the rows handled.
LEMMA HandledIsSettled ==
    ASSUME OutcomesNamed
    PROVE  /\ DOMAIN CustomerRows = Ids
           /\ \A i \in Ids : CustomerRows[i] = RowsOf(i)
           /\ Partition!Settled = DOMAIN outcomes
           /\ Partition!Pending = DOMAIN dataset \ DOMAIN outcomes
<1>1. DOMAIN CustomerRows = Ids /\ \A i \in Ids : CustomerRows[i] = RowsOf(i)
  BY DEF CustomerRows
<1>2. \A n : n \in UNION {CustomerRows[i] : i \in DOMAIN CustomerRows}
                <=> \E i \in Ids : n \in RowsOf(i)
  BY <1>1
<1>3. \A n : n \in Partition!Settled <=> n \in DOMAIN outcomes
  BY <1>2 DEF Partition!Settled, WaitingRows, RowsOf, OutcomesNamed
<1>4. Partition!Settled = DOMAIN outcomes
  BY <1>3 DEF Partition!Settled
<1> QED
  BY <1>1, <1>4 DEF Partition!Pending

LEMMA RecordIsInTurn ==
    ASSUME Explained, Resolving, NEW k, k = Len(outcomes) + 1
    PROVE  k \in DOMAIN dataset /\ Partition!Turn(k)
<1>1. /\ k \in DOMAIN dataset /\ k \notin DOMAIN outcomes
      /\ \A n \in DOMAIN dataset \ DOMAIN outcomes : k <= n
  BY RecordComesNext DEF Explained
<1>2. Partition!Pending = DOMAIN dataset \ DOMAIN outcomes
  BY HandledIsSettled DEF Explained, Traced, RecordsTraced
<1> QED
  BY <1>1, <1>2 DEF Partition!Turn, Resolving

\* The founder of a customer is the CRM row it has its name from.
LEMMA FounderNames ==
    ASSUME Explained, NEW id \in Ids
    PROVE  \E f : /\ f = Partition!Founder(CustomerRows[id])
                  /\ f \in DOMAIN dataset /\ dataset[f].name = registry[id].name
<1>1. PICK f \in DOMAIN outcomes :
          /\ f \in DOMAIN dataset /\ dataset[f].system = "crm"
          /\ outcomes[f].method = "new_entity"
          /\ outcomes[f].matched_canonical_id = id
          /\ dataset[f].name = registry[id].name
  BY FounderExists DEF Explained
<1>2. f \in CustomerRows[id] /\ \A n \in CustomerRows[id] : f <= n
  BY <1>1 DEF CustomerRows, RowsOf, Explained, FoundersFirst
<1>3. \A n \in CustomerRows[id] : n \in Nat
  <2>1. outcomes \in Seq(Outcome)
    BY DEF Explained, IInv, Typed
  <2> QED
    BY <2>1 DEF CustomerRows, RowsOf
<1>4. \A n \in CustomerRows[id] : (\A j \in CustomerRows[id] : n <= j) => n = f
  BY <1>2, <1>3
<1>5. Partition!Founder(CustomerRows[id]) = f
  BY ONLY <1>2, <1>4 DEF Partition!Founder
<1> QED
  BY <1>1, <1>5

\* A row resembles the founder of a customer when it resembles the customer.
LEMMA LookalikesResemble ==
    ASSUME Explained, NEW n
    PROVE  Partition!Lookalikes(n)
               = {i \in Ids : ~Partition!Nameless(n) /\ Resembles(dataset[n].name, i)}
<1>1. DOMAIN CustomerRows = Ids
  BY DEF CustomerRows
<1>2. ASSUME NEW i \in Ids
      PROVE  <<dataset[n].name, dataset[Partition!Founder(CustomerRows[i])].name>>
                 \in AlikeNames
             <=> Resembles(dataset[n].name, i)
  <2>1. PICK f : /\ f = Partition!Founder(CustomerRows[i])
                 /\ dataset[f].name = registry[i].name
    BY FounderNames
  <2>2. registry[i].name \in Names
    <3>1. registry[i] \in Customer
      BY DEF Explained, IInv, Typed, Ids
    <3> QED
      BY <3>1 DEF Customer
  <2>3. \A a, b : <<a, b>> \in AlikeNames
                     <=> a \in Names /\ b \in Names /\ Similarity[a][b] >= FuzzyAutoAccept
    BY DEF AlikeNames
  <2> QED
    BY <2>1, <2>2, <2>3 DEF Resembles, Score
<1> QED
  BY <1>1, <1>2 DEF Partition!Lookalikes

\* A billing record carries the key of an exported account exactly when the
\* index knows the key, and the index leads to a customer with that account.
LEMMA KeysLeadToAccounts ==
    ASSUME Explained, Resolving, NEW k, k = Len(outcomes) + 1
    PROVE  /\ Partition!Accounts(k) # {} <=> HasKnownKey(Record)
           /\ HasKnownKey(Record) =>
                  \E id \in Ids : /\ id = crm_key[Record.crm_account_id]
                                  /\ CustomerRows[id] \cap Partition!Accounts(k) # {}
<1>1. /\ dataset[k] = Record
      /\ \A n \in DOMAIN outcomes : n \in DOMAIN dataset
      /\ Record.system # "crm" =>
             \A n \in DOMAIN dataset :
                 dataset[n].system = "crm" => n \in DOMAIN outcomes
  BY RecordComesNext DEF Explained
<1>2. Partition!Accounts(k)
          = {a \in DOMAIN dataset : /\ dataset[a].system = "crm" /\ Record.system = "billing"
                                    /\ dataset[a].record_id = Record.crm_account_id}
  BY <1>1 DEF Partition!Accounts, Partition!IsAccount
<1>3. ASSUME NEW a \in Partition!Accounts(k) PROVE HasKnownKey(Record)
  <2>1. a \in DOMAIN outcomes /\ dataset[a].system = "crm"
    BY <1>1, <1>2, <1>3
  <2>2. dataset[a].record_id \in DOMAIN crm_key
    BY <2>1 DEF Explained, IInv, AccountsIndexed
  <2> QED
    BY <1>2, <1>3, <2>2 DEF HasKnownKey
<1>4. ASSUME HasKnownKey(Record)
      PROVE  \E id \in Ids : /\ id = crm_key[Record.crm_account_id]
                             /\ CustomerRows[id] \cap Partition!Accounts(k) # {}
  <2>1. PICK id \in Ids : /\ id = crm_key[Record.crm_account_id]
                          /\ Holds(registry, id, Record.crm_account_id)
    BY <1>4 DEF HasKnownKey, Explained, IInv, Typed, AccountsIndexed
  <2>2. PICK a \in DOMAIN outcomes :
            /\ dataset[a].system = "crm" /\ dataset[a].record_id = Record.crm_account_id
            /\ outcomes[a].matched_canonical_id = id
    BY <2>1, HeldIsPlaced DEF Explained, Traced
  <2>3. a \in Partition!Accounts(k)
    BY <1>1, <1>2, <1>4, <2>2 DEF HasKnownKey
  <2>4. a \in CustomerRows[id]
    BY <2>2 DEF CustomerRows, RowsOf
  <2> QED
    BY <2>1, <2>3, <2>4
<1> QED
  BY <1>3, <1>4

\* What concluding the record in hand does to the rows of a customer.
LEMMA RowsGrow ==
    ASSUME NEW k, k = Len(outcomes) + 1, k \notin DOMAIN outcomes,
           NEW id, NEW m, Concluded(id, m), NEW i
    PROVE  RowsOf(i)' = IF i = id THEN RowsOf(i) \cup {k} ELSE RowsOf(i)
<1>1. /\ DOMAIN outcomes' = DOMAIN outcomes \cup {k}
      /\ \A n \in DOMAIN outcomes : outcomes'[n] = outcomes[n]
      /\ outcomes'[k].matched_canonical_id = id
  BY DEF Concluded
<1>2. \A n : n \in RowsOf(i)' <=> n \in (IF i = id THEN RowsOf(i) \cup {k} ELSE RowsOf(i))
  BY <1>1 DEF RowsOf
<1> QED
  BY <1>2

\* A record placed with a customer joins its rows.
LEMMA PlacedJoins ==
    ASSUME Explained, Resolving, NEW k, k = Len(outcomes) + 1,
           NEW id \in Ids, NEW m, Concluded(id, m), Ids' = Ids, status' = status,
           id \in Partition!Homes(k)
    PROVE  Partition!PartitionNext
<1>1. k \in DOMAIN dataset /\ Partition!Turn(k) /\ k \notin DOMAIN outcomes
  BY RecordIsInTurn, RecordComesNext DEF Explained
<1>2. id # None
  <2>1. id \in Nat
    BY DEF Explained, IInv, Typed, Ids
  <2> QED
    BY <2>1, ResolutionAssumption DEF ResolutionAssumption
<1>3. \A i : RowsOf(i)' = IF i = id THEN RowsOf(i) \cup {k} ELSE RowsOf(i)
  BY <1>1, RowsGrow
<1>4. WaitingRows' = WaitingRows
  BY <1>2, <1>3 DEF WaitingRows
<1>5. CustomerRows' = [CustomerRows EXCEPT ![id] = @ \cup {k}]
  <2>1. CustomerRows' = [i \in Ids |-> IF i = id THEN RowsOf(i) \cup {k} ELSE RowsOf(i)]
    BY <1>3 DEF CustomerRows
  <2> QED
    BY <2>1 DEF CustomerRows
<1>6. dataset' = dataset
  BY DEF Concluded
<1>7. Partition!JoinCustomer(k)
  BY <1>4, <1>5, <1>6 DEF Partition!JoinCustomer
<1> QED
  BY <1>1, <1>7 DEF Partition!PartitionNext

\* A record that is queued joins the rows that wait.
LEMMA QueuedWaits ==
    ASSUME Explained, Resolving, NEW k, k = Len(outcomes) + 1,
           NEW m, Concluded(None, m), Ids' = Ids, status' = status,
           Record.system # "crm", Partition!Accounts(k) = {}, Partition!Lookalikes(k) = {}
    PROVE  Partition!PartitionNext
<1>1. /\ k \in DOMAIN dataset /\ Partition!Turn(k) /\ k \notin DOMAIN outcomes
      /\ dataset[k] = Record
  BY RecordIsInTurn, RecordComesNext DEF Explained
<1>2. \A i \in Ids : i # None
  <2>1. \A i \in Ids : i \in Nat
    BY DEF Explained, IInv, Typed, Ids
  <2> QED
    BY <2>1, ResolutionAssumption DEF ResolutionAssumption
<1>3. \A i : RowsOf(i)' = IF i = None THEN RowsOf(i) \cup {k} ELSE RowsOf(i)
  BY <1>1, RowsGrow
<1>4. WaitingRows' = WaitingRows \cup {k}
  BY <1>3 DEF WaitingRows
<1>5. CustomerRows' = CustomerRows
  BY <1>2, <1>3 DEF CustomerRows
<1>6. dataset' = dataset
  BY DEF Concluded
<1>7. Partition!WaitForPerson(k)
  BY <1>1, <1>4, <1>5, <1>6 DEF Partition!WaitForPerson, Partition!IsAccount
<1> QED
  BY <1>1, <1>7 DEF Partition!PartitionNext

\* A row whose best score is below the threshold, or that has no name,
\* resembles nobody.
LEMMA BelowIsNoLookalike ==
    ASSUME Explained, Resolving, NEW k, k = Len(outcomes) + 1,
           \/ Unnamed
           \/ Record.name \in Names /\ BestScore(Record.name) < FuzzyAutoAccept
    PROVE  Partition!Lookalikes(k) = {}
<1>1. dataset[k] = Record
  BY RecordComesNext DEF Explained
<1>2. Partition!Lookalikes(k)
          = {i \in Ids : ~Partition!Nameless(k) /\ Resembles(Record.name, i)}
  BY <1>1, LookalikesResemble
<1>3. CASE Unnamed
  BY <1>1, <1>2, <1>3 DEF Unnamed, Partition!Nameless
<1>4. CASE Record.name \in Names /\ BestScore(Record.name) < FuzzyAutoAccept
  <2>1. ASSUME NEW i \in Ids PROVE ~Resembles(Record.name, i)
    <3>1. registry \in Seq(Customer)
      BY DEF Explained, IInv, Typed
    <3>2. PICK s, b : s = Score(Record.name, i) /\ b = BestScore(Record.name)
      OBVIOUS
    <3>3. s \in Nat /\ b \in Nat /\ s <= b
      BY <1>4, <3>1, <3>2, ScoreType, BestScoreBounds
    <3>4. ~(s >= 8500000)
      BY <1>4, <3>2, <3>3 DEF FuzzyAutoAccept
    <3> QED
      BY <3>2, <3>4 DEF Resembles, FuzzyAutoAccept
  <2> QED
    BY <1>2, <2>1
<1> QED
  BY <1>3, <1>4

\* Neither an account nor a PSA job carries a key, and an account has a name.
LEMMA AccountInHand ==
    ASSUME Explained, Resolving, NEW k, k = Len(outcomes) + 1, Record.system = "crm"
    PROVE  /\ k \in DOMAIN dataset /\ k \notin DOMAIN outcomes /\ dataset[k] = Record
           /\ Record.name \in Names
           /\ Partition!IsAccount(k) /\ Partition!Accounts(k) = {}
           /\ ~Partition!Nameless(k)
<1>1. /\ k \in DOMAIN dataset /\ k \notin DOMAIN outcomes /\ dataset[k] = Record
      /\ Record.name \in Names
  BY RecordComesNext, RecordType DEF Explained, IInv
<1>2. Partition!Accounts(k) = {}
  <2>1. ~HasKnownKey(Record)
    BY DEF HasKnownKey
  <2> QED
    BY <2>1, KeysLeadToAccounts
<1> QED
  BY <1>1, <1>2 DEF Partition!IsAccount, Partition!Nameless

LEMMA MergeJoins ==
    ASSUME Explained, MergeCrm
    PROVE  Partition!PartitionNext
<1>1. Resolving /\ Record.system = "crm" /\ status' = status
  BY DEF MergeCrm, Conclude
<1>2. PICK k : k = Len(outcomes) + 1
  OBVIOUS
<1>3. /\ dataset[k] = Record /\ Record.name \in Names
      /\ Partition!IsAccount(k) /\ Partition!Accounts(k) = {} /\ ~Partition!Nameless(k)
  BY <1>1, <1>2, AccountInHand
<1>4. PICK id, c, m : /\ id = Best(Record.name) /\ c = BestScore(Record.name)
                      /\ m = NameMethod(c)
  OBVIOUS
<1>5. /\ attach(id, Record) /\ Conclude(id, c, m) /\ BestScore(Record.name) >= FuzzyAutoAccept
  BY <1>4 DEF MergeCrm, MergeCrmRecord
<1>6. /\ id \in Ids /\ c \in ScoreRange /\ Score(Record.name, id) >= FuzzyAutoAccept
  BY <1>3, <1>4, <1>5, AcceptedIsBest DEF Explained
<1>7. m \in Methods
  BY <1>4 DEF NameMethod, Methods
<1>8. id \in Nat /\ Ids' = Ids
  BY <1>1, <1>5, AttachGrows DEF Explained
<1>9. Concluded(id, m)
  <2>1. Concludes(id, c, m)
    BY <1>1, <1>5, <1>6, <1>7, <1>8 DEF Concludes, Explained, IInv
  <2> QED
    BY <2>1, ConcludeStep
<1>10. id \in Partition!Homes(k)
  <2>1. id \in Partition!Lookalikes(k)
    BY <1>3, <1>6, LookalikesResemble DEF Resembles
  <2> QED
    BY <1>3, <2>1 DEF Partition!Homes
<1> QED
  BY <1>1, <1>2, <1>6, <1>8, <1>9, <1>10, PlacedJoins

\* A list that is one longer.
LEMMA IsAppended ==
    ASSUME NEW S, NEW s \in Seq(S), NEW e \in S,
           NEW t, t = [i \in 1 .. Len(s) + 1 |-> IF i = Len(s) + 1 THEN e ELSE s[i]]
    PROVE  t = Append(s, e)
<1> DEFINE longer == Append(s, e)
<1>1. /\ longer \in Seq(S) /\ Len(longer) = Len(s) + 1
      /\ \A i \in 1 .. Len(s) : longer[i] = s[i]
      /\ longer[Len(s) + 1] = e
      /\ Len(s) \in Nat
  BY AppendProperties
<1>2. \A i \in 1 .. Len(s) : s[i] \in S
  OBVIOUS
<1>3. \A i \in 1 .. Len(s) + 1 : i # Len(s) + 1 => i \in 1 .. Len(s)
  BY <1>1
<1> HIDE DEF longer
<1>4. /\ DOMAIN t = 1 .. Len(s) + 1
      /\ \A i \in 1 .. Len(s) + 1 : t[i] = IF i = Len(s) + 1 THEN e ELSE s[i]
  OBVIOUS
<1>5. DOMAIN longer = 1 .. Len(s) + 1
  BY <1>1
<1>6. \A i \in 1 .. Len(s) + 1 : longer[i] = t[i]
  BY <1>1, <1>3, <1>4
<1>7. longer = [i \in 1 .. Len(s) + 1 |-> longer[i]]
  BY <1>1, <1>5
<1>8. t = [i \in 1 .. Len(s) + 1 |-> longer[i]]
  BY <1>1, <1>3
<1> QED
  BY <1>7, <1>8 DEF longer

LEMMA AddFounds ==
    ASSUME Explained, AddCrm
    PROVE  Partition!PartitionNext
<1>1. Resolving /\ Record.system = "crm" /\ status' = status
  BY DEF AddCrm, Conclude
<1>2. PICK k : k = Len(outcomes) + 1
  OBVIOUS
<1>3. /\ k \in DOMAIN dataset /\ k \notin DOMAIN outcomes /\ dataset[k] = Record
      /\ Record.name \in Names /\ Partition!IsAccount(k)
  BY <1>1, <1>2, AccountInHand
<1>4. Partition!Turn(k)
  BY <1>1, <1>2, RecordIsInTurn
<1>5. Partition!Lookalikes(k) = {}
  <2>1. BestScore(Record.name) < FuzzyAutoAccept
    BY DEF AddCrm, AddCrmRecord
  <2> QED
    BY <1>1, <1>2, <1>3, <2>1, BelowIsNoLookalike
<1>6. PICK id : id = Len(registry) + 1
  OBVIOUS
<1>7. /\ id \in Nat /\ Ids' = Ids \cup {id}
  BY <1>6, AddedCustomer DEF Explained
<1>8. /\ registry \in Seq(Customer) /\ Len(registry) \in Nat /\ Ids = 1 .. Len(registry)
      /\ id \notin Ids /\ Ids' = 1 .. Len(registry) + 1
  <2>1. registry \in Seq(Customer)
    BY DEF Explained, IInv, Typed
  <2> QED
    BY <1>6, <1>7, <2>1 DEF Ids
<1>9. Concluded(id, "new_entity")
  <2>1. Conclude(id, Certain, "new_entity")
    BY <1>6 DEF AddCrm
  <2>2. Certain \in ScoreRange /\ "new_entity" \in Methods
    BY ScoreNumbers DEF Methods
  <2>3. Concludes(id, Certain, "new_entity")
    BY <1>1, <1>7, <2>1, <2>2 DEF Concludes, Explained, IInv
  <2> QED
    BY <2>3, ConcludeStep
<1>10. \A i : RowsOf(i)' = IF i = id THEN RowsOf(i) \cup {k} ELSE RowsOf(i)
  BY <1>2, <1>3, <1>9, RowsGrow
<1>11. id # None
  BY <1>7, ResolutionAssumption DEF ResolutionAssumption
<1>12. WaitingRows' = WaitingRows
  BY <1>10, <1>11 DEF WaitingRows
<1>13. RowsOf(id) = {}
  BY <1>8, <1>11 DEF RowsOf, Explained, Traced, RecordsTraced, OutcomesNamed
<1>14. CustomerRows' = Append(CustomerRows, {k})
  <2>1. /\ CustomerRows \in Seq(SUBSET DOMAIN dataset)
        /\ Len(CustomerRows) = Len(registry)
    <3>1. CustomerRows = [i \in 1 .. Len(registry) |-> RowsOf(i)]
      BY <1>8 DEF CustomerRows
    <3>2. \A i \in 1 .. Len(registry) : RowsOf(i) \in SUBSET DOMAIN dataset
      BY <1>1, RecordComesNext DEF RowsOf, Explained
    <3> QED
      BY <1>8, <3>1, <3>2
  <2>2. CustomerRows' = [i \in 1 .. Len(registry) + 1 |->
                            IF i = id THEN {k} ELSE RowsOf(i)]
    BY <1>8, <1>10, <1>13 DEF CustomerRows
  <2>3. \A i \in Ids : CustomerRows[i] = RowsOf(i)
    BY DEF CustomerRows
  <2>4. CustomerRows' = [i \in 1 .. Len(CustomerRows) + 1 |->
                            IF i = Len(CustomerRows) + 1 THEN {k} ELSE CustomerRows[i]]
    BY <1>6, <1>8, <2>1, <2>2, <2>3
  <2>5. {k} \in SUBSET DOMAIN dataset
    BY <1>3
  <2> QED
    BY <2>1, <2>4, <2>5, IsAppended
<1>15. dataset' = dataset
  BY <1>9 DEF Concluded
<1>16. Partition!FoundCustomer(k)
  BY <1>1, <1>3, <1>5, <1>12, <1>14, <1>15 DEF Partition!FoundCustomer
<1> QED
  BY <1>3, <1>4, <1>16 DEF Partition!PartitionNext

LEMMA AttachJoins ==
    ASSUME Explained, MatchByKey \/ MatchByName \/ AcceptLlm
    PROVE  Partition!PartitionNext
<1>1. PICK id, c, m : Attaches(id, c, m)
  BY ActionsAttach DEF Explained
<1>2. PICK k : k = Len(outcomes) + 1
  OBVIOUS
<1>3. /\ Resolving /\ Record.system # "crm" /\ attach(id, Record)
      /\ dataset[k] = Record /\ ~Partition!IsAccount(k)
  BY <1>1, <1>2, RecordComesNext DEF Attaches, Explained, Partition!IsAccount
<1>4. id \in Ids /\ id \in Nat /\ Ids' = Ids
  BY <1>3, AttachGrows DEF Explained
<1>5. Concluded(id, m)
  <2>1. Concludes(id, c, m)
    BY <1>1, <1>4 DEF Attaches, Concludes, Explained, IInv
  <2> QED
    BY <2>1, ConcludeStep
<1>6. status' = status
  BY <1>1 DEF Attaches, Conclude
<1>7. Partition!Accounts(k) # {} <=> HasKnownKey(Record)
  BY <1>2, <1>3, KeysLeadToAccounts
<1>8. id \in Partition!Homes(k)
  <2>1. CASE m = "exact_key"
    <3>1. HasKnownKey(Record) /\ id = crm_key[Record.crm_account_id]
      BY <1>1, <2>1 DEF Attaches
    <3>2. CustomerRows[id] \cap Partition!Accounts(k) # {}
      BY <1>2, <1>3, <3>1, KeysLeadToAccounts
    <3>3. DOMAIN CustomerRows = Ids
      BY DEF CustomerRows
    <3> QED
      BY <1>4, <1>7, <3>1, <3>2, <3>3 DEF Partition!Homes
  <2>2. CASE m \in {"exact_name", "fuzzy_name"}
    <3>1. ~HasKnownKey(Record) /\ ~Unnamed /\ Leads(Record.name, id)
      BY <1>1, <2>2 DEF Attaches
    <3>2. ~Partition!Nameless(k) /\ Resembles(dataset[k].name, id)
      BY <1>3, <3>1 DEF Partition!Nameless, Unnamed, Leads, Resembles
    <3>3. id \in Partition!Lookalikes(k)
      BY <1>4, <3>2, LookalikesResemble
    <3> QED
      BY <1>7, <3>1, <3>3 DEF Partition!Homes
  <2>3. CASE m = "llm"
    <3>1. ~HasKnownKey(Record) /\ ~Unnamed /\ Residual
      BY <1>1, <2>3 DEF Attaches
    <3>2. Record.name \in Names /\ BestScore(Record.name) < FuzzyAutoAccept
      BY <1>3, <3>1, RecordType DEF Unnamed, Residual, Explained, IInv
    <3>3. Partition!Lookalikes(k) = {}
      BY <1>2, <1>3, <3>2, BelowIsNoLookalike
    <3>4. ~Partition!Nameless(k)
      BY <1>3, <3>1 DEF Partition!Nameless, Unnamed
    <3>5. DOMAIN CustomerRows = Ids
      BY DEF CustomerRows
    <3> QED
      BY <1>3, <1>4, <1>7, <3>1, <3>3, <3>4, <3>5 DEF Partition!Homes
  <2> QED
    BY <1>1, <2>1, <2>2, <2>3 DEF Attaches
<1> QED
  BY <1>2, <1>3, <1>4, <1>5, <1>6, <1>8, PlacedJoins

LEMMA QueueWaits ==
    ASSUME Explained, QueueUncandidated \/ QueueResidual \/ QueueUnsure
    PROVE  Partition!PartitionNext
<1>1. PICK c \in ScoreRange, reason \in Reasons : ByName /\ Enqueue(c, reason)
  BY ActionsQueue DEF Explained
<1>2. PICK k : k = Len(outcomes) + 1
  OBVIOUS
<1>3. /\ Resolving /\ Record.system # "crm" /\ ~HasKnownKey(Record)
      /\ Conclude(None, c, "unresolved") /\ Ids' = Ids /\ status' = status
  BY <1>1 DEF ByName, Enqueue, Conclude, matcherVars, Ids
<1>4. Concluded(None, "unresolved")
  <2>1. Concludes(None, c, "unresolved")
    BY <1>3 DEF Concludes, Explained, IInv, Methods
  <2> QED
    BY <2>1, ConcludeStep
<1>5. \/ Unnamed
      \/ Record.name \in Names /\ BestScore(Record.name) < FuzzyAutoAccept
  <2> SUFFICES ASSUME ~Unnamed
               PROVE  Record.name \in Names /\ BestScore(Record.name) < FuzzyAutoAccept
    OBVIOUS
  <2>1. Record.name \in Names
    BY <1>3, RecordType DEF Unnamed, Explained, IInv
  <2>2. CASE QueueUncandidated
    <3>1. ~(BestScore(Record.name) > 0)
      BY <2>2 DEF QueueUncandidated, HasCandidates
    <3>2. registry \in Seq(Customer)
      BY DEF Explained, IInv, Typed
    <3>3. PICK b : b = BestScore(Record.name)
      OBVIOUS
    <3>4. b \in Nat
      BY <2>1, <3>2, <3>3, BestScoreBounds
    <3>5. b < 8500000
      BY <3>1, <3>3, <3>4
    <3> QED
      BY <2>1, <3>3, <3>5 DEF FuzzyAutoAccept
  <2>3. CASE QueueResidual \/ QueueUnsure
    BY <2>1, <2>3 DEF QueueResidual, QueueUnsure, AsksLlm, Residual
  <2> QED
    BY <2>2, <2>3
<1>6. Partition!Lookalikes(k) = {}
  BY <1>2, <1>3, <1>5, BelowIsNoLookalike
<1>7. Partition!Accounts(k) = {}
  BY <1>2, <1>3, KeysLeadToAccounts
<1> QED
  BY <1>2, <1>3, <1>4, <1>6, <1>7, QueuedWaits

\* The steps that conclude no record end the call or change no outcome.
LEMMA OtherStepsStay ==
    ASSUME Explained,
           \/ AbortOnUnknownId \/ AbortOnProviderError \/ Report \/ BuildServer \/ Review
           \/ UNCHANGED vars
    PROVE  Partition!PartitionNext \/ UNCHANGED Partition!partitionVars
<1>1. dataset' = dataset /\ outcomes' = outcomes /\ registry' = registry
  BY DEF AbortOnUnknownId, AbortOnProviderError, Abort, Report, BuildServer,
     Review, vars, matcherVars, resolutionVars
<1>2. CustomerRows' = CustomerRows /\ WaitingRows' = WaitingRows
  BY <1>1 DEF CustomerRows, WaitingRows, RowsOf, Ids
<1>3. CASE AbortOnUnknownId \/ AbortOnProviderError
  <2>1. status = "running" /\ status' = "raised"
    BY <1>3 DEF AbortOnUnknownId, AbortOnProviderError, AsksLlm, Residual, ByName,
       Resolving, Abort
  <2>2. Partition!GiveUp
    BY <1>1, <1>2, <2>1 DEF Partition!GiveUp
  <2> QED
    BY <2>2 DEF Partition!PartitionNext
<1>4. CASE Report
  <2>1. status = "running" /\ status' = "reported" /\ Len(outcomes) = Len(dataset)
    BY <1>4 DEF Report
  <2>2. DOMAIN outcomes = DOMAIN dataset
    <3>1. dataset \in Seq(RawRecord) /\ outcomes \in Seq(Outcome)
      BY ResolutionAssumption DEF ResolutionAssumption, Explained, IInv, Typed
    <3> QED
      BY <2>1, <3>1
  <2>3. Partition!Pending = {}
    BY <2>2, HandledIsSettled DEF Explained, Traced, RecordsTraced
  <2>4. Partition!Deliver
    BY <1>1, <1>2, <2>1, <2>3 DEF Partition!Deliver
  <2> QED
    BY <2>4 DEF Partition!PartitionNext
<1>5. CASE BuildServer \/ Review \/ UNCHANGED vars
  <2>1. status' = status
    BY <1>5 DEF BuildServer, Review, vars, resolutionVars
  <2> QED
    BY <1>1, <1>2, <2>1 DEF Partition!partitionVars
<1> QED
  BY <1>3, <1>4, <1>5

\* Whatever rows, names, scores and answers there are, a row is placed once
\* and for good, in the order of the export: by its key where it has a known
\* one, else with a customer whose founding account it resembles, and only
\* when there is none by judgement or not at all; nothing is delivered before
\* every row is settled, and nothing moves afterwards (resolve_dataset).
THEOREM ResolverImplementsPartition == Spec => ImplementsPartition
<1>1. Init => Partition!PartitionInit
  <2> SUFFICES ASSUME Init PROVE Partition!PartitionInit
    OBVIOUS
  <2>1. /\ registry = <<>> /\ outcomes = <<>> /\ dataset \in Datasets /\ status = "running"
    BY DEF Init, MatcherInit
  <2>2. Ids = {} /\ \A id : RowsOf(id) = {}
    BY <2>1 DEF Ids, RowsOf
  <2>3. CustomerRows = <<>> /\ WaitingRows = {}
    BY <2>2 DEF CustomerRows, WaitingRows
  <2> QED
    BY <2>1, <2>3 DEF Partition!PartitionInit
<1>2. Explained /\ [Next]_vars => [Partition!PartitionNext]_(Partition!partitionVars)
  <2> SUFFICES ASSUME Explained, [Next]_vars
               PROVE  Partition!PartitionNext \/ UNCHANGED Partition!partitionVars
    OBVIOUS
  <2>1. CASE MergeCrm
    BY <2>1, MergeJoins
  <2>2. CASE AddCrm
    BY <2>2, AddFounds
  <2>3. CASE MatchByKey \/ MatchByName \/ AcceptLlm
    BY <2>3, AttachJoins
  <2>4. CASE QueueUncandidated \/ QueueResidual \/ QueueUnsure
    BY <2>4, QueueWaits
  <2>5. CASE \/ AbortOnUnknownId \/ AbortOnProviderError \/ Report \/ BuildServer \/ Review
             \/ UNCHANGED vars
    BY <2>5, OtherStepsStay
  <2> QED
    BY <2>1, <2>2, <2>3, <2>4, <2>5 DEF Next, ProgramStep
<1> QED
  BY <1>1, <1>2, ExplanationHolds, PTL DEF Spec, ImplementsPartition,
     Partition!PartitionSpec

=============================================================================
