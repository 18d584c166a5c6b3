---------------------------- MODULE AgentsProofs ----------------------------
(***************************************************************************)
(* Lemmas about the checks of the two agents, for every invoice and every  *)
(* job list.                                                               *)
(***************************************************************************)
EXTENDS Agents, Minima

-----------------------------------------------------------------------------
(* The nearest candidate.                                                  *)

\* The distance to a job is a number of days or unknown.
LEMMA DistanceType ==
    ASSUME NEW inv, inv.service_date \in Int \cup {None}, NEW k \in Candidates(inv)
    PROVE  k \in Nat /\ DistanceTo(inv, k) \in Nat \cup {None}
<1>1. k \in Nat /\ Jobs(inv)[k].scheduled_date \in Int \cup {None}
  BY AgentsAssumption DEF AgentsAssumption, Candidates, Jobs
<1> DEFINE a == inv.service_date
           b == Jobs(inv)[k].scheduled_date
<1>2. a \in Int \cup {None} /\ b \in Int \cup {None}
  BY <1>1
<1> HIDE DEF a, b
<1>3. DayDistance(a, b) \in Nat \cup {None}
  BY <1>2 DEF DayDistance, Abs
<1> QED
  BY <1>1, <1>3 DEF DistanceTo, a, b

\* The stable sort puts k before l.
Precedes(inv, k, l) == NearerThan(inv, k, l) \/ (~NearerThan(inv, l, k) /\ k < l)

\* Where there are candidates, one of them is the first of the nearest: the
\* stable sort has a head, and NearestCandidate is a candidate.
LEMMA NearestExists ==
    ASSUME NEW inv, inv.service_date \in Int \cup {None}, Candidates(inv) # {}
    PROVE  /\ NearestCandidate(inv) \in Candidates(inv)
           /\ \A l \in Candidates(inv) \ {NearestCandidate(inv)} :
                  Precedes(inv, NearestCandidate(inv), l)
<1> DEFINE S == Candidates(inv)
           Dated == {k \in S : DistanceTo(inv, k) # None}
           First(k) == \A l \in S \ {k} :
                           NearerThan(inv, k, l) \/ (~NearerThan(inv, l, k) /\ k < l)
<1>1. \A k \in S : k \in Nat /\ DistanceTo(inv, k) \in Nat \cup {None}
  BY DistanceType
<1>2. \E k \in S : First(k)
  <2>1. CASE Dated # {}
    <3> DEFINE f == [k \in Dated |-> DistanceTo(inv, k)]
    <3>1. /\ \A k \in Dated : k \in S /\ k \in Nat /\ f[k] = DistanceTo(inv, k)
          /\ \A k \in Dated : f[k] # None /\ f[k] \in Nat
          /\ \A k \in S \ Dated : DistanceTo(inv, k) = None
      BY <1>1
    <3> HIDE DEF f, Dated, S
    <3>2. PICK k \in Dated : \A j \in Dated \ {k} : f[k] < f[j] \/ (f[k] = f[j] /\ k < j)
      BY <2>1, <3>1, FirstOfLeast
    <3>3. ASSUME NEW l \in S \ {k}
          PROVE  NearerThan(inv, k, l) \/ (~NearerThan(inv, l, k) /\ k < l)
      <4>1. CASE l \notin Dated
        BY <3>1, <4>1 DEF NearerThan
      <4>2. CASE l \in Dated /\ f[k] < f[l]
        BY <3>1, <4>2 DEF NearerThan
      <4>3. CASE l \in Dated /\ f[k] = f[l] /\ k < l
        <5>1. /\ DistanceTo(inv, l) = DistanceTo(inv, k) /\ DistanceTo(inv, k) # None
              /\ DistanceTo(inv, k) \in Nat
          BY <3>1, <4>3
        <5> QED
          BY <5>1, <4>3 DEF NearerThan
      <4> QED
        BY <3>2, <4>1, <4>2, <4>3
    <3> QED
      BY <3>1, <3>3
  <2>2. CASE Dated = {}
    <3>1. S \in SUBSET Nat /\ S # {} /\ \A k \in S : DistanceTo(inv, k) = None
      BY <1>1, <2>2
    <3> HIDE DEF S, Dated
    <3>2. PICK k \in S : \A l \in S : k <= l
      BY <3>1, LeastNatural
    <3>3. ASSUME NEW l \in S \ {k} PROVE ~NearerThan(inv, l, k) /\ k < l
      <4>1. k <= l /\ k # l /\ k \in Nat /\ l \in Nat
        BY <3>1, <3>2
      <4> QED
        BY <3>1, <4>1 DEF NearerThan
    <3> QED
      BY <3>3
  <2> QED
    BY <2>1, <2>2
<1> QED
  BY <1>2 DEF NearestCandidate, Precedes

\* No candidate with a date is nearer than the nearest.
LEMMA NearestIsLeast ==
    ASSUME NEW inv, inv.service_date \in Int \cup {None},
           NEW k \in Candidates(inv), DistanceTo(inv, k) # None
    PROVE  /\ NearestDays(inv) # None /\ NearestDays(inv) \in Nat
           /\ NearestDays(inv) <= DistanceTo(inv, k)
<1> DEFINE h == NearestCandidate(inv)
<1>1. h \in Candidates(inv) /\ \A l \in Candidates(inv) \ {h} : Precedes(inv, h, l)
  BY NearestExists
<1>2. /\ DistanceTo(inv, h) \in Nat \cup {None} /\ DistanceTo(inv, k) \in Nat
      /\ NearestDays(inv) = DistanceTo(inv, h)
  BY <1>1, DistanceType DEF NearestDays
<1> HIDE DEF h
<1>3. CASE k = h
  BY <1>2, <1>3
<1>4. CASE k # h
  <2>1. NearerThan(inv, h, k) \/ ~NearerThan(inv, k, h)
    BY <1>1, <1>4 DEF Precedes
  <2>2. DistanceTo(inv, h) # None /\ ~(DistanceTo(inv, k) < DistanceTo(inv, h))
    <3>1. CASE NearerThan(inv, h, k)
      <4>1. DistanceTo(inv, h) # None /\ DistanceTo(inv, h) < DistanceTo(inv, k)
        BY <3>1 DEF NearerThan
      <4> QED
        BY <1>2, <4>1
    <3>2. CASE ~NearerThan(inv, k, h)
      BY <3>2 DEF NearerThan
    <3> QED
      BY <2>1, <3>1, <3>2
  <2> QED
    BY ONLY <1>2, <2>2
<1> QED
  BY <1>3, <1>4

\* A date within the Analyst's tolerance is within the Validator's.
LEMMA CleanIsWithinStrict ==
    ASSUME NEW inv, inv.service_date \in Int \cup {None}, Candidates(inv) # {},
           WithinDays(inv, DateCleanToleranceDays)
    PROVE  WithinDays(inv, ValidatorStrictDays)
<1>1. NearestDays(inv) \in Nat \cup {None}
  BY NearestExists, DistanceType DEF NearestDays
<1>2. NearestDays(inv) # None /\ NearestDays(inv) <= 1
  BY DEF WithinDays, DateCleanToleranceDays
<1>3. NearestDays(inv) <= 3
  BY ONLY <1>1, <1>2
<1> QED
  BY <1>2, <1>3 DEF WithinDays, ValidatorStrictDays

\* The Validator agrees with every verdict the Analyst reaches on its own.
LEMMA ClearCutIsAgreed ==
    ASSUME NEW inv, inv.service_date \in Int \cup {None},
           AnalystVerdict(inv) # "ambiguous"
    PROVE  ValidatorAgrees(inv, ClearCutProposal(inv))
<1>1. ValidatorFinding(inv) = AnalystVerdict(inv)
  <2>1. CASE CustomerKnown(inv) /\ Candidates(inv) # {} /\ ~AmountOff(inv)
    <3>1. WithinDays(inv, DateCleanToleranceDays) /\ AnalystVerdict(inv) = "none"
      BY <2>1 DEF AnalystVerdict
    <3> QED
      BY <2>1, <3>1, CleanIsWithinStrict DEF ValidatorFinding
  <2>2. CASE ~(CustomerKnown(inv) /\ Candidates(inv) # {} /\ ~AmountOff(inv))
    BY <2>2 DEF AnalystVerdict, ValidatorFinding
  <2> QED
    BY <2>1, <2>2
<1>2. AnalystVerdict(inv) \in {"unknown_customer", "no_matching_job", "amount_mismatch",
                               "none"}
  BY DEF AnalystVerdict
<1> QED
  BY <1>1, <1>2 DEF ValidatorAgrees, ClearCutProposal, AnalystProposal

=============================================================================
