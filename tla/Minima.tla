------------------------------- MODULE Minima -------------------------------
(***************************************************************************)
(* Least and greatest elements: what a stable sort by a key puts first and *)
(* what a scan that keeps the first of the best values ends with; and what *)
(* loops over a list, which select or add up its elements, end with.       *)
(***************************************************************************)
EXTENDS Integers, Selections, WellFoundedInduction, TLAPS

\* A function on 1 .. n is a sequence.
LEMMA SequenceOf ==
    ASSUME NEW X, NEW n \in Nat, NEW s \in [1 .. n -> X]
    PROVE  s \in Seq(X) /\ Len(s) = n
OBVIOUS

\* A non-empty set of naturals has a least element.
LEMMA LeastNatural ==
    ASSUME NEW T \in SUBSET Nat, T # {}
    PROVE  \E x \in T : \A y \in T : x <= y
<1> DEFINE R == OpToRel(<, Nat)
<1>1. IsWellFoundedOn(R, Nat)
  BY NatLessThanWellFounded
<1>2. \E x \in T : \A y \in T : ~(<<y, x>> \in R)
  <2> HIDE DEF R
  <2> QED
    BY <1>1, WFMin
<1>3. \A x, y \in Nat : y < x => <<y, x>> \in R
  BY DEF OpToRel
<1> HIDE DEF R
<1>4. PICK x \in T : \A y \in T : ~(<<y, x>> \in R)
  BY <1>2
<1>5. ASSUME NEW y \in T PROVE x <= y
  <2>1. ~(<<y, x>> \in R)
    BY <1>4
  <2>2. ~(y < x)
    BY <2>1, <1>3
  <2> QED
    BY <2>2
<1> QED
  BY <1>5

\* Finitely many positions that are not none have a last one.
LEMMA LastPosition ==
    ASSUME NEW n \in Nat, NEW T \in SUBSET (1 .. n), T # {}
    PROVE  \E x \in T : \A y \in T : y <= x
<1> DEFINE Left == {n - y : y \in T}
<1>1. Left \in SUBSET Nat /\ Left # {}
  <2>1. \A y \in T : n - y \in Nat
    OBVIOUS
  <2>2. PICK y \in T : TRUE
    OBVIOUS
  <2>3. n - y \in Left
    BY <2>2
  <2> QED
    BY <2>1, <2>3
<1>2. PICK m \in Left : \A l \in Left : m <= l
  BY <1>1, LeastNatural
<1>3. PICK x \in T : m = n - x
  BY <1>2
<1>4. ASSUME NEW y \in T PROVE y <= x
  <2>1. n - y \in Left
    OBVIOUS
  <2>2. n - x <= n - y
    BY <1>2, <1>3, <2>1
  <2>3. x \in Int /\ y \in Int
    OBVIOUS
  <2> HIDE DEF Left
  <2> QED
    BY <2>2, <2>3
<1> QED
  BY <1>4

\* The first position, in order, of a least value.
LEMMA FirstOfLeast ==
    ASSUME NEW S, S # {}, NEW f, \A j \in S : j \in Nat, \A j \in S : f[j] \in Nat
    PROVE  \E k \in S : \A j \in S \ {k} : f[k] < f[j] \/ (f[k] = f[j] /\ k < j)
<1> DEFINE Values == {f[j] : j \in S}
<1>1. PICK i \in S : \A j \in S : f[i] <= f[j]
  <2>1. Values \in SUBSET Nat
    OBVIOUS
  <2>2. Values # {}
    OBVIOUS
  <2>3. PICK v \in Values : \A w \in Values : v <= w
    <3> HIDE DEF Values
    <3> QED
      BY <2>1, <2>2, LeastNatural
  <2>4. PICK i \in S : f[i] = v
    OBVIOUS
  <2>5. \A j \in S : f[j] \in Values
    OBVIOUS
  <2> HIDE DEF Values
  <2> QED
    BY <2>3, <2>4, <2>5
<1> DEFINE Ties == {j \in S : f[j] = f[i]}
<1>2. PICK k \in Ties : \A j \in Ties : k <= j
  <2>1. Ties \in SUBSET Nat
    OBVIOUS
  <2>2. Ties # {}
    BY <1>1
  <2> HIDE DEF Ties
  <2> QED
    BY <2>1, <2>2, LeastNatural
<1>3. k \in S /\ f[k] = f[i] /\ \A j \in S : f[j] = f[i] => k <= j
  BY <1>2
<1> HIDE DEF Values, Ties
<1>4. ASSUME NEW j \in S \ {k}
      PROVE  f[k] < f[j] \/ (f[k] = f[j] /\ k < j)
  <2>1. f[k] = f[i] /\ f[i] <= f[j] /\ k \in S /\ j # k
    BY <1>1, <1>3
  <2>2. j \in Nat /\ k \in Nat /\ f[j] \in Nat /\ f[k] \in Nat
    BY <2>1
  <2>3. CASE f[j] = f[i]
    <3>1. k <= j
      BY <2>3, <1>3
    <3> QED
      BY <2>1, <2>2, <2>3, <3>1
  <2>4. CASE f[j] # f[i]
    BY <2>1, <2>2, <2>4
  <2> QED
    BY <2>3, <2>4
<1> QED
  BY <1>3, <1>4

\* The first position, in order, of a greatest value, when there is a bound.
LEMMA FirstOfGreatest ==
    ASSUME NEW S, S # {}, NEW f, NEW top \in Nat,
           \A j \in S : j \in Nat, \A j \in S : f[j] \in Nat /\ f[j] <= top
    PROVE  \E k \in S : \A j \in S \ {k} : f[k] > f[j] \/ (f[k] = f[j] /\ k < j)
<1> DEFINE g == [j \in S |-> top - f[j]]
<1>1. \A j \in S : g[j] = top - f[j]
  OBVIOUS
<1> HIDE DEF g
<1>2. \A j \in S : g[j] \in Nat
  <2> SUFFICES ASSUME NEW j \in S PROVE g[j] \in Nat
    OBVIOUS
  <2>1. f[j] \in Nat /\ f[j] <= top /\ g[j] = top - f[j]
    BY <1>1
  <2> QED
    BY ONLY <2>1
<1>3. PICK k \in S : \A j \in S \ {k} : g[k] < g[j] \/ (g[k] = g[j] /\ k < j)
  BY <1>2, FirstOfLeast
<1>4. ASSUME NEW j \in S \ {k}
      PROVE  f[k] > f[j] \/ (f[k] = f[j] /\ k < j)
  <2>1. f[j] \in Nat /\ f[k] \in Nat /\ g[j] = top - f[j] /\ g[k] = top - f[k]
    BY <1>1
  <2>2. g[k] < g[j] \/ (g[k] = g[j] /\ k < j)
    BY <1>3
  <2> QED
    BY ONLY <2>1, <2>2
<1> QED
  BY <1>4

-----------------------------------------------------------------------------
(* Loops.                                                                  *)

\* A loop over 1 .. n, whose k-th round turns its value x into g[k][x].
LEMMA LoopExists ==
    ASSUME NEW X, NEW base \in X, NEW n \in Nat, NEW g \in [1 .. n -> [X -> X]]
    PROVE  \E f \in [0 .. n -> X] :
               /\ f[0] = base
               /\ \A k \in 1 .. n : f[k] = g[k][f[k - 1]]
<1> DEFINE Runs(f, m) ==
               /\ f \in [0 .. m -> X] /\ f[0] = base
               /\ \A k \in 1 .. m : f[k] = g[k][f[k - 1]]
           Bad == {m \in 0 .. n : ~\E f : Runs(f, m)}
<1>1. Bad = {}
  <2> SUFFICES ASSUME Bad # {} PROVE FALSE
    OBVIOUS
  <2>1. PICK m \in Bad : \A j \in Bad : m <= j
    <3>1. Bad \in SUBSET Nat
      OBVIOUS
    <3> HIDE DEF Bad
    <3> QED
      BY <3>1, LeastNatural
  <2>2. m \in 0 .. n /\ ~\E f : Runs(f, m)
    OBVIOUS
  <2>3. CASE m = 0
    <3> DEFINE f == [k \in 0 .. 0 |-> base]
    <3>1. Runs(f, 0)
      OBVIOUS
    <3> HIDE DEF f, Runs
    <3> QED
      BY <2>2, <2>3, <3>1
  <2>4. CASE m # 0
    <3>1. m \in 1 .. n /\ m - 1 \in 0 .. n /\ ~(m <= m - 1)
      BY <2>2, <2>4
    <3>2. PICK e : Runs(e, m - 1)
      <4> HIDE DEF Runs
      <4> QED
        BY <2>1, <3>1
    <3>3. e[m - 1] \in X
      <4>1. m - 1 \in 0 .. m - 1
        BY <3>1
      <4> QED
        BY <3>2, <4>1
    <3> DEFINE last == g[m][e[m - 1]]
               f == [k \in 0 .. m |-> IF k = m THEN last ELSE e[k]]
    <3>4. last \in X
      <4>1. g[m] \in [X -> X]
        BY <3>1
      <4> QED
        BY <3>3, <4>1
    <3>5. /\ \A k \in 0 .. m - 1 : k \in 0 .. m /\ k # m
          /\ \A k \in 0 .. m : k = m \/ k \in 0 .. m - 1
          /\ 0 \in 0 .. m - 1 /\ m \in 0 .. m
          /\ \A k \in 1 .. m : /\ k - 1 \in 0 .. m - 1
                               /\ k = m \/ k \in 1 .. m - 1
      BY <3>1
    <3>6. f[m] = last /\ \A k \in 0 .. m - 1 : f[k] = e[k]
      BY <3>5
    <3>7. f \in [0 .. m -> X]
      <4>1. ASSUME NEW k \in 0 .. m PROVE f[k] \in X
        <5>1. CASE k = m
          BY <3>4, <3>6, <5>1
        <5>2. CASE k # m
          <6>1. k \in 0 .. m - 1
            BY <3>5, <5>2
          <6> QED
            BY <3>2, <3>6, <6>1
        <5> QED
          BY <5>1, <5>2
      <4>2. f = [k \in 0 .. m |-> f[k]]
        OBVIOUS
      <4> HIDE DEF f
      <4> QED
        BY <4>1, <4>2
    <3> HIDE DEF f, last
    <3>8. f[0] = base
      BY <3>2, <3>5, <3>6
    <3>9. ASSUME NEW k \in 1 .. m PROVE f[k] = g[k][f[k - 1]]
      <4>1. k - 1 \in 0 .. m - 1 /\ f[k - 1] = e[k - 1]
        BY <3>5, <3>6
      <4>2. CASE k = m
        BY <3>6, <4>1, <4>2 DEF last
      <4>3. CASE k # m
        <5>1. k \in 1 .. m - 1 /\ k \in 0 .. m - 1
          BY <3>5, <3>1, <4>3
        <5> QED
          BY <3>2, <3>6, <4>1, <5>1
      <4> QED
        BY <4>2, <4>3
    <3>10. Runs(f, m)
      BY <3>7, <3>8, <3>9
    <3> HIDE DEF Runs
    <3> QED
      BY <2>2, <3>10
  <2> QED
    BY <2>3, <2>4
<1>2. \E f : Runs(f, n)
  <2>1. n \in 0 .. n
    OBVIOUS
  <2> HIDE DEF Runs
  <2> QED
    BY <1>1, <2>1
<1> QED
  BY <1>2

-----------------------------------------------------------------------------
(* Selections.                                                             *)

\* f[k] is what the loop of Selected has kept after k of n elements.
Keeps(f, s, S, n) ==
    f = [k \in 0 .. n |->
            IF k = 0 THEN <<>>
            ELSE IF k \in S THEN Append(f[k - 1], s[k]) ELSE f[k - 1]]

\* Two runs agree as long as their lists and conditions do.
LEMMA KeepsUnique ==
    ASSUME NEW s, NEW t, NEW S, NEW T, NEW m \in Nat, NEW n \in Nat,
           NEW f, NEW g, Keeps(f, s, S, m), Keeps(g, t, T, n), m <= n,
           \A k \in 1 .. m : s[k] = t[k] /\ (k \in S <=> k \in T)
    PROVE  \A k \in 0 .. m : f[k] = g[k]
<1> DEFINE Bad == {k \in 0 .. m : f[k] # g[k]}
<1> SUFFICES ASSUME Bad # {} PROVE FALSE
  OBVIOUS
<1>1. Bad \in SUBSET Nat
  OBVIOUS
<1>2. PICK k \in Bad : \A j \in Bad : k <= j
  <2> HIDE DEF Bad
  <2> QED
    BY <1>1, LeastNatural
<1>3. k \in 0 .. m /\ k \in 0 .. n /\ f[k] # g[k]
  OBVIOUS
<1>4. /\ f[k] = IF k = 0 THEN <<>>
                ELSE IF k \in S THEN Append(f[k - 1], s[k]) ELSE f[k - 1]
      /\ g[k] = IF k = 0 THEN <<>>
                ELSE IF k \in T THEN Append(g[k - 1], t[k]) ELSE g[k - 1]
  BY <1>3 DEF Keeps
<1>5. CASE k = 0
  BY <1>3, <1>4, <1>5
<1>6. CASE k # 0
  <2>1. k \in 1 .. m /\ k - 1 \in 0 .. m /\ ~(k <= k - 1)
    BY <1>3, <1>6
  <2>2. f[k - 1] = g[k - 1]
    BY <1>2, <2>1
  <2> QED
    BY <1>3, <1>4, <1>6, <2>1, <2>2
<1> QED
  BY <1>5, <1>6

\* The loop has a run over every list.
LEMMA KeepsExists ==
    ASSUME NEW s, NEW S, NEW n \in Nat
    PROVE  \E f : Keeps(f, s, S, n)
<1> DEFINE Bad == {m \in Nat : ~\E f : Keeps(f, s, S, m)}
<1> SUFFICES ASSUME Bad # {} PROVE FALSE
  OBVIOUS
<1>1. PICK m \in Bad : \A j \in Bad : m <= j
  <2>1. Bad \in SUBSET Nat
    OBVIOUS
  <2> HIDE DEF Bad
  <2> QED
    BY <2>1, LeastNatural
<1>2. m \in Nat /\ ~\E f : Keeps(f, s, S, m)
  OBVIOUS
<1>3. CASE m = 0
  <2> DEFINE f == [k \in 0 .. 0 |-> <<>>]
  <2>1. Keeps(f, s, S, 0)
    BY DEF Keeps
  <2> QED
    BY <1>2, <1>3, <2>1
<1>4. CASE m # 0
  <2>1. m - 1 \in Nat /\ ~(m <= m - 1)
    BY <1>2, <1>4
  <2>2. PICK g : Keeps(g, s, S, m - 1)
    BY <1>1, <2>1
  <2> DEFINE last == IF m \in S THEN Append(g[m - 1], s[m]) ELSE g[m - 1]
             f == [k \in 0 .. m |-> IF k = m THEN last ELSE g[k]]
  <2>3. ASSUME NEW k \in 0 .. m
        PROVE  f[k] = IF k = 0 THEN <<>>
                      ELSE IF k \in S THEN Append(f[k - 1], s[k]) ELSE f[k - 1]
    <3>1. CASE k = m
      <4>1. k # 0 /\ f[k] = last /\ k - 1 \in 0 .. m /\ k - 1 # m
        BY <1>2, <1>4, <3>1
      <4>2. f[k - 1] = g[k - 1]
        BY <4>1
      <4> QED
        BY <3>1, <4>1, <4>2
    <3>2. CASE k # m
      <4>1. k \in 0 .. m - 1 /\ f[k] = g[k]
        BY <1>2, <1>4, <3>2
      <4>2. g[k] = IF k = 0 THEN <<>>
                   ELSE IF k \in S THEN Append(g[k - 1], s[k]) ELSE g[k - 1]
        BY <2>2, <4>1 DEF Keeps
      <4>3. k # 0 => k - 1 \in 0 .. m /\ k - 1 # m
        BY <1>2, <3>2
      <4>4. k # 0 => f[k - 1] = g[k - 1]
        BY <4>3
      <4> HIDE DEF f
      <4> QED
        BY <4>1, <4>2, <4>4
    <3> QED
      BY <3>1, <3>2
  <2>4. Keeps(f, s, S, m)
    <3>1. f = [k \in 0 .. m |-> f[k]]
      OBVIOUS
    <3> HIDE DEF f
    <3> QED
      BY <2>3, <3>1 DEF Keeps
  <2> QED
    BY <1>2, <2>4
<1> QED
  BY <1>3, <1>4

\* Selected is the end of such a run.
LEMMA SelectedRun ==
    ASSUME NEW s, NEW S, Len(s) \in Nat
    PROVE  \E f : Keeps(f, s, S, Len(s)) /\ Selected(s, S) = f[Len(s)]
<1> DEFINE f == CHOOSE f : Keeps(f, s, S, Len(s))
<1>1. Keeps(f, s, S, Len(s))
  BY KeepsExists
<1>2. Selected(s, S) = f[Len(s)]
  BY DEF Selected, Keeps
<1> QED
  BY <1>1, <1>2

\* Lists and conditions that agree keep the same elements.
LEMMA SelectedAgrees ==
    ASSUME NEW s, NEW t, NEW S, NEW T, Len(s) \in Nat, Len(t) = Len(s),
           \A k \in 1 .. Len(s) : s[k] = t[k] /\ (k \in S <=> k \in T)
    PROVE  Selected(s, S) = Selected(t, T)
<1>1. PICK f : Keeps(f, s, S, Len(s)) /\ Selected(s, S) = f[Len(s)]
  BY SelectedRun
<1>2. PICK g : Keeps(g, t, T, Len(s)) /\ Selected(t, T) = g[Len(s)]
  BY SelectedRun
<1>3. \A k \in 0 .. Len(s) : f[k] = g[k]
  BY <1>1, <1>2, KeepsUnique
<1> QED
  BY <1>1, <1>2, <1>3

\* One more element is kept, or not.
LEMMA SelectedAppend ==
    ASSUME NEW X, NEW s \in Seq(X), NEW x \in X, NEW S
    PROVE  Selected(Append(s, x), S) =
               IF Len(s) + 1 \in S THEN Append(Selected(s, S), x) ELSE Selected(s, S)
<1> DEFINE t == Append(s, x)
           n == Len(s)
<1>1. /\ n \in Nat /\ Len(t) = n + 1 /\ Len(t) \in Nat /\ t[n + 1] = x
      /\ \A k \in 1 .. n : s[k] = t[k]
  OBVIOUS
<1> HIDE DEF t, n
<1>2. PICK f : Keeps(f, s, S, n) /\ Selected(s, S) = f[n]
  BY <1>1, SelectedRun DEF n
<1>3. PICK g : Keeps(g, t, S, n + 1) /\ Selected(t, S) = g[n + 1]
  BY <1>1, SelectedRun
<1>4. f[n] = g[n]
  <2> DEFINE m == n + 1
             T == S
  <2>1. m \in Nat /\ n <= m /\ n \in 0 .. n
    BY <1>1
  <2>2. \A k \in 1 .. n : s[k] = t[k] /\ (k \in S <=> k \in T)
    BY <1>1
  <2>3. Keeps(g, t, T, m)
    BY <1>3
  <2> HIDE DEF m, T
  <2>4. \A k \in 0 .. n : f[k] = g[k]
    <3>1. n \in Nat /\ m \in Nat /\ n <= m
      BY <1>1, <2>1
    <3>2. Keeps(f, s, S, n)
      BY <1>2
    <3> QED
      BY ONLY <2>2, <2>3, <3>1, <3>2, KeepsUnique
  <2> QED
    BY <2>1, <2>4
<1>5. g[n + 1] = IF n + 1 \in S THEN Append(g[n], t[n + 1]) ELSE g[n]
  <2>1. n + 1 \in 0 .. n + 1 /\ n + 1 # 0 /\ (n + 1) - 1 = n
    BY <1>1
  <2>2. g[n + 1] = IF n + 1 \in S THEN Append(g[(n + 1) - 1], t[n + 1])
                   ELSE g[(n + 1) - 1]
    BY <1>3, <2>1 DEF Keeps
  <2> QED
    BY <2>1, <2>2
<1> QED
  BY <1>1, <1>2, <1>3, <1>4, <1>5 DEF t, n

\* What is kept is of the type of the list, and nothing that should be kept
\* is missing.
LEMMA SelectedKeeps ==
    ASSUME NEW X, NEW s \in Seq(X), NEW S
    PROVE  /\ Selected(s, S) \in Seq(X)
           /\ \A k \in DOMAIN s : k \in S =>
                  \E j \in DOMAIN Selected(s, S) : Selected(s, S)[j] = s[k]
           /\ (\A k \in DOMAIN s : k \notin S) => Selected(s, S) = <<>>
<1> DEFINE n == Len(s)
<1>1. n \in Nat /\ DOMAIN s = 1 .. n /\ \A k \in 1 .. n : s[k] \in X
  OBVIOUS
<1> HIDE DEF n
<1>2. PICK f : Keeps(f, s, S, n) /\ Selected(s, S) = f[n]
  BY <1>1, SelectedRun DEF n
<1> DEFINE Right(m) ==
               /\ f[m] \in Seq(X)
               /\ \A k \in 1 .. m : k \in S => \E j \in DOMAIN f[m] : f[m][j] = s[k]
               /\ (\A k \in 1 .. m : k \notin S) => f[m] = <<>>
           Bad == {m \in 0 .. n : ~Right(m)}
<1>3. f[0] = <<>>
  BY <1>1, <1>2 DEF Keeps
<1>4. ASSUME NEW m \in 1 .. n, Right(m - 1) PROVE Right(m)
  <2>1. f[m] = IF m \in S THEN Append(f[m - 1], s[m]) ELSE f[m - 1]
    <3>1. m \in 0 .. n /\ m # 0
      BY <1>1
    <3> HIDE DEF Right
    <3> QED
      BY <1>2, <3>1 DEF Keeps
  <2>2. s[m] \in X /\ f[m - 1] \in Seq(X)
    BY <1>1, <1>4
  <2>3. CASE m \in S
    <3>1. f[m] = Append(f[m - 1], s[m])
      BY <2>1, <2>3
    <3> DEFINE old == f[m - 1]
    <3>2. /\ f[m] \in Seq(X) /\ DOMAIN f[m] = 1 .. Len(old) + 1 /\ Len(old) \in Nat
          /\ \A j \in DOMAIN old : j \in DOMAIN f[m] /\ f[m][j] = old[j]
          /\ f[m][Len(old) + 1] = s[m]
      BY <2>2, <3>1
    <3>3. ASSUME NEW k \in 1 .. m, k \in S
          PROVE  \E j \in DOMAIN f[m] : f[m][j] = s[k]
      <4>1. CASE k = m
        <5>1. Len(old) + 1 \in DOMAIN f[m]
          BY <3>2
        <5> QED
          BY <3>2, <4>1, <5>1
      <4>2. CASE k # m
        <5>1. k \in 1 .. m - 1
          BY <1>1, <4>2
        <5>2. PICK j \in DOMAIN old : old[j] = s[k]
          BY <1>4, <3>3, <5>1
        <5> QED
          BY <3>2, <5>2
      <4> QED
        BY <4>1, <4>2
    <3>4. m \in 1 .. m
      BY <1>1
    <3> QED
      BY <2>3, <3>2, <3>3, <3>4
  <2>4. CASE m \notin S
    <3>1. f[m] = f[m - 1] /\ \A k \in 1 .. m : k # m => k \in 1 .. m - 1
      BY <2>1, <2>4, <1>1
    <3>2. \A k \in 1 .. m - 1 : k \in 1 .. m
      BY <1>1
    <3> QED
      BY <1>4, <2>4, <3>1, <3>2
  <2> QED
    BY <2>3, <2>4
<1>5. Bad = {}
  <2> SUFFICES ASSUME Bad # {} PROVE FALSE
    OBVIOUS
  <2>1. PICK m \in Bad : \A j \in Bad : m <= j
    <3>1. Bad \in SUBSET Nat
      BY <1>1
    <3> HIDE DEF Bad
    <3> QED
      BY <3>1, LeastNatural
  <2>2. m \in 0 .. n /\ ~Right(m)
    OBVIOUS
  <2>3. Right(0)
    BY <1>3
  <2>4. m # 0
    BY <2>2, <2>3
  <2>5. m \in 1 .. n /\ m - 1 \in 0 .. n /\ ~(m <= m - 1)
    BY <1>1, <2>2, <2>4
  <2>6. Right(m - 1)
    BY <2>1, <2>5
  <2> HIDE DEF Right
  <2> QED
    BY <1>4, <2>2, <2>5, <2>6
<1>6. Right(n)
  <2>1. n \in 0 .. n
    BY <1>1
  <2> HIDE DEF Right
  <2> QED
    BY <1>5, <2>1
<1> QED
  BY <1>1, <1>2, <1>6

\* Nothing is kept but elements that should be.
LEMMA SelectedOnly ==
    ASSUME NEW X, NEW s \in Seq(X), NEW S
    PROVE  \A j \in DOMAIN Selected(s, S) :
               \E k \in DOMAIN s : k \in S /\ s[k] = Selected(s, S)[j]
<1> DEFINE n == Len(s)
<1>1. n \in Nat /\ DOMAIN s = 1 .. n /\ \A k \in 1 .. n : s[k] \in X
  OBVIOUS
<1> HIDE DEF n
<1>2. PICK f : Keeps(f, s, S, n) /\ Selected(s, S) = f[n]
  BY <1>1, SelectedRun DEF n
<1> DEFINE Right(m) ==
               /\ f[m] \in Seq(X)
               /\ \A j \in DOMAIN f[m] : \E k \in 1 .. m : k \in S /\ s[k] = f[m][j]
           Bad == {m \in 0 .. n : ~Right(m)}
<1>3. ASSUME NEW m \in 1 .. n, Right(m - 1) PROVE Right(m)
  <2>1. f[m] = IF m \in S THEN Append(f[m - 1], s[m]) ELSE f[m - 1]
    <3>1. m \in 0 .. n /\ m # 0
      BY <1>1
    <3> HIDE DEF Right
    <3> QED
      BY <1>2, <3>1 DEF Keeps
  <2>2. s[m] \in X /\ f[m - 1] \in Seq(X) /\ m \in 1 .. m
        /\ \A k \in 1 .. m - 1 : k \in 1 .. m
    BY <1>1, <1>3
  <2>3. CASE m \in S
    <3> DEFINE old == f[m - 1]
    <3>1. f[m] = Append(old, s[m])
      BY <2>1, <2>3
    <3>2. /\ f[m] \in Seq(X) /\ Len(old) \in Nat
          /\ \A j \in DOMAIN f[m] : j \in DOMAIN old \/ j = Len(old) + 1
          /\ \A j \in DOMAIN old : f[m][j] = old[j]
          /\ f[m][Len(old) + 1] = s[m]
      BY <2>2, <3>1
    <3> QED
      BY <1>3, <2>2, <2>3, <3>2
  <2>4. CASE m \notin S
    BY <1>3, <2>1, <2>2, <2>4
  <2> QED
    BY <2>3, <2>4
<1>4. Right(0)
  <2>1. f[0] = <<>>
    BY <1>1, <1>2 DEF Keeps
  <2> QED
    BY <2>1
<1> HIDE DEF Right
<1>5. Bad = {}
  <2> SUFFICES ASSUME Bad # {} PROVE FALSE
    OBVIOUS
  <2>1. PICK m \in Bad : \A j \in Bad : m <= j
    <3>1. Bad \in SUBSET Nat
      BY <1>1
    <3> HIDE DEF Bad
    <3> QED
      BY <3>1, LeastNatural
  <2>2. m \in 0 .. n /\ ~Right(m)
    OBVIOUS
  <2>3. m \in 1 .. n /\ m - 1 \in 0 .. n /\ ~(m <= m - 1)
    BY <1>1, <1>4, <2>2
  <2>4. Right(m - 1)
    BY <2>1, <2>3
  <2> QED
    BY <1>3, <2>2, <2>3, <2>4
<1>6. Right(n)
  BY <1>1, <1>5
<1> QED
  BY <1>1, <1>2, <1>6 DEF Right

-----------------------------------------------------------------------------
(* Sums.                                                                   *)

\* f[k] is what the loop of Total has added up after k of n numbers.
Adds(f, s, n) == f = [k \in 0 .. n |-> IF k = 0 THEN 0 ELSE f[k - 1] + s[k]]

\* Two runs agree as long as their lists do.
LEMMA AddsUnique ==
    ASSUME NEW s, NEW t, NEW m \in Nat, NEW n \in Nat, NEW f, NEW g,
           Adds(f, s, m), Adds(g, t, n), m <= n, \A k \in 1 .. m : s[k] = t[k]
    PROVE  \A k \in 0 .. m : f[k] = g[k]
<1> DEFINE Bad == {k \in 0 .. m : f[k] # g[k]}
<1> SUFFICES ASSUME Bad # {} PROVE FALSE
  OBVIOUS
<1>1. Bad \in SUBSET Nat
  OBVIOUS
<1>2. PICK k \in Bad : \A j \in Bad : k <= j
  <2> HIDE DEF Bad
  <2> QED
    BY <1>1, LeastNatural
<1>3. k \in 0 .. m /\ k \in 0 .. n /\ f[k] # g[k]
  OBVIOUS
<1>4. /\ f[k] = IF k = 0 THEN 0 ELSE f[k - 1] + s[k]
      /\ g[k] = IF k = 0 THEN 0 ELSE g[k - 1] + t[k]
  BY <1>3 DEF Adds
<1>5. CASE k = 0
  BY <1>3, <1>4, <1>5
<1>6. CASE k # 0
  <2>1. k \in 1 .. m /\ k - 1 \in 0 .. m /\ ~(k <= k - 1)
    BY <1>3, <1>6
  <2>2. f[k - 1] = g[k - 1]
    BY <1>2, <2>1
  <2> QED
    BY <1>3, <1>4, <1>6, <2>1, <2>2
<1> QED
  BY <1>5, <1>6

\* The loop has a run over every list of naturals, which stays within them.
LEMMA AddsExists ==
    ASSUME NEW s, NEW n \in Nat, \A k \in 1 .. n : s[k] \in Nat
    PROVE  \E f \in [0 .. n -> Nat] : Adds(f, s, n)
<1> DEFINE Y == Nat
           base == 0
           Add(k) == [x \in Nat |-> x + s[k]]
           g == [k \in 1 .. n |-> Add(k)]
<1>1. g \in [1 .. n -> [Nat -> Nat]]
  <2>1. ASSUME NEW k \in 1 .. n PROVE Add(k) \in [Nat -> Nat]
    OBVIOUS
  <2> HIDE DEF Add
  <2> QED
    BY <2>1
<1>2. \A k \in 1 .. n, x \in Nat : g[k][x] = x + s[k]
  OBVIOUS
<1> HIDE DEF Add, g
<1>3. base \in Y /\ n \in Nat /\ g \in [1 .. n -> [Y -> Y]]
  BY <1>1
<1> HIDE DEF Y, base
<1>4. \E f \in [0 .. n -> Y] : f[0] = base /\ \A k \in 1 .. n : f[k] = g[k][f[k - 1]]
  BY ONLY <1>3, LoopExists
<1>5. PICK f \in [0 .. n -> Nat] : f[0] = 0 /\ \A k \in 1 .. n : f[k] = g[k][f[k - 1]]
  BY <1>4 DEF Y, base
<1>6. f = [k \in 0 .. n |-> f[k]]
  OBVIOUS
<1>7. ASSUME NEW k \in 0 .. n PROVE f[k] = IF k = 0 THEN 0 ELSE f[k - 1] + s[k]
  <2>1. k # 0 => k \in 1 .. n /\ k - 1 \in 0 .. n
    OBVIOUS
  <2> QED
    BY <1>2, <1>5, <2>1
<1> QED
  BY <1>6, <1>7 DEF Adds

\* Total is the end of such a run.
LEMMA TotalRun ==
    ASSUME NEW s, NEW n \in Nat, Len(s) = n, \A k \in 1 .. n : s[k] \in Nat
    PROVE  \E f : Adds(f, s, n) /\ Total(s) = f[n] /\ f[n] \in Nat
<1> DEFINE h == CHOOSE h : Adds(h, s, n)
<1>1. PICK f \in [0 .. n -> Nat] : Adds(f, s, n)
  BY AddsExists
<1>2. Adds(h, s, n)
  BY <1>1
<1>3. Total(s) = h[n]
  BY DEF Total, Adds
<1> HIDE DEF h
<1>4. n \in 0 .. n /\ n <= n
  OBVIOUS
<1>5. h[n] = f[n]
  BY <1>1, <1>2, <1>4, AddsUnique
<1>6. f[n] \in Nat
  BY <1>4
<1> QED
  BY <1>1, <1>3, <1>5, <1>6

\* A list that is one number longer has a total that is larger by it.
LEMMA TotalGrows ==
    ASSUME NEW s, NEW t, NEW n \in Nat, Len(s) = n, Len(t) = n + 1,
           \A k \in 1 .. n : s[k] = t[k], \A k \in 1 .. n + 1 : t[k] \in Nat
    PROVE  Total(s) \in Nat /\ Total(t) = Total(s) + t[n + 1]
<1> DEFINE m == n + 1
<1>1. /\ m \in Nat /\ n <= m /\ n \in 0 .. n /\ m \in 0 .. m /\ m # 0 /\ m - 1 = n
      /\ \A k \in 1 .. n : s[k] \in Nat
  OBVIOUS
<1> HIDE DEF m
<1>2. PICK f : Adds(f, s, n) /\ Total(s) = f[n] /\ f[n] \in Nat
  BY <1>1, TotalRun
<1>3. PICK g : Adds(g, t, m) /\ Total(t) = g[m]
  BY <1>1, TotalRun DEF m
<1>4. f[n] = g[n]
  <2>1. Adds(f, s, n) /\ Adds(g, t, m) /\ n \in Nat /\ m \in Nat /\ n <= m
    BY <1>1, <1>2, <1>3
  <2>2. \A k \in 1 .. n : s[k] = t[k]
    OBVIOUS
  <2>3. \A k \in 0 .. n : f[k] = g[k]
    BY ONLY <2>1, <2>2, AddsUnique
  <2> QED
    BY <1>1, <2>3
<1>5. g[m] = g[m - 1] + t[m]
  BY <1>1, <1>3 DEF Adds
<1> QED
  BY <1>1, <1>2, <1>3, <1>4, <1>5 DEF m

\* One more number is added.
LEMMA TotalAppend ==
    ASSUME NEW s \in Seq(Nat), NEW x \in Nat
    PROVE  Total(s) \in Nat /\ Total(Append(s, x)) = Total(s) + x
<1> DEFINE t == Append(s, x)
           n == Len(s)
<1>1. /\ n \in Nat /\ Len(t) = n + 1 /\ t[n + 1] = x
      /\ \A k \in 1 .. n : s[k] = t[k] /\ s[k] \in Nat
      /\ \A k \in 1 .. n + 1 : t[k] \in Nat
  OBVIOUS
<1> HIDE DEF t, n
<1>2. n = Len(s)
  BY DEF n
<1>3. Total(s) \in Nat /\ Total(t) = Total(s) + t[n + 1]
  BY ONLY <1>1, <1>2, TotalGrows
<1> QED
  BY <1>1, <1>3 DEF t

\* Nothing adds up to 0.
LEMMA TotalEmpty == Total(<<>>) = 0
<1> DEFINE none == <<>>
           n == 0
<1>1. Len(none) = n /\ n \in Nat /\ \A k \in 1 .. n : none[k] \in Nat
  OBVIOUS
<1> HIDE DEF none
<1>2. PICK f : Adds(f, none, n) /\ Total(none) = f[n]
  BY <1>1, TotalRun
<1>3. f[0] = 0
  BY <1>2 DEF Adds
<1> QED
  BY <1>2, <1>3 DEF none

=============================================================================
