----------------------- MODULE CapacityTracker_proofs -----------------------
(***************************************************************************)
(* Proofs about CapacityTracker, for any node, any sessions and any number *)
(* of creations, deletions, counts and faults: the account balances, and   *)
(* it says in use no more than what is held or was lost in a known way.    *)
(***************************************************************************)
EXTENDS CapacityTracker, FiniteSetTheorems, TLAPS

\* The facts about the constants that the steps need.
LEMMA Constants ==
  /\ Total \in Amounts /\ Nothing \in Amounts
  /\ \A r \in Resources : Total[r] \in Nat /\ Nothing[r] = 0
  /\ MaxFaults \in Nat
  BY CapacityAssumption DEF Amounts, Nothing

\* What a session gets is an amount, no more than it asks for, at least one core
\* and one GB, and no more than the node has.
LEMMA NeedType ==
  ASSUME NEW s \in Sessions
  PROVE  /\ Need[s] \in Amounts /\ Asked[s] \in Amounts
         /\ \A r \in Resources : Need[s][r] <= Asked[s][r] /\ Need[s][r] <= Total[r]
         /\ Need[s]["cpu"] > 0 /\ Need[s]["mem"] > 0
<1>1. \A r \in Resources : Asked[s][r] \in Nat \ {0} /\ Total[r] \in Nat
  BY CapacityAssumption
<1>2. \A r \in Resources : /\ Need[s][r] \in Nat /\ Need[s][r] <= Asked[s][r]
                           /\ Need[s][r] <= Total[r]
  BY <1>1 DEF Need
<1>3. Need[s]["cpu"] > 0 /\ Need[s]["mem"] > 0
  BY <1>1, CapacityAssumption DEF Need, Resources
<1>4. Need[s] \in Amounts /\ Asked[s] \in Amounts
  <2>1. Need[s] = [r \in Resources |-> Need[s][r]]
    BY DEF Need
  <2>2. Asked[s] \in [Resources -> Nat \ {0}]
    BY CapacityAssumption
  <2> QED
    BY <1>2, <2>1, <2>2 DEF Amounts
<1> QED
  BY <1>2, <1>3, <1>4

\* A measure says of each session how much of each resource it has.
Measures == {f \in [Sessions -> Amounts] :
               \A s \in Sessions, r \in Resources : f[s][r] <= 2 * Total[r]}

\* What sessions get, what their pods request and what is read back from the
\* requests are measures.
LEMMA MeasureType ==
  /\ Need \in Measures /\ Requested \in Measures /\ Extracted \in Measures
  /\ \A s \in Sessions, r \in Resources : Extracted[s][r] <= Need[s][r]
<1> SUFFICES ASSUME NEW s \in Sessions, NEW r \in Resources
             PROVE  /\ Need[s][r] \in Nat /\ Need[s][r] <= 2 * Total[r]
                    /\ Requested[s][r] \in Nat /\ Requested[s][r] <= 2 * Total[r]
                    /\ Extracted[s][r] \in Nat /\ Extracted[s][r] <= 2 * Total[r]
                    /\ Extracted[s][r] <= Need[s][r]
  <2>1. Need = [s \in Sessions |-> [r \in Resources |-> Need[s][r]]]
    BY DEF Need
  <2>2. Requested = [s \in Sessions |-> [r \in Resources |-> Requested[s][r]]]
    BY DEF Requested
  <2>3. Extracted = [s \in Sessions |-> [r \in Resources |-> Extracted[s][r]]]
    BY DEF Extracted
  <2> QED
    BY <2>1, <2>2, <2>3 DEF Measures, Amounts
<1>1. Total[r] \in Nat /\ Need[s][r] \in Nat /\ Need[s][r] <= Total[r]
  BY Constants, NeedType DEF Amounts
<1>2. r # "gpu" => Need[s][r] > 0
  BY NeedType DEF Resources
<1> QED
  BY <1>1, <1>2 DEF Requested, Extracted

-----------------------------------------------------------------------------
(* Sums.  They count units, so what is known of finite sets applies.       *)

\* The units of one session are as many as it has: none is beyond the node's.
LEMMA UnitsOfOne ==
  ASSUME NEW f \in Measures, NEW s \in Sessions, NEW r \in Resources
  PROVE  IsFiniteSet(Units(f, {s}, r)) /\ Cardinality(Units(f, {s}, r)) = f[s][r]
<1> DEFINE n == f[s][r]
           g == [i \in 1..n |-> <<s, i>>]
<1>1. n \in Nat /\ 2 * Total[r] \in Nat /\ n <= 2 * Total[r]
  BY Constants DEF Measures, Amounts
<1>2. \A i \in 1..n : i \in 1..2 * Total[r] /\ i <= n
  BY <1>1
<1>3. \A i \in 1..2 * Total[r] : i <= n => i \in 1..n
  BY <1>1
<1>4. g \in [1..n -> Units(f, {s}, r)]
  BY <1>2 DEF Units
<1>5. \A i, j \in 1..n : g[i] = g[j] => i = j
  OBVIOUS
<1>6. \A u \in Units(f, {s}, r) : \E i \in 1..n : g[i] = u
  BY <1>3 DEF Units
<1>7. ExistsBijection(1..n, Units(f, {s}, r))
  <2> HIDE DEF g, n
  <2>1. g \in Injection(1..n, Units(f, {s}, r))
    BY <1>4, <1>5 DEF Injection, IsInjective
  <2>2. g \in Surjection(1..n, Units(f, {s}, r))
    BY <1>4, <1>6 DEF Surjection
  <2> QED
    BY <2>1, <2>2 DEF ExistsBijection, Bijection
<1>8. IsFiniteSet(1..n)
  BY <1>1, FS_Interval
<1> QED
  BY <1>1, <1>7, <1>8, FS_CountingElements, FS_Bijection

\* Finitely many sessions have finitely many units.
LEMMA UnitsFinite ==
  ASSUME NEW f, NEW S \in SUBSET Sessions, NEW r \in Resources
  PROVE  IsFiniteSet(Units(f, S, r))
<1>1. 2 * Total[r] \in Nat
  BY Constants
<1>2. IsFiniteSet(S) /\ IsFiniteSet(1..2 * Total[r])
  BY <1>1, CapacityAssumption, FS_Subset, FS_Interval
<1>3. IsFiniteSet(S \X (1..2 * Total[r]))
  BY <1>2, FS_Product
<1>4. Units(f, S, r) \in SUBSET (S \X (1..2 * Total[r]))
  BY DEF Units
<1> QED
  BY <1>3, <1>4, FS_Subset

\* What a set of sessions has is an amount.
LEMMA SumType == ASSUME NEW f, NEW S \in SUBSET Sessions PROVE Sum(f, S) \in Amounts
<1>1. \A r \in Resources : Cardinality(Units(f, S, r)) \in Nat
  BY UnitsFinite, FS_CardinalityType
<1> QED
  BY <1>1 DEF Sum, Amounts

\* No session has nothing.
LEMMA SumEmpty == ASSUME NEW f PROVE \A r \in Resources : Sum(f, {})[r] = 0
<1>1. \A r \in Resources : Units(f, {}, r) = {}
  BY DEF Units
<1> QED
  BY <1>1, FS_EmptySet DEF Sum

\* More sessions have no less.
LEMMA SumMonotone ==
  ASSUME NEW f, NEW T \in SUBSET Sessions, NEW S \in SUBSET T, NEW r \in Resources
  PROVE  Sum(f, S)[r] <= Sum(f, T)[r]
<1>1. Units(f, S, r) \in SUBSET Units(f, T, r)
  BY DEF Units
<1>2. Cardinality(Units(f, S, r)) <= Cardinality(Units(f, T, r))
  BY <1>1, UnitsFinite, FS_Subset
<1> QED
  BY <1>2 DEF Sum

\* The same sessions have no less by a larger measure.
LEMMA SumLarger ==
  ASSUME NEW f \in Measures, NEW g \in Measures, NEW S \in SUBSET Sessions,
         NEW r \in Resources, \A s \in Sessions : f[s][r] <= g[s][r]
  PROVE  Sum(f, S)[r] <= Sum(g, S)[r]
<1>1. Units(f, S, r) \in SUBSET Units(g, S, r)
  <2> SUFFICES ASSUME NEW u \in Units(f, S, r) PROVE u \in Units(g, S, r)
    OBVIOUS
  <2>1. u \in S \X (1..2 * Total[r]) /\ u[2] <= f[u[1]][r]
    BY DEF Units
  <2>2. u[1] \in Sessions /\ u[2] \in Nat
    BY <2>1, Constants
  <2>3. f[u[1]][r] \in Nat /\ g[u[1]][r] \in Nat /\ f[u[1]][r] <= g[u[1]][r]
    BY <2>2 DEF Measures, Amounts
  <2>4. u[2] <= g[u[1]][r]
    BY <2>1, <2>2, <2>3
  <2> QED
    BY <2>1, <2>4 DEF Units
<1>2. Cardinality(Units(f, S, r)) <= Cardinality(Units(g, S, r))
  BY <1>1, UnitsFinite, FS_Subset
<1> QED
  BY <1>2 DEF Sum

\* Two sets of sessions without a common one have the sum of what each has.
LEMMA SumUnion ==
  ASSUME NEW f, NEW S \in SUBSET Sessions, NEW T \in SUBSET Sessions, S \cap T = {},
         NEW r \in Resources
  PROVE  Sum(f, S \cup T)[r] = Sum(f, S)[r] + Sum(f, T)[r]
<1> DEFINE U == Units(f, S, r)
           V == Units(f, T, r)
<1>1. IsFiniteSet(U) /\ IsFiniteSet(V)
  BY UnitsFinite
<1>2. Units(f, S \cup T, r) = U \cup V /\ U \cap V = {}
  BY DEF Units
<1>3. Cardinality(U \cup V) = Cardinality(U) + Cardinality(V) - Cardinality(U \cap V)
  BY <1>1, FS_Union
<1>4. Cardinality(U) \in Nat /\ Cardinality(V) \in Nat /\ Cardinality(U \cap V) = 0
  BY <1>1, <1>2, FS_CardinalityType, FS_EmptySet
<1> HIDE DEF U, V
<1>5. Cardinality(U \cup V) = Cardinality(U) + Cardinality(V)
  BY <1>3, <1>4
<1> QED
  BY <1>2, <1>5 DEF Sum, U, V

\* A session adds what it has.
LEMMA SumAdd ==
  ASSUME NEW f \in Measures, NEW S \in SUBSET Sessions, NEW s \in Sessions, s \notin S,
         NEW r \in Resources
  PROVE  Sum(f, S \cup {s})[r] = Sum(f, S)[r] + f[s][r]
<1>1. {s} \in SUBSET Sessions /\ S \cap {s} = {}
  OBVIOUS
<1>2. Sum(f, {s})[r] = f[s][r]
  BY UnitsOfOne DEF Sum
<1> QED
  BY <1>1, <1>2, SumUnion

\* Pods that the scheduler finds to fit use no more GPUs and no more memory than
\* the node has when their requests are read back: each GB that is read back is
\* two requested halves.
LEMMA SchedulableFits ==
  ASSUME NEW S \in SUBSET Sessions, Schedulable(S), NEW r \in Resources, r # "cpu"
  PROVE  Sum(Extracted, S)[r] <= Total[r]
<1>1. CASE r = "gpu"
  <2>1. \A s \in Sessions : Extracted[s][r] = Requested[s][r]
    BY <1>1 DEF Extracted, Requested
  <2>2. Units(Extracted, S, r) = Units(Requested, S, r)
    BY <2>1 DEF Units
  <2>3. Sum(Extracted, S)[r] = Sum(Requested, S)[r]
    BY <2>2 DEF Sum
  <2>4. Sum(Requested, S)[r] <= 1 * Total[r] /\ Total[r] \in Nat
    BY <1>1, Constants DEF Schedulable, Halves
  <2> QED
    BY <2>3, <2>4
<1>2. CASE r = "mem"
  <2> DEFINE E == Units(Extracted, S, r)
             R == Units(Requested, S, r)
             h == [v \in E \X (0..1) |-> <<v[1][1], 2 * v[1][2] - v[2]>>]
  <2>1. \A s \in Sessions : /\ Need[s][r] \in Nat \ {0} /\ Need[s][r] <= Total[r]
                            /\ Extracted[s][r] = Need[s][r] - 1
                            /\ Requested[s][r] = 2 * Need[s][r] - 1
    <3>1. \A s \in Sessions : Need[s]["mem"] \in Nat /\ Need[s]["mem"] > 0
                              /\ Need[s]["mem"] <= Total["mem"]
      BY NeedType DEF Amounts, Resources
    <3>2. \A s \in Sessions : Need[s][r] \in Nat \ {0} /\ Need[s][r] <= Total[r]
      BY <1>2, <3>1
    <3> QED
      BY <1>2, <3>2 DEF Extracted, Requested
  <2>2. \A v \in E \X (0..1) :
          /\ v[1][1] \in S /\ v[1][2] \in Nat \ {0} /\ v[2] \in {0, 1}
          /\ v[1][2] <= Need[v[1][1]][r] - 1
    BY <2>1, Constants DEF Units
  <2>3. Total[r] \in Nat
    BY Constants
  <2>4. \A v \in E \X (0..1) : h[v] \in R
    <3> SUFFICES ASSUME NEW v \in E \X (0..1) PROVE h[v] \in R
      OBVIOUS
    <3>1. PICK n : n = Need[v[1][1]][r]
      OBVIOUS
    <3>2. n \in Nat \ {0} /\ n <= Total[r] /\ Requested[v[1][1]][r] = 2 * n - 1
      BY <2>1, <2>2, <3>1
    <3>3. PICK k, b : k = v[1][2] /\ b = v[2]
      OBVIOUS
    <3>4. k \in Nat \ {0} /\ b \in {0, 1} /\ k <= n - 1
      BY <2>2, <3>1, <3>3
    <3>5. 2 * k - b \in 1..2 * Total[r] /\ 2 * k - b <= 2 * n - 1
      BY <2>3, <3>2, <3>4
    <3>6. h[v] = <<v[1][1], 2 * k - b>>
      BY <3>3
    <3> QED
      BY <2>2, <3>2, <3>5, <3>6 DEF Units
  <2>5. \A v, w \in E \X (0..1) : h[v] = h[w] => v = w
    <3> SUFFICES ASSUME NEW v \in E \X (0..1), NEW w \in E \X (0..1), h[v] = h[w]
                 PROVE  v = w
      OBVIOUS
    <3>1. v[1][1] = w[1][1] /\ 2 * v[1][2] - v[2] = 2 * w[1][2] - w[2]
      OBVIOUS
    <3>2. v[1][2] = w[1][2] /\ v[2] = w[2]
      <4>1. \A k, l, b, c \in Nat :
              (b <= 1 /\ c <= 1 /\ 2 * k - b = 2 * l - c) => (k = l /\ b = c)
        OBVIOUS
      <4>2. /\ v[1][2] \in Nat /\ v[2] \in Nat /\ v[2] <= 1
            /\ w[1][2] \in Nat /\ w[2] \in Nat /\ w[2] <= 1
        BY <2>2
      <4> HIDE DEF h, E, R
      <4> QED
        BY <3>1, <4>1, <4>2
    <3>3. v = <<v[1], v[2]>> /\ w = <<w[1], w[2]>>
      OBVIOUS
    <3>4. v[1] = <<v[1][1], v[1][2]>> /\ w[1] = <<w[1][1], w[1][2]>>
      BY DEF Units
    <3> QED
      BY <3>1, <3>2, <3>3, <3>4
  <2>6. IsFiniteSet(E) /\ IsFiniteSet(R) /\ IsFiniteSet(0..1) /\ Cardinality(0..1) = 2
    <3>1. \A a, b \in Int : /\ IsFiniteSet(a..b)
                            /\ Cardinality(a..b) = IF a > b THEN 0 ELSE b - a + 1
      BY FS_Interval
    <3>2. 0 \in Int /\ 1 \in Int /\ ~(0 > 1) /\ 1 - 0 + 1 = 2
      OBVIOUS
    <3>3. Cardinality(0..1) = 1 - 0 + 1 /\ IsFiniteSet(0..1)
      BY <3>1, <3>2, Zenon
    <3> QED
      BY <3>2, <3>3, UnitsFinite
  <2>7. /\ IsFiniteSet(E \X (0..1))
        /\ Cardinality(E \X (0..1)) = Cardinality(E) * Cardinality(0..1)
    BY <2>6, FS_Product
  <2>8. Cardinality(E \X (0..1)) <= Cardinality(R)
    <3> HIDE DEF h, E, R
    <3>1. h \in [E \X (0..1) -> R]
      BY <2>4 DEF h
    <3>2. h \in Injection(E \X (0..1), R)
      BY <2>5, <3>1 DEF Injection, IsInjective
    <3> QED
      BY <2>6, <2>7, <3>2, FS_Injection DEF ExistsInjection
  <2>9. Cardinality(R) <= 2 * Total[r]
    BY <1>2 DEF Schedulable, Halves, Sum
  <2>10. Cardinality(E) \in Nat /\ Cardinality(R) \in Nat
    BY <2>6, FS_CardinalityType
  <2> HIDE DEF E, R
  <2>11. Cardinality(E) <= Total[r]
    BY <2>3, <2>6, <2>7, <2>8, <2>9, <2>10
  <2> QED
    BY <2>11 DEF Sum, E
<1> QED
  BY <1>1, <1>2 DEF Resources

-----------------------------------------------------------------------------
(* The three ways to change the account.                                   *)

\* A reservation, or one that fails and is rolled back, keeps the balance.
LEMMA AllocateKeepsBalance ==
  ASSUME AccountTypeOK, AccountBalances, NEW s \in Sessions, AllocateResources(s)
  PROVE  AccountTypeOK' /\ AccountBalances'
<1> DEFINE R(r) == Reserved(s, r)
<1>1. \A r \in Resources : Need[s][r] \in Nat /\ avail[r] \in Nat /\ inUse[r] \in Nat
  BY NeedType DEF AccountTypeOK, Amounts
<1>2. \A r \in Resources : R(r) \in Nat
  BY <1>1 DEF Reserved
<1>3. \A r \in Resources : GivenBack(s, r) = R(r)
  BY DEF GivenBack
<1> HIDE DEF R
<1>4. CASE Fits(s)
  <2>1. /\ avail' = [r \in Resources |-> avail[r] - Need[s][r]]
        /\ inUse' = [r \in Resources |-> inUse[r] + Need[s][r]]
    BY <1>4 DEF AllocateResources
  <2>2. \A r \in Resources : Need[s][r] <= avail[r]
    BY <1>4 DEF Fits
  <2>3. \A r \in Resources : avail[r] - Need[s][r] \in Nat /\ inUse[r] + Need[s][r] \in Nat
    BY <1>1, <2>2
  <2>4. \A r \in Resources :
          /\ (avail[r] - Need[s][r]) + (inUse[r] + Need[s][r]) = avail[r] + inUse[r]
          /\ avail[r] - Need[s][r] <= avail[r]
    BY <1>1
  <2>5. \A r \in Resources : /\ avail'[r] = avail[r] - Need[s][r]
                             /\ inUse'[r] = inUse[r] + Need[s][r]
    BY <2>1
  <2>6. \A r \in Resources : avail'[r] <= Total[r]
    <3>1. \A r \in Resources : avail[r] <= Total[r] /\ Total[r] \in Nat
      BY Constants DEF AccountBalances
    <3> QED
      BY <1>1, <2>3, <2>4, <2>5, <3>1
  <2>7. \A r \in Resources : avail'[r] + inUse'[r] = avail[r] + inUse[r]
    BY <2>4, <2>5
  <2>8. AccountTypeOK'
    BY <2>1, <2>3 DEF AccountTypeOK, Amounts
  <2> QED
    BY <2>6, <2>7, <2>8 DEF AccountBalances
<1>5. CASE ~Fits(s)
  <2>1. /\ avail' = [r \in Resources |-> avail[r] - R(r) + R(r)]
        /\ inUse' = [r \in Resources |-> inUse[r] + R(r) - R(r)]
    BY <1>3, <1>5 DEF AllocateResources, R
  <2>2. \A r \in Resources : avail[r] - R(r) + R(r) = avail[r] /\ inUse[r] + R(r) - R(r) = inUse[r]
    BY <1>1, <1>2
  <2>3. avail' = avail /\ inUse' = inUse
    BY <2>1, <2>2 DEF AccountTypeOK, Amounts
  <2> QED
    BY <2>3 DEF AccountTypeOK, AccountBalances
<1> QED
  BY <1>4, <1>5

\* A release of any amount keeps the balance: both clamps are hit together.
LEMMA ReleaseKeepsBalance ==
  ASSUME AccountTypeOK, AccountBalances, NEW amounts \in Amounts, ReleaseResources(amounts)
  PROVE  AccountTypeOK' /\ AccountBalances'
<1>1. \A r \in Resources : /\ amounts[r] \in Nat /\ avail[r] \in Nat /\ inUse[r] \in Nat
                           /\ Total[r] \in Nat /\ avail[r] + inUse[r] >= Total[r]
                           /\ avail[r] <= Total[r]
                           /\ r # "cpu" => avail[r] + inUse[r] = Total[r]
  BY Constants DEF AccountTypeOK, AccountBalances, Amounts
<1>2. /\ avail' = [r \in Resources |-> IF avail[r] + amounts[r] > Total[r]
                                         THEN Total[r] ELSE avail[r] + amounts[r]]
      /\ inUse' = [r \in Resources |-> IF inUse[r] < amounts[r]
                                         THEN 0 ELSE inUse[r] - amounts[r]]
  BY DEF ReleaseResources, Decrement
<1>3. \A r \in Resources :
        /\ avail'[r] = IF avail[r] + amounts[r] > Total[r] THEN Total[r] ELSE avail[r] + amounts[r]
        /\ inUse'[r] = IF inUse[r] < amounts[r] THEN 0 ELSE inUse[r] - amounts[r]
  BY <1>2
<1>4. \A r \in Resources : avail'[r] \in Nat /\ inUse'[r] \in Nat
  BY <1>1, <1>3
<1>5. \A r \in Resources : avail'[r] <= Total[r] /\ avail'[r] + inUse'[r] >= Total[r]
  BY <1>1, <1>3
<1>6. \A r \in Resources : r # "cpu" => avail'[r] + inUse'[r] = Total[r]
  BY <1>1, <1>3
<1> QED
  BY <1>2, <1>4, <1>5, <1>6 DEF AccountTypeOK, AccountBalances, Amounts

\* A count of pods that fit the node makes a new account.  Only its cores may be
\* more than the node has.
LEMMA CountedBalances ==
  ASSUME NEW S \in SUBSET Sessions, Schedulable(S), Counted(S)
  PROVE  AccountTypeOK' /\ AccountBalances' /\ LostTypeOK'
<1> DEFINE used == Sum(Extracted, S)
<1>1. \A r \in Resources : used[r] \in Nat /\ Total[r] \in Nat
  BY SumType, Constants DEF Amounts
<1>2. used \in Amounts
  BY SumType
<1>3. \A r \in Resources : r # "cpu" => used[r] <= Total[r]
  BY SchedulableFits
<1>4. /\ inUse' = used
      /\ avail' = [r \in Resources |-> IF used[r] > Total[r] THEN 0 ELSE Total[r] - used[r]]
  BY DEF Counted
<1>5. LostTypeOK'
  <2>1. S \ Held' \in SUBSET Sessions
    OBVIOUS
  <2> QED
    BY <2>1, SumType DEF Counted, LostTypeOK
<1> HIDE DEF used
<1>6. \A r \in Resources :
        /\ inUse'[r] = used[r]
        /\ avail'[r] = IF used[r] > Total[r] THEN 0 ELSE Total[r] - used[r]
  BY <1>4
<1>7. \A r \in Resources : /\ avail'[r] \in Nat /\ avail'[r] <= Total[r]
                           /\ avail'[r] + inUse'[r] >= Total[r]
  BY <1>1, <1>6
<1>8. \A r \in Resources : r # "cpu" => avail'[r] + inUse'[r] = Total[r]
  BY <1>1, <1>3, <1>6
<1>9. AccountTypeOK'
  BY <1>2, <1>4, <1>7 DEF AccountTypeOK, Amounts
<1> QED
  BY <1>5, <1>7, <1>8, <1>9 DEF AccountBalances

\* What is lost stays an amount.
LEMMA LoseType ==
  ASSUME LostTypeOK, NEW s \in Sessions, NEW amounts \in Amounts,
         \A r \in Resources : amounts[r] <= Need[s][r], Lose(s, amounts)
  PROVE  LostTypeOK'
<1>1. \A r \in Resources : /\ lost[r] \in Nat /\ amounts[r] \in Nat /\ Need[s][r] \in Nat
                           /\ amounts[r] <= Need[s][r]
  BY NeedType DEF LostTypeOK, Amounts
<1>2. \A r \in Resources : lost[r] + (Need[s][r] - amounts[r]) \in Nat /\ lost[r] + 0 \in Nat
  BY <1>1
<1> QED
  BY <1>2 DEF LostTypeOK, Lose, Amounts

\* What can be released for a session: nothing, or its pod's requests.
LEMMA Releasable ==
  ASSUME NEW s \in Sessions
  PROVE  /\ Nothing \in Amounts /\ \A r \in Resources : Nothing[r] <= Need[s][r]
         /\ Extracted[s] \in Amounts /\ \A r \in Resources : Extracted[s][r] <= Need[s][r]
<1>1. \A r \in Resources : Need[s][r] \in Nat /\ Nothing[r] = 0
  BY NeedType, Constants DEF Amounts
<1>2. \A r \in Resources : Nothing[r] <= Need[s][r]
  BY <1>1
<1> QED
  BY <1>2, Constants, MeasureType DEF Measures

\* Starting a copy keeps the goroutines' type.
LEMMA StartSyncType ==
  ASSUME CopyTypeOK, StartSync
  PROVE  sync' \in [Syncs -> [pc: {"idle", "read", "write"}, gpus: Nat]]
  BY DEF CopyTypeOK, StartSync

\* A counted fault stays within its bound.
LEMMA FaultType ==
  ASSUME BoundsTypeOK, Fault \/ faults' = faults PROVE faults' \in 0..MaxFaults
  BY Constants DEF BoundsTypeOK, Fault

-----------------------------------------------------------------------------
(* The steps.                                                              *)

\* No pods fit.
LEMMA NothingFits == Schedulable({})
<1>1. \A r \in Resources : Halves(r) * Total[r] \in Nat
  BY Constants DEF Halves
<1>2. \A r \in Resources : Sum(Requested, {})[r] = 0
  BY SumEmpty
<1> QED
  BY <1>1, <1>2 DEF Schedulable

\* An empty node is in balance.
LEMMA InitIInv == Init => IInv
<1> SUFFICES ASSUME Init PROVE IInv
  OBVIOUS
<1>1. TypeOK
  <2>1. AccountTypeOK /\ ClusterTypeOK
    BY Constants DEF Init, AccountTypeOK, ClusterTypeOK, Phases
  <2>2. WorkTypeOK
    BY DEF Init, WorkTypeOK, NotCreating, NONE
  <2>3. CopyTypeOK
    BY Constants DEF Init, CopyTypeOK, NotCounted, NoSync, Resources
  <2>4. BoundsTypeOK
    BY Constants DEF Init, BoundsTypeOK
  <2>5. LostTypeOK
    BY Constants DEF Init, LostTypeOK
  <2> QED
    BY <2>1, <2>2, <2>3, <2>4, <2>5 DEF TypeOK
<1>2. AccountBalances
  <2>1. \A r \in Resources : avail[r] = Total[r] /\ inUse[r] = 0 /\ Total[r] \in Nat
    BY Constants DEF Init
  <2> QED
    BY <2>1 DEF AccountBalances
<1>3. RunningFits
  BY NothingFits DEF Init, Running, RunningFits
<1>4. CountFits
  BY NothingFits DEF Init, CountFits, NotCounted
<1> QED
  BY <1>1, <1>2, <1>3, <1>4 DEF IInv

\* What the steps that leave the pods' phases and the count alone do not disturb.
LEMMA FitsUnchanged ==
  ASSUME IInv, UNCHANGED <<pods, count>> PROVE RunningFits' /\ CountFits'
  BY DEF IInv, RunningFits, CountFits, Running, Schedulable

\* A reservation.
LEMMA StepCreate ==
  ASSUME IInv, NEW s \in Sessions, Create(s)
  PROVE  IInv'
<1>1. AccountTypeOK' /\ AccountBalances'
  <2>1. CASE AllocateResources(s)
    BY <2>1, AllocateKeepsBalance DEF IInv, TypeOK
  <2>2. CASE UNCHANGED account
    BY <2>2 DEF IInv, TypeOK, AccountTypeOK, AccountBalances, account
  <2> QED
    BY <2>1, <2>2 DEF Create
<1>2. ClusterTypeOK'
  BY DEF IInv, TypeOK, ClusterTypeOK, Create, cluster
<1>3. WorkTypeOK'
  BY DEF IInv, TypeOK, WorkTypeOK, Create
<1>4. CopyTypeOK'
  BY StartSyncType DEF IInv, TypeOK, CopyTypeOK, Create
<1>5. BoundsTypeOK'
  BY FaultType DEF IInv, TypeOK, BoundsTypeOK, Create
<1>6. RunningFits' /\ CountFits'
  BY FitsUnchanged DEF Create, cluster
<1>7. LostTypeOK'
  <2>1. \A r \in Resources : lost[r] + Need[s][r] \in Nat /\ lost[r] + 0 \in Nat
    BY NeedType DEF IInv, TypeOK, LostTypeOK, Amounts
  <2> QED
    BY <2>1 DEF IInv, TypeOK, LostTypeOK, Amounts, Create
<1> QED
  BY <1>1, <1>2, <1>3, <1>4, <1>5, <1>6, <1>7 DEF IInv, TypeOK

\* The secret is created, found, or the creation is given up.
LEMMA StepCreateSecret ==
  ASSUME IInv, CreateSecret
  PROVE  IInv'
<1>1. AccountTypeOK' /\ AccountBalances'
  BY DEF IInv, TypeOK, AccountTypeOK, AccountBalances, CreateSecret, account
<1>2. ClusterTypeOK'
  BY DEF IInv, TypeOK, ClusterTypeOK, WorkTypeOK, CreateSecret
<1>3. WorkTypeOK'
  BY DEF IInv, TypeOK, WorkTypeOK, CreateSecret, NotCreating
<1>4. CopyTypeOK'
  BY DEF IInv, TypeOK, CopyTypeOK, CreateSecret
<1>5. BoundsTypeOK'
  BY FaultType DEF IInv, TypeOK, BoundsTypeOK, CreateSecret
<1>6. RunningFits' /\ CountFits'
  BY FitsUnchanged DEF CreateSecret
<1>7. LostTypeOK'
  BY DEF IInv, TypeOK, LostTypeOK, CreateSecret
<1> QED
  BY <1>1, <1>2, <1>3, <1>4, <1>5, <1>6, <1>7 DEF IInv, TypeOK

\* What runs after a step is part of what ran before it: it still fits.
LEMMA FewerRunFits ==
  ASSUME IInv, \A s \in Sessions : pods'[s] = "running" => pods[s] = "running"
  PROVE  RunningFits'
<1>1. Running' \subseteq Running /\ Running \in SUBSET Sessions /\ Running' \in SUBSET Sessions
  BY DEF Running
<1>2. \A r \in Resources : Sum(Requested, Running')[r] <= Sum(Requested, Running)[r]
  BY <1>1, SumMonotone
<1>3. \A r \in Resources : Sum(Requested, Running)[r] <= Halves(r) * Total[r]
  BY DEF IInv, RunningFits, Schedulable
<1>4. \A r \in Resources : /\ Sum(Requested, Running)[r] \in Nat
                           /\ Sum(Requested, Running')[r] \in Nat
                           /\ Halves(r) * Total[r] \in Nat
  BY <1>1, SumType, Constants DEF Amounts, Halves
<1>5. \A r \in Resources : Sum(Requested, Running')[r] <= Halves(r) * Total[r]
  BY <1>2, <1>3, <1>4
<1> QED
  BY <1>5 DEF RunningFits, Schedulable

\* The pod is created (it is pending), or the creation is given up.
LEMMA StepCreatePod ==
  ASSUME IInv, CreatePod
  PROVE  IInv'
<1>1. AccountTypeOK' /\ AccountBalances'
  BY DEF IInv, TypeOK, AccountTypeOK, AccountBalances, CreatePod, account
<1>2. ClusterTypeOK'
  BY DEF IInv, TypeOK, ClusterTypeOK, CreatePod, Phases
<1>3. WorkTypeOK'
  BY DEF IInv, TypeOK, WorkTypeOK, CreatePod, NotCreating
<1>4. CopyTypeOK'
  BY DEF IInv, TypeOK, CopyTypeOK, CreatePod
<1>5. BoundsTypeOK'
  BY FaultType DEF IInv, TypeOK, BoundsTypeOK, CreatePod
<1>6. RunningFits'
  BY FewerRunFits DEF IInv, TypeOK, ClusterTypeOK, CreatePod
<1>7. CountFits'
  BY DEF IInv, CountFits, Schedulable, CreatePod
<1>8. LostTypeOK'
  BY DEF IInv, TypeOK, LostTypeOK, CreatePod
<1> QED
  BY <1>1, <1>2, <1>3, <1>4, <1>5, <1>6, <1>7, <1>8 DEF IInv, TypeOK

\* A creation that failed gives back what it reserved.
LEMMA StepCreateUndo ==
  ASSUME IInv, CreateUndo
  PROVE  IInv'
<1>1. AccountTypeOK' /\ AccountBalances'
  <2>1. CASE ReleaseResources(Need[creating.s])
    <3>1. creating.s \in Sessions
      BY DEF IInv, TypeOK, WorkTypeOK, CreateUndo
    <3> QED
      BY <2>1, <3>1, NeedType, ReleaseKeepsBalance DEF IInv, TypeOK
  <2>2. CASE UNCHANGED account
    BY <2>2 DEF IInv, TypeOK, AccountTypeOK, AccountBalances, account
  <2> QED
    BY <2>1, <2>2 DEF CreateUndo
<1>2. ClusterTypeOK'
  BY DEF IInv, TypeOK, ClusterTypeOK, CreateUndo, cluster
<1>3. WorkTypeOK'
  BY DEF IInv, TypeOK, WorkTypeOK, CreateUndo, NotCreating
<1>4. CopyTypeOK'
  BY StartSyncType DEF IInv, TypeOK, CopyTypeOK, CreateUndo, ReleaseResources
<1>5. BoundsTypeOK'
  BY DEF IInv, TypeOK, BoundsTypeOK, CreateUndo, bounds
<1>6. RunningFits' /\ CountFits'
  BY FitsUnchanged DEF CreateUndo, cluster
<1>7. LostTypeOK'
  BY DEF IInv, TypeOK, LostTypeOK, CreateUndo
<1> QED
  BY <1>1, <1>2, <1>3, <1>4, <1>5, <1>6, <1>7 DEF IInv, TypeOK

\* A deletion touches the account only later, in DeleteRelease.
LEMMA StepDelete ==
  ASSUME IInv, NEW s \in Sessions, Delete(s)
  PROVE  IInv'
<1>1. AccountTypeOK' /\ AccountBalances'
  BY DEF IInv, TypeOK, AccountTypeOK, AccountBalances, Delete, account
<1>2. ClusterTypeOK'
  BY DEF IInv, TypeOK, ClusterTypeOK, Delete, Terminate
<1>3. WorkTypeOK'
  BY DEF IInv, TypeOK, WorkTypeOK, Delete
<1>4. CopyTypeOK'
  BY DEF IInv, TypeOK, CopyTypeOK, Delete
<1>5. BoundsTypeOK'
  BY FaultType DEF IInv, TypeOK, BoundsTypeOK, Delete
<1>6. RunningFits' /\ CountFits'
  BY FitsUnchanged DEF Delete
<1>7. LostTypeOK'
  BY LoseType, Releasable DEF IInv, TypeOK, Delete
<1> QED
  BY <1>1, <1>2, <1>3, <1>4, <1>5, <1>6, <1>7 DEF IInv, TypeOK

\* The release that follows a deletion.
LEMMA StepDeleteRelease ==
  ASSUME IInv, NEW s \in Sessions, DeleteRelease(s)
  PROVE  IInv'
<1>1. AccountTypeOK' /\ AccountBalances' /\ LostTypeOK'
  <2>1. CASE ReleaseResources(Asked[s]) /\ UNCHANGED lost
    BY <2>1, NeedType, ReleaseKeepsBalance DEF IInv, TypeOK, LostTypeOK
  <2>2. CASE UNCHANGED account /\ Lose(s, Nothing)
    BY <2>2, LoseType, Releasable
    DEF IInv, TypeOK, AccountTypeOK, AccountBalances, account
  <2> QED
    BY <2>1, <2>2 DEF DeleteRelease
<1>2. ClusterTypeOK'
  BY DEF IInv, TypeOK, ClusterTypeOK, DeleteRelease, cluster
<1>3. WorkTypeOK'
  BY DEF IInv, TypeOK, WorkTypeOK, DeleteRelease
<1>4. CopyTypeOK'
  BY StartSyncType DEF IInv, TypeOK, CopyTypeOK, DeleteRelease, ReleaseResources
<1>5. BoundsTypeOK'
  BY FaultType DEF IInv, TypeOK, BoundsTypeOK, DeleteRelease
<1>6. RunningFits' /\ CountFits'
  BY FitsUnchanged DEF DeleteRelease, cluster
<1> QED
  BY <1>1, <1>2, <1>3, <1>4, <1>5, <1>6 DEF IInv, TypeOK

\* The monitor's list.
LEMMA StepCheckCluster ==
  ASSUME IInv, CheckCluster
  PROVE  IInv'
<1>1. AccountTypeOK' /\ AccountBalances'
  BY DEF IInv, TypeOK, AccountTypeOK, AccountBalances, CheckCluster, account
<1>2. ClusterTypeOK'
  BY DEF IInv, TypeOK, ClusterTypeOK, CheckCluster, cluster
<1>3. WorkTypeOK'
  BY DEF IInv, TypeOK, WorkTypeOK, CheckCluster
<1>4. CopyTypeOK'
  BY DEF IInv, TypeOK, CopyTypeOK, CheckCluster
<1>5. BoundsTypeOK'
  <2>1. \A s \in Sessions : deletes[s] + 1 \in Nat /\ deletes[s] + 0 \in Nat
    BY DEF IInv, TypeOK, BoundsTypeOK
  <2> QED
    BY <2>1 DEF IInv, TypeOK, BoundsTypeOK, CheckCluster
<1>6. RunningFits' /\ CountFits'
  BY FitsUnchanged DEF CheckCluster, cluster
<1>7. LostTypeOK'
  BY DEF IInv, TypeOK, LostTypeOK, CheckCluster
<1> QED
  BY <1>1, <1>2, <1>3, <1>4, <1>5, <1>6, <1>7 DEF IInv, TypeOK

\* The monitor releases, if the pod had a node, and deletes.
LEMMA StepReap ==
  ASSUME IInv, NEW s \in Sessions, Reap(s)
  PROVE  IInv'
<1>1. AccountTypeOK' /\ AccountBalances' /\ LostTypeOK'
  <2>1. CASE ReleaseResources(Extracted[s]) /\ Lose(s, Extracted[s])
    BY <2>1, Releasable, ReleaseKeepsBalance, LoseType DEF IInv, TypeOK
  <2>2. CASE UNCHANGED account /\ Lose(s, Nothing)
    BY <2>2, LoseType, Releasable
    DEF IInv, TypeOK, AccountTypeOK, AccountBalances, account
  <2> QED
    BY <2>1, <2>2 DEF Reap
<1>2. ClusterTypeOK'
  BY DEF IInv, TypeOK, ClusterTypeOK, Reap, Terminate
<1>3. WorkTypeOK'
  BY DEF IInv, TypeOK, WorkTypeOK, Reap
<1>4. CopyTypeOK'
  BY StartSyncType DEF IInv, TypeOK, CopyTypeOK, Reap, ReleaseResources
<1>5. BoundsTypeOK'
  BY FaultType DEF IInv, TypeOK, BoundsTypeOK, Reap
<1>6. RunningFits' /\ CountFits'
  BY FitsUnchanged DEF Reap
<1> QED
  BY <1>1, <1>2, <1>3, <1>4, <1>5, <1>6 DEF IInv, TypeOK

\* What DiscoverCapacity counts fits the node.
LEMMA CountUsedFits ==
  ASSUME IInv, NEW S \in {CountUsed, {}}
  PROVE  S \in SUBSET Sessions /\ Schedulable(S)
  BY NothingFits DEF IInv, RunningFits, CountUsed, Running

\* Counting only sets the count.
LEMMA StepDiscover ==
  ASSUME IInv, Discover
  PROVE  IInv'
<1>1. AccountTypeOK' /\ AccountBalances' /\ LostTypeOK'
  BY DEF IInv, TypeOK, AccountTypeOK, LostTypeOK, AccountBalances, Discover, account
<1>2. ClusterTypeOK' /\ WorkTypeOK'
  BY DEF IInv, TypeOK, ClusterTypeOK, WorkTypeOK, Discover, cluster
<1>3. PICK S \in {CountUsed, {}} : count' = [known |-> TRUE, pods |-> S]
  BY DEF Discover
<1>4. S \in SUBSET Sessions /\ Schedulable(S)
  BY CountUsedFits
<1>5. CopyTypeOK'
  BY <1>3, <1>4 DEF IInv, TypeOK, CopyTypeOK, Discover
<1>6. BoundsTypeOK'
  BY FaultType DEF IInv, TypeOK, BoundsTypeOK, Discover
<1>7. RunningFits'
  BY FewerRunFits DEF Discover, cluster
<1>8. CountFits'
  BY <1>3, <1>4 DEF CountFits, Schedulable
<1> QED
  BY <1>1, <1>2, <1>5, <1>6, <1>7, <1>8 DEF IInv, TypeOK

\* The count becomes the account.
LEMMA StepStoreCapacity ==
  ASSUME IInv, StoreCapacity
  PROVE  IInv'
<1>1. AccountTypeOK' /\ AccountBalances' /\ LostTypeOK'
  <2>1. count.pods \in SUBSET Sessions /\ Schedulable(count.pods) /\ Counted(count.pods)
    BY DEF IInv, TypeOK, CopyTypeOK, CountFits, StoreCapacity
  <2> QED
    BY <2>1, CountedBalances
<1>2. ClusterTypeOK' /\ WorkTypeOK'
  BY DEF IInv, TypeOK, ClusterTypeOK, WorkTypeOK, StoreCapacity, cluster
<1>3. CopyTypeOK'
  BY StartSyncType DEF IInv, TypeOK, CopyTypeOK, StoreCapacity, NotCounted
<1>4. BoundsTypeOK'
  BY DEF IInv, TypeOK, BoundsTypeOK, StoreCapacity, bounds
<1>5. RunningFits'
  BY FewerRunFits DEF StoreCapacity, cluster
<1>6. CountFits'
  BY NothingFits DEF CountFits, Schedulable, StoreCapacity, NotCounted
<1> QED
  BY <1>1, <1>2, <1>3, <1>4, <1>5, <1>6 DEF IInv, TypeOK

\* Copying to the database.
LEMMA StepSync ==
  ASSUME IInv, NEW g \in Syncs, SyncRead(g) \/ SyncWrite(g)
  PROVE  IInv'
<1>1. AccountTypeOK' /\ AccountBalances'
  BY DEF IInv, TypeOK, AccountTypeOK, AccountBalances, SyncRead, SyncWrite, account
<1>2. ClusterTypeOK' /\ WorkTypeOK'
  BY DEF IInv, TypeOK, ClusterTypeOK, WorkTypeOK, SyncRead, SyncWrite, cluster
<1>3. CopyTypeOK'
  <2>1. avail["gpu"] \in Nat /\ sync[g].gpus \in Nat
    BY DEF IInv, TypeOK, AccountTypeOK, CopyTypeOK, Amounts, Resources
  <2> QED
    BY <2>1 DEF IInv, TypeOK, CopyTypeOK, SyncRead, SyncWrite, NoSync
<1>4. BoundsTypeOK'
  BY FaultType DEF IInv, TypeOK, BoundsTypeOK, SyncRead, SyncWrite, bounds
<1>5. RunningFits' /\ CountFits'
  BY FitsUnchanged DEF SyncRead, SyncWrite, cluster
<1>6. LostTypeOK'
  BY DEF IInv, TypeOK, LostTypeOK, SyncRead, SyncWrite
<1> QED
  BY <1>1, <1>2, <1>3, <1>4, <1>5, <1>6 DEF IInv, TypeOK

\* The scheduler starts only what fits.
LEMMA StepPodStarts ==
  ASSUME IInv, NEW s \in Sessions, PodStarts(s)
  PROVE  IInv'
<1>1. AccountTypeOK' /\ AccountBalances'
  BY DEF IInv, TypeOK, AccountTypeOK, AccountBalances, PodStarts, account
<1>2. ClusterTypeOK' /\ WorkTypeOK'
  BY DEF IInv, TypeOK, ClusterTypeOK, WorkTypeOK, PodStarts, Phases
<1>3. CopyTypeOK' /\ BoundsTypeOK'
  BY DEF IInv, TypeOK, CopyTypeOK, BoundsTypeOK, PodStarts, bounds
<1>4. RunningFits'
  <2>1. Running' = Running \cup {s}
    BY DEF IInv, TypeOK, ClusterTypeOK, PodStarts, Running
  <2> QED
    BY <2>1 DEF PodStarts, RunningFits, Schedulable
<1>5. CountFits'
  BY DEF IInv, CountFits, Schedulable, PodStarts
<1>6. LostTypeOK'
  BY DEF IInv, TypeOK, LostTypeOK, PodStarts
<1> QED
  BY <1>1, <1>2, <1>3, <1>4, <1>5, <1>6 DEF IInv, TypeOK

\* Pods end.
LEMMA StepPodEnds ==
  ASSUME IInv, NEW s \in Sessions, PodExits(s) \/ PodRemoved(s)
  PROVE  IInv'
<1>1. AccountTypeOK' /\ AccountBalances'
  BY DEF IInv, TypeOK, AccountTypeOK, AccountBalances, PodExits, PodRemoved, account
<1>2. ClusterTypeOK' /\ WorkTypeOK'
  BY DEF IInv, TypeOK, ClusterTypeOK, WorkTypeOK, PodExits, PodRemoved, Phases
<1>3. CopyTypeOK' /\ BoundsTypeOK'
  BY DEF IInv, TypeOK, CopyTypeOK, BoundsTypeOK, PodExits, PodRemoved, bounds
<1>4. RunningFits'
  BY FewerRunFits DEF IInv, TypeOK, ClusterTypeOK, PodExits, PodRemoved
<1>5. CountFits'
  BY DEF IInv, CountFits, Schedulable, PodExits, PodRemoved
<1>6. LostTypeOK'
  BY DEF IInv, TypeOK, LostTypeOK, PodExits, PodRemoved
<1> QED
  BY <1>1, <1>2, <1>3, <1>4, <1>5, <1>6 DEF IInv, TypeOK

\* A restart counts again.
LEMMA StepCrash ==
  ASSUME IInv, Crash
  PROVE  IInv'
<1>1. PICK S \in {CountUsed, {}} : Counted(S)
  BY DEF Crash
<1>2. AccountTypeOK' /\ AccountBalances' /\ LostTypeOK'
  BY <1>1, CountUsedFits, CountedBalances
<1>3. ClusterTypeOK'
  BY DEF IInv, TypeOK, ClusterTypeOK, Crash, cluster
<1>4. WorkTypeOK'
  BY DEF WorkTypeOK, Crash, NotCreating
<1>5. CopyTypeOK'
  <2>1. avail'["gpu"] \in Nat
    BY <1>2 DEF AccountTypeOK, Amounts, Resources
  <2>2. count' \in [known: BOOLEAN, pods: SUBSET Sessions]
    BY DEF Crash, NotCounted
  <2>3. sync' \in [Syncs -> [pc: {"idle", "read", "write"}, gpus: Nat]]
    BY DEF Crash, NoSync
  <2> QED
    BY <2>1, <2>2, <2>3 DEF CopyTypeOK, Crash
<1>6. BoundsTypeOK'
  BY FaultType DEF IInv, TypeOK, BoundsTypeOK, Crash
<1>7. RunningFits'
  BY FewerRunFits DEF Crash, cluster
<1>8. CountFits'
  BY NothingFits DEF CountFits, Schedulable, Crash, NotCounted
<1> QED
  BY <1>2, <1>3, <1>4, <1>5, <1>6, <1>7, <1>8 DEF IInv, TypeOK

\* Every step preserves the invariant.
LEMMA NextIInv == IInv /\ [Next]_vars => IInv'
<1> SUFFICES ASSUME IInv, [Next]_vars PROVE IInv'
  OBVIOUS
<1>1. CASE Executor
  BY <1>1, StepCreate, StepCreateSecret, StepCreatePod, StepCreateUndo, StepDelete,
     StepDeleteRelease DEF Executor
<1>2. CASE Monitor
  BY <1>2, StepCheckCluster, StepReap DEF Monitor
<1>3. CASE Discover \/ StoreCapacity \/ Crash
  BY <1>3, StepDiscover, StepStoreCapacity, StepCrash
<1>4. CASE Sync
  BY <1>4, StepSync DEF Sync
<1>5. CASE Cluster
  BY <1>5, StepPodStarts, StepPodEnds DEF Cluster
<1>6. CASE UNCHANGED vars
  <2>1. TypeOK' /\ AccountBalances'
    BY <1>6 DEF IInv, TypeOK, AccountTypeOK, LostTypeOK, ClusterTypeOK, WorkTypeOK,
                CopyTypeOK, BoundsTypeOK, AccountBalances, vars
  <2>2. RunningFits' /\ CountFits'
    BY <1>6, FitsUnchanged DEF vars
  <2> QED
    BY <2>1, <2>2 DEF IInv
<1> QED
  BY <1>1, <1>2, <1>3, <1>4, <1>5, <1>6 DEF Next

\* IInv holds in every reachable state.
THEOREM Invariance == Spec => []IInv
<1> QED
  BY InitIInv, NextIInv, PTL DEF Spec

\* Every variable keeps its type.
THEOREM TypeCorrect == Spec => []TypeOK
<1>1. IInv => TypeOK
  BY DEF IInv
<1> QED
  BY Invariance, <1>1, PTL

\* AllocateResources' rollback, ReleaseResources' clamps and DiscoverCapacity's
\* replacement never lose a unit of the node, and no GPU and no GB is ever both
\* available and in use, although the pods' requests are read back in other
\* amounts than were reserved.
THEOREM Balance == Spec => []AccountBalances
<1>1. IInv => AccountBalances
  BY DEF IInv
<1> QED
  BY Invariance, <1>1, PTL

-----------------------------------------------------------------------------
(* What is in use is held, or lost.                                        *)

\* What is accounted stays covered while the account and what is lost stay and
\* no holder goes.
LEMMA HeldKept ==
  ASSUME IInv, NothingLeaks, inUse' = inUse, lost' = lost, Held \subseteq Held'
  PROVE  NothingLeaks'
<1>1. Held \in SUBSET Held' /\ Held' \in SUBSET Sessions /\ Held \in SUBSET Sessions
  BY DEF Held
<1>2. \A r \in Resources : /\ Sum(Need, Held)[r] <= Sum(Need, Held')[r]
                           /\ inUse[r] \in Nat /\ lost[r] \in Nat
                           /\ Sum(Need, Held)[r] \in Nat /\ Sum(Need, Held')[r] \in Nat
  BY <1>1, SumMonotone, SumType DEF IInv, TypeOK, AccountTypeOK, LostTypeOK, Amounts
<1>3. \A r \in Resources : inUse[r] <= Sum(Need, Held)[r] + lost[r]
  BY DEF NothingLeaks
<1>4. \A r \in Resources : inUse[r] <= Sum(Need, Held')[r] + lost[r]
  BY <1>2, <1>3
<1> QED
  BY <1>4 DEF NothingLeaks

\* At most one session goes: what the others hold, and it needs, covers the account.
LEMMA OthersHold ==
  ASSUME IInv, NothingLeaks, NEW s \in Sessions, Held \ {s} \subseteq Held'
  PROVE  /\ Held \in SUBSET Sessions /\ Held' \in SUBSET Sessions
         /\ \A r \in Resources : /\ inUse[r] \in Nat /\ lost[r] \in Nat /\ Need[s][r] \in Nat
                                 /\ Sum(Need, Held')[r] \in Nat
                                 /\ inUse[r] <= Sum(Need, Held')[r] + Need[s][r] + lost[r]
<1> DEFINE R == Held \ {s}
<1>1. /\ R \in SUBSET Held' /\ Held' \in SUBSET Sessions /\ R \in SUBSET Sessions
      /\ R \cup {s} \in SUBSET Sessions /\ Held \in SUBSET (R \cup {s}) /\ s \notin R
  BY DEF Held
<1>2. Held \in SUBSET Sessions
  BY DEF Held
<1> HIDE DEF R
<1>3. \A r \in Resources : /\ inUse[r] \in Nat /\ lost[r] \in Nat /\ Need[s][r] \in Nat
                           /\ Sum(Need, Held)[r] \in Nat /\ Sum(Need, R)[r] \in Nat
                           /\ Sum(Need, R \cup {s})[r] \in Nat /\ Sum(Need, Held')[r] \in Nat
  BY <1>1, <1>2, SumType, NeedType DEF IInv, TypeOK, AccountTypeOK, LostTypeOK, Amounts
<1>4. \A r \in Resources : /\ Sum(Need, Held)[r] <= Sum(Need, R \cup {s})[r]
                           /\ Sum(Need, R \cup {s})[r] = Sum(Need, R)[r] + Need[s][r]
                           /\ Sum(Need, R)[r] <= Sum(Need, Held')[r]
  BY <1>1, SumMonotone, SumAdd, MeasureType
<1>5. \A r \in Resources : inUse[r] <= Sum(Need, Held)[r] + lost[r]
  BY DEF NothingLeaks
<1>6. \A r \in Resources : inUse[r] <= Sum(Need, Held')[r] + Need[s][r] + lost[r]
  BY <1>3, <1>4, <1>5
<1> QED
  BY <1>1, <1>2, <1>3, <1>6

\* A release of at least what a session needs covers for that session.
LEMMA HeldReleased ==
  ASSUME IInv, NothingLeaks, NEW s \in Sessions, NEW amounts \in Amounts,
         \A r \in Resources : Need[s][r] <= amounts[r],
         ReleaseResources(amounts), lost' = lost, Held \ {s} \subseteq Held'
  PROVE  NothingLeaks'
<1>1. \A r \in Resources : /\ inUse[r] \in Nat /\ lost[r] \in Nat /\ Need[s][r] \in Nat
                           /\ Sum(Need, Held')[r] \in Nat
                           /\ inUse[r] <= Sum(Need, Held')[r] + Need[s][r] + lost[r]
  BY OthersHold
<1>2. \A r \in Resources : amounts[r] \in Nat /\ Need[s][r] <= amounts[r]
  BY DEF Amounts
<1>3. \A r \in Resources : inUse'[r] = IF inUse[r] < amounts[r] THEN 0 ELSE inUse[r] - amounts[r]
  BY DEF ReleaseResources, Decrement
<1>4. \A r \in Resources : inUse'[r] <= Sum(Need, Held')[r] + lost[r]
  BY <1>1, <1>2, <1>3
<1> QED
  BY <1>4 DEF NothingLeaks

\* A release of less: the difference is lost, if the session goes.
LEMMA HeldLost ==
  ASSUME IInv, NothingLeaks, NEW s \in Sessions, NEW amounts \in Amounts,
         \A r \in Resources : amounts[r] <= Need[s][r],
         \A r \in Resources :
           inUse'[r] = IF inUse[r] < amounts[r] THEN 0 ELSE inUse[r] - amounts[r],
         Lose(s, amounts), Held \ {s} \subseteq Held'
  PROVE  NothingLeaks'
<1>1. \A r \in Resources : /\ inUse[r] \in Nat /\ lost[r] \in Nat /\ Need[s][r] \in Nat
                           /\ Sum(Need, Held')[r] \in Nat
                           /\ inUse[r] <= Sum(Need, Held')[r] + Need[s][r] + lost[r]
  BY OthersHold
<1>2. \A r \in Resources : amounts[r] \in Nat /\ amounts[r] <= Need[s][r]
  BY DEF Amounts
<1>3. CASE s \in Held \ Held'
  <2>1. \A r \in Resources : lost'[r] = lost[r] + (Need[s][r] - amounts[r])
    BY <1>3 DEF Lose
  <2>2. \A r \in Resources : inUse'[r] <= Sum(Need, Held')[r] + lost'[r]
    BY <1>1, <1>2, <2>1
  <2> QED
    BY <2>2 DEF NothingLeaks
<1>4. CASE s \notin Held \ Held'
  <2>1. Held \in SUBSET Held' /\ Held' \in SUBSET Sessions /\ Held \in SUBSET Sessions
    BY <1>4 DEF Held
  <2>2. \A r \in Resources : lost'[r] = lost[r] + 0
    BY <1>4 DEF Lose
  <2>3. \A r \in Resources : /\ Sum(Need, Held)[r] <= Sum(Need, Held')[r]
                             /\ Sum(Need, Held)[r] \in Nat
    BY <2>1, SumMonotone, SumType DEF Amounts
  <2>4. \A r \in Resources : inUse[r] <= Sum(Need, Held)[r] + lost[r]
    BY DEF NothingLeaks
  <2>5. \A r \in Resources : inUse'[r] <= Sum(Need, Held')[r] + lost'[r]
    BY <1>1, <1>2, <2>2, <2>3, <2>4
  <2> QED
    BY <2>5 DEF NothingLeaks
<1> QED
  BY <1>3, <1>4

\* Nothing is released.
LEMMA HeldGone ==
  ASSUME IInv, NothingLeaks, NEW s \in Sessions, inUse' = inUse, Lose(s, Nothing),
         Held \ {s} \subseteq Held'
  PROVE  NothingLeaks'
<1>1. \A r \in Resources : inUse[r] \in Nat /\ Nothing[r] = 0
  BY Constants DEF IInv, TypeOK, AccountTypeOK, Amounts
<1>2. \A r \in Resources :
        inUse'[r] = IF inUse[r] < Nothing[r] THEN 0 ELSE inUse[r] - Nothing[r]
  BY <1>1
<1> QED
  BY <1>2, Releasable, HeldLost

\* A count covers itself: the pods that are to stay are held, the others lost.
LEMMA HeldCounted ==
  ASSUME NEW S \in SUBSET Sessions, Counted(S)
  PROVE  NothingLeaks'
<1> DEFINE K == S \cap Held'
           G == S \ Held'
<1>1. /\ K \in SUBSET Sessions /\ G \in SUBSET Sessions /\ K \cap G = {} /\ S = K \cup G
      /\ K \in SUBSET Held' /\ Held' \in SUBSET Sessions
  BY DEF Held
<1>2. \A r \in Resources : inUse'[r] = Sum(Extracted, S)[r] /\ lost'[r] = Sum(Extracted, G)[r]
  BY DEF Counted
<1> HIDE DEF K, G
<1>3. \A r \in Resources : Sum(Extracted, S)[r] = Sum(Extracted, K)[r] + Sum(Extracted, G)[r]
  BY <1>1, SumUnion
<1>4. \A r \in Resources : /\ Sum(Extracted, K)[r] <= Sum(Need, K)[r]
                           /\ Sum(Need, K)[r] <= Sum(Need, Held')[r]
  BY <1>1, SumLarger, SumMonotone, MeasureType
<1>5. \A r \in Resources : /\ Sum(Extracted, K)[r] \in Nat /\ Sum(Extracted, G)[r] \in Nat
                           /\ Sum(Need, K)[r] \in Nat /\ Sum(Need, Held')[r] \in Nat
  BY <1>1, SumType DEF Amounts
<1>6. \A r \in Resources : inUse'[r] <= Sum(Need, Held')[r] + lost'[r]
  BY <1>2, <1>3, <1>4, <1>5
<1> QED
  BY <1>6 DEF NothingLeaks

\* A session that reserves holds its reservation, and what it held before is lost.
LEMMA LeakCreate ==
  ASSUME IInv, LeakInv, NEW s \in Sessions, Create(s)
  PROVE  LeakInv'
<1>1. creating = NotCreating /\ creating.s \notin Sessions
  BY CapacityAssumption DEF Create, NotCreating, NONE
<1>2. Held \in SUBSET Sessions /\ Held \subseteq Held' /\ Held' \in SUBSET Sessions
  BY <1>1 DEF Held, Exists, Create, cluster
<1>3. NothingLeaks'
  <2>1. CASE /\ AllocateResources(s) /\ Fits(s)
             /\ creating' = [s |-> s, pc |-> "secret", reserved |-> "yes"]
             /\ lost' = [r \in Resources |-> lost[r] + (IF s \in Held THEN Need[s][r] ELSE 0)]
    <3>1. Held \cup {s} \in SUBSET Held'
      BY <1>2, <2>1 DEF Held
    <3>2. \A r \in Resources : /\ inUse'[r] = inUse[r] + Need[s][r]
                               /\ lost'[r] = lost[r] + (IF s \in Held THEN Need[s][r] ELSE 0)
      BY <2>1 DEF AllocateResources
    <3>3. \A r \in Resources : /\ inUse[r] \in Nat /\ Need[s][r] \in Nat /\ lost[r] \in Nat
                               /\ Sum(Need, Held)[r] \in Nat /\ Sum(Need, Held')[r] \in Nat
                               /\ inUse[r] <= Sum(Need, Held)[r] + lost[r]
      BY <1>2, SumType, NeedType
      DEF IInv, TypeOK, AccountTypeOK, LostTypeOK, Amounts, LeakInv, NothingLeaks
    <3>4. CASE s \in Held
      <4>1. \A r \in Resources : Sum(Need, Held)[r] <= Sum(Need, Held')[r]
        BY <1>2, SumMonotone
      <4>2. \A r \in Resources : inUse'[r] <= Sum(Need, Held')[r] + lost'[r]
        BY <3>2, <3>3, <3>4, <4>1
      <4> QED
        BY <4>2 DEF NothingLeaks
    <3>5. CASE s \notin Held
      <4>1. \A r \in Resources : Sum(Need, Held \cup {s})[r] = Sum(Need, Held)[r] + Need[s][r]
        BY <1>2, <3>5, SumAdd, MeasureType
      <4>2. \A r \in Resources : Sum(Need, Held \cup {s})[r] <= Sum(Need, Held')[r]
        BY <1>2, <3>1, SumMonotone
      <4>3. \A r \in Resources : lost'[r] = lost[r] + 0
        BY <3>2, <3>5
      <4>4. \A r \in Resources : /\ Sum(Need, Held')[r] >= Sum(Need, Held)[r] + Need[s][r]
                                 /\ inUse'[r] = inUse[r] + Need[s][r]
        BY <3>2, <4>1, <4>2
      <4>5. \A r \in Resources : inUse'[r] <= Sum(Need, Held')[r] + lost'[r]
        BY <3>3, <4>3, <4>4
      <4> QED
        BY <4>5 DEF NothingLeaks
    <3> QED
      BY <3>4, <3>5
  <2>2. CASE AllocateResources(s) /\ ~Fits(s) /\ UNCHANGED lost
    <3>1. \A r \in Resources : Reserved(s, r) \in Nat /\ inUse[r] \in Nat
      BY NeedType DEF Reserved, IInv, TypeOK, AccountTypeOK, Amounts
    <3>2. \A r \in Resources : inUse[r] + Reserved(s, r) - Reserved(s, r) = inUse[r]
      BY <3>1
    <3>3. inUse' = [r \in Resources |-> inUse[r] + Reserved(s, r) - Reserved(s, r)]
      BY <2>2 DEF AllocateResources, GivenBack
    <3>4. inUse' = inUse
      BY <3>2, <3>3 DEF IInv, TypeOK, AccountTypeOK, Amounts
    <3> QED
      BY <1>2, <2>2, <3>4, HeldKept DEF LeakInv
  <2>3. CASE UNCHANGED account /\ UNCHANGED lost
    BY <1>2, <2>3, HeldKept DEF LeakInv, account
  <2> QED
    BY <2>1, <2>2, <2>3 DEF Create
<1> QED
  BY <1>3 DEF LeakInv, Create, cluster

\* A creation goes on or is given up; its session keeps what it holds.
LEMMA LeakCreateSecret ==
  ASSUME IInv, LeakInv, CreateSecret
  PROVE  LeakInv'
<1>1. creating.s \in Sessions
  BY DEF IInv, TypeOK, WorkTypeOK, CreateSecret
<1>2. Held \subseteq Held'
  <2>1. \/ creating'.s = creating.s /\ creating'.reserved = creating.reserved
        \/ Exists(creating.s) /\ creating' = NotCreating
    BY DEF CreateSecret, IInv, TypeOK, WorkTypeOK
  <2> QED
    BY <2>1 DEF Held, Exists, CreateSecret
<1>3. NothingLeaks'
  BY <1>2, HeldKept DEF LeakInv, CreateSecret, account
<1> QED
  BY <1>3 DEF LeakInv, CreateSecret

\* A pod takes over from the creation, or both are there until the release.
LEMMA LeakCreatePod ==
  ASSUME IInv, LeakInv, CreatePod
  PROVE  LeakInv'
<1>1. PICK c \in Sessions : c = creating.s
  BY DEF IInv, TypeOK, WorkTypeOK, CreatePod
<1>2. (creating'.s = c /\ creating'.reserved = creating.reserved) \/ Exists(c)'
  <2>1. CASE creating' = [creating EXCEPT !.pc = "undo"]
    BY <1>1, <2>1 DEF IInv, TypeOK, WorkTypeOK
  <2>2. CASE pods[c] = "none" /\ pods' = [pods EXCEPT ![c] = "pending"]
    <3>1. c \notin terminating /\ terminating' = terminating
      BY <1>1, <2>2 DEF LeakInv, CreatePod
    <3>2. pods'[c] = "pending"
      BY <2>2 DEF IInv, TypeOK, ClusterTypeOK
    <3> QED
      BY <3>1, <3>2 DEF Exists
  <2> QED
    BY <1>1, <2>1, <2>2 DEF CreatePod
<1>3. \A x \in Sessions : Exists(x) => Exists(x)'
  BY <1>1 DEF CreatePod, IInv, TypeOK, ClusterTypeOK, Exists
<1>4. Held \subseteq Held'
  <2> SUFFICES ASSUME NEW x \in Held PROVE x \in Held'
    OBVIOUS
  <2>1. CASE Exists(x)
    BY <1>3, <2>1 DEF Held
  <2>2. CASE creating.s = x /\ creating.reserved = "yes"
    BY <1>1, <1>2, <2>2 DEF Held
  <2>3. CASE releasing[x] > 0
    BY <2>3 DEF Held, CreatePod
  <2> QED
    BY <2>1, <2>2, <2>3 DEF Held
<1>5. NothingLeaks'
  BY <1>4, HeldKept DEF LeakInv, CreatePod, account
<1>6. \A x \in terminating' : pods'[x] # "none"
  BY <1>1 DEF LeakInv, CreatePod, IInv, TypeOK, ClusterTypeOK
<1> QED
  BY <1>5, <1>6 DEF LeakInv

\* What a failed creation gives back is what its session needs; one without a
\* reservation held nothing.
LEMMA LeakCreateUndo ==
  ASSUME IInv, LeakInv, CreateUndo
  PROVE  LeakInv'
<1>1. PICK c \in Sessions : c = creating.s
  BY DEF IInv, TypeOK, WorkTypeOK, CreateUndo
<1>2. NothingLeaks'
  <2>1. CASE ReleaseResources(Need[c])
    <3>1. Held \ {c} \subseteq Held'
      BY <1>1 DEF Held, Exists, CreateUndo, cluster
    <3>2. \A r \in Resources : Need[c][r] <= Need[c][r]
      BY NeedType DEF Amounts
    <3> QED
      BY <2>1, <3>1, <3>2, NeedType, HeldReleased DEF LeakInv, CreateUndo
  <2>2. CASE creating.reserved = "no" /\ UNCHANGED account
    <3>1. Held \subseteq Held'
      BY <2>2 DEF Held, Exists, CreateUndo, cluster
    <3> QED
      BY <2>2, <3>1, HeldKept DEF LeakInv, CreateUndo, account
  <2> QED
    BY <1>1, <2>1, <2>2 DEF CreateUndo
<1> QED
  BY <1>2 DEF LeakInv, CreateUndo, cluster

\* A pod that is being deleted is held until the release, unless there is none.
LEMMA LeakDelete ==
  ASSUME IInv, LeakInv, NEW s \in Sessions, Delete(s)
  PROVE  LeakInv'
<1>1. \A x \in Sessions : x # s => (Exists(x) => Exists(x)') /\ releasing'[x] = releasing[x]
  BY DEF Delete, Terminate, Exists, IInv, TypeOK, WorkTypeOK
<1>2. Held \ {s} \subseteq Held'
  BY <1>1 DEF Held, Delete
<1>3. NothingLeaks'
  BY <1>2, HeldGone DEF LeakInv, Delete, account
<1>4. \A x \in terminating' : pods'[x] # "none"
  BY DEF LeakInv, Delete, Terminate
<1> QED
  BY <1>3, <1>4 DEF LeakInv

\* The release after a deletion is of what the session asked for, which is no
\* less than what it got.
LEMMA LeakDeleteRelease ==
  ASSUME IInv, LeakInv, NEW s \in Sessions, DeleteRelease(s)
  PROVE  LeakInv'
<1>1. \A x \in Sessions : x # s => releasing'[x] = releasing[x]
  BY DEF DeleteRelease, IInv, TypeOK, WorkTypeOK
<1>2. Held \ {s} \subseteq Held'
  BY <1>1 DEF Held, Exists, DeleteRelease, cluster
<1>3. NothingLeaks'
  <2>1. CASE ReleaseResources(Asked[s]) /\ UNCHANGED lost
    BY <1>2, <2>1, NeedType, HeldReleased DEF LeakInv
  <2>2. CASE UNCHANGED account /\ Lose(s, Nothing)
    BY <1>2, <2>2, HeldGone DEF LeakInv, account
  <2> QED
    BY <2>1, <2>2 DEF DeleteRelease
<1> QED
  BY <1>3 DEF LeakInv, DeleteRelease, cluster

\* The monitor releases what the pod requests, or nothing.
LEMMA LeakReap ==
  ASSUME IInv, LeakInv, NEW s \in Sessions, Reap(s)
  PROVE  LeakInv'
<1>1. \A x \in Sessions : x # s => (Exists(x) => Exists(x)')
  BY DEF Reap, Terminate, Exists
<1>2. Held \ {s} \subseteq Held'
  BY <1>1 DEF Held, Reap
<1>3. NothingLeaks'
  <2>1. CASE ReleaseResources(Extracted[s]) /\ Lose(s, Extracted[s])
    <3>1. \A r \in Resources : inUse'[r] = IF inUse[r] < Extracted[s][r] THEN 0
                                           ELSE inUse[r] - Extracted[s][r]
      BY <2>1 DEF ReleaseResources, Decrement
    <3> QED
      BY <1>2, <2>1, <3>1, Releasable, HeldLost DEF LeakInv
  <2>2. CASE UNCHANGED account /\ Lose(s, Nothing)
    BY <1>2, <2>2, HeldGone DEF LeakInv, account
  <2> QED
    BY <2>1, <2>2 DEF Reap
<1>4. \A x \in terminating' : pods'[x] # "none"
  BY DEF LeakInv, Reap, Terminate
<1> QED
  BY <1>3, <1>4 DEF LeakInv

\* Rediscovery, by the ticker or by a restart.
LEMMA LeakCounted ==
  ASSUME IInv, LeakInv, StoreCapacity \/ Crash
  PROVE  LeakInv'
<1>1. \E S \in SUBSET Sessions : Counted(S)
  <2>1. CASE StoreCapacity
    BY <2>1 DEF StoreCapacity, IInv, TypeOK, CopyTypeOK
  <2>2. CASE Crash
    BY <2>2, CountUsedFits DEF Crash
  <2> QED
    BY <2>1, <2>2
<1>2. NothingLeaks'
  BY <1>1, HeldCounted
<1> QED
  BY <1>2 DEF LeakInv, StoreCapacity, Crash, cluster

\* Lists, counts, copies and the pods' own steps: what is to stay still is.
LEMMA LeakOther ==
  ASSUME IInv, LeakInv, CheckCluster \/ Discover \/ Sync \/ Cluster \/ UNCHANGED vars
  PROVE  LeakInv'
<1>1. CASE CheckCluster \/ Discover \/ Sync \/ UNCHANGED vars
  <2>1. UNCHANGED <<account, cluster, creating, releasing, lost>>
    BY <1>1 DEF CheckCluster, Discover, Sync, SyncRead, SyncWrite, vars, account, cluster
  <2>2. Held' = Held
    BY <2>1 DEF Held, Exists, cluster
  <2>3. NothingLeaks'
    BY <2>1, <2>2, HeldKept DEF LeakInv, account
  <2> QED
    BY <2>1, <2>3 DEF LeakInv, cluster
<1>2. CASE Cluster
  <2>1. PICK s \in Sessions : PodStarts(s) \/ PodExits(s) \/ PodRemoved(s)
    BY <1>2 DEF Cluster
  <2>2. \A x \in Sessions : Exists(x) => Exists(x)'
    BY <2>1 DEF IInv, TypeOK, ClusterTypeOK, Exists, PodStarts, PodExits, PodRemoved
  <2>3. Held \subseteq Held'
    BY <2>1, <2>2 DEF Held, PodStarts, PodExits, PodRemoved
  <2>4. NothingLeaks'
    BY <2>1, <2>3, HeldKept DEF LeakInv, PodStarts, PodExits, PodRemoved, account
  <2>5. \A x \in terminating' : pods'[x] # "none"
    BY <2>1 DEF LeakInv, PodStarts, PodExits, PodRemoved, IInv, TypeOK, ClusterTypeOK
  <2> QED
    BY <2>4, <2>5 DEF LeakInv
<1> QED
  BY <1>1, <1>2

\* Whatever is created again, deleted, reaped, counted or cut short by a failing
\* call or a restart: what the account says is in use is needed by sessions that
\* hold it, or was lost in one of the ways the history variable names.
THEOREM NoLeak == Spec => []NothingLeaks
<1>1. Init => LeakInv
  <2> SUFFICES ASSUME Init PROVE LeakInv
    OBVIOUS
  <2>1. Held \in SUBSET Sessions
    BY DEF Held
  <2>2. \A r \in Resources : inUse[r] = 0 /\ lost[r] = 0 /\ Sum(Need, Held)[r] \in Nat
    BY <2>1, Constants, SumType DEF Init, Amounts
  <2>3. \A r \in Resources : inUse[r] <= Sum(Need, Held)[r] + lost[r]
    BY <2>2
  <2> QED
    BY <2>3 DEF LeakInv, NothingLeaks, Init
<1>2. IInv /\ LeakInv /\ [Next]_vars => LeakInv'
  <2> SUFFICES ASSUME IInv, LeakInv, [Next]_vars PROVE LeakInv'
    OBVIOUS
  <2>1. CASE Executor
    BY <2>1, LeakCreate, LeakCreateSecret, LeakCreatePod, LeakCreateUndo, LeakDelete,
       LeakDeleteRelease DEF Executor
  <2>2. CASE Monitor
    BY <2>2, LeakOther, LeakReap DEF Monitor
  <2>3. CASE StoreCapacity \/ Crash
    BY <2>3, LeakCounted
  <2>4. CASE Discover \/ Sync \/ Cluster \/ UNCHANGED vars
    BY <2>4, LeakOther
  <2> QED
    BY <2>1, <2>2, <2>3, <2>4 DEF Next
<1>3. LeakInv => NothingLeaks
  BY DEF LeakInv
<1> QED
  BY Invariance, <1>1, <1>2, <1>3, PTL DEF Spec
=============================================================================
