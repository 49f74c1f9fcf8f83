---------------------------- MODULE Billing_proofs ----------------------------
(***************************************************************************)
(* Proofs about Billing, for any number of sessions, concurrent requests   *)
(* and faults, any limit on extensions and any resolution of the clock.    *)
(***************************************************************************)
EXTENDS Billing, FiniteSetTheorems, TLAPS

\* The facts about the constants that the steps need.
LEMMA Constants ==
  /\ Extensions \subseteq Nat \ {0} /\ MaxExtensions \in Nat \ {0} /\ TicksPerMinute \in Nat \ {0}
  /\ MaxFaults \in Nat /\ MaxNow \in Nat
  /\ NONE \notin Sessions /\ EXPIRER \in Writers /\ WORKER \in Writers
  /\ Stoppers \subseteq Writers
  BY BillingAssumption DEF Writers

\* Sets of sessions, creators and extenders have a size, no larger than all.
LEMMA Sizes ==
  /\ \A S \in SUBSET Sessions : IsFiniteSet(S) /\ Cardinality(S) \in Nat
  /\ \A S \in SUBSET Creators : IsFiniteSet(S) /\ Cardinality(S) \in Nat
                                /\ Cardinality(S) <= Cardinality(Creators)
  /\ \A S \in SUBSET Extenders : IsFiniteSet(S) /\ Cardinality(S) \in Nat
                                 /\ Cardinality(S) <= Cardinality(Extenders)
<1>1. IsFiniteSet(Sessions) /\ IsFiniteSet(Creators) /\ IsFiniteSet(Extenders)
  BY BillingAssumption
<1> QED
  BY <1>1, FS_Subset, FS_CardinalityType

\* A subset of a finite set is no larger.
LEMMA Smaller ==
  ASSUME NEW T, IsFiniteSet(T), NEW S \in SUBSET T
  PROVE  Cardinality(S) <= Cardinality(T)
  BY FS_Subset

\* CalculateCost is a number of minutes.
LEMMA CostType ==
  ASSUME NEW start \in Nat, NEW end \in Nat
  PROVE  CalculateCost(start, end) \in Nat
<1>1. CASE end <= start
  BY <1>1 DEF CalculateCost
<1>2. CASE ~(end <= start)
  <2> DEFINE d == (end - start) + (TicksPerMinute - 1)
  <2>1. d \in Nat /\ TicksPerMinute \in Nat \ {0}
    BY <1>2, Constants
  <2> HIDE DEF d
  <2>2. d \div TicksPerMinute \in Nat
    BY <2>1
  <2>3. CalculateCost(start, end) = d \div TicksPerMinute
    BY <1>2 DEF CalculateCost, d
  <2> QED
    BY <2>2, <2>3
<1> QED
  BY <1>1, <1>2

\* What an extender holds.
LEMMA ExtenderType ==
  ASSUME IInv, NEW x \in Extenders, extending[x].s # NONE
  PROVE  extending[x].s \in Sessions /\ extending[x].until \in Nat /\ extending[x].minutes \in Nat
<1>1. extending[x] \in [s: Sessions, until: Nat, minutes: Extensions]
  BY DEF IInv, BaseInv, TypeOK, RequestsTypeOK, NotExtending
<1>2. extending[x].minutes \in Extensions /\ Extensions \subseteq Nat
  BY <1>1, Constants
<1> QED
  BY <1>1, <1>2

\* What an extension changes of a row.
LEMMA ExtendedFields ==
  ASSUME NEW r \in Row, NEW u, u.until \in Nat, u.minutes \in Nat
  PROVE  /\ Extended(r, u) \in Row
         /\ Extended(r, u).state = r.state /\ Extended(r, u).settled = r.settled
         /\ Extended(r, u).count = r.count + 1 /\ Extended(r, u).until = u.until
         /\ Extended(r, u).minutes = r.minutes + u.minutes
<1>1. /\ r.count \in Nat /\ r.minutes \in Nat /\ r.start \in Nat /\ r.end \in Nat
      /\ r.settled \in SUBSET Nat /\ r.state \in {"PENDING", "RUNNING", "STOPPED", "FAILED", NONE}
  BY DEF Row
<1>2. r.count + 1 \in Nat /\ r.minutes + u.minutes \in Nat
  BY <1>1
<1>3. Extended(r, u) \in Row
  BY <1>2 DEF Extended, Row
<1>4. Extended(r, u).state = r.state /\ Extended(r, u).settled = r.settled
  BY DEF Extended, Row
<1>5. Extended(r, u).count = r.count + 1 /\ Extended(r, u).minutes = r.minutes + u.minutes
  BY DEF Extended, Row
<1>6. Extended(r, u).until = u.until
  BY DEF Extended, Row
<1> QED
  BY <1>3, <1>4, <1>5, <1>6

-----------------------------------------------------------------------------
\* Fewer active sessions and fewer requests that have passed keep the quota.
LEMMA KeepsQuota ==
  ASSUME IInv, unchecked' = unchecked,
         In("PENDING")' \subseteq In("PENDING"),
         (Active \cup ToRun)' \subseteq Active \cup ToRun,
         Passed(1)' \subseteq Passed(1), Passed(2)' \subseteq Passed(2)
  PROVE  QuotaInv'
<1>1. /\ In("PENDING") \in SUBSET Sessions /\ Active \cup ToRun \in SUBSET Sessions
      /\ Passed(1) \in SUBSET Creators /\ Passed(2) \in SUBSET Creators
  BY DEF In, Active, ToRun, Passed
<1>2. /\ Cardinality(In("PENDING")') <= Cardinality(In("PENDING"))
      /\ Cardinality((Active \cup ToRun)') <= Cardinality(Active \cup ToRun)
      /\ Cardinality(Passed(1)') <= Cardinality(Passed(1))
      /\ Cardinality(Passed(2)') <= Cardinality(Passed(2))
  BY <1>1, Sizes, Smaller
<1>3. /\ Cardinality(In("PENDING")) \in Nat /\ Cardinality(In("PENDING")') \in Nat
      /\ Cardinality(Active \cup ToRun) \in Nat /\ Cardinality((Active \cup ToRun)') \in Nat
      /\ Cardinality(Passed(1)) \in Nat /\ Cardinality(Passed(1)') \in Nat
      /\ Cardinality(Passed(2)) \in Nat /\ Cardinality(Passed(2)') \in Nat
      /\ Cardinality(Creators) \in Nat /\ unchecked \in Nat
  BY <1>1, Sizes DEF IInv, BaseInv, TypeOK, BoundsTypeOK
<1> QED
  BY <1>2, <1>3 DEF IInv, BaseInv, QuotaInv

\* A step that keeps the accounts of the rows and starts no extension and no
\* bill keeps what is known of extensions and settlements.
LEMMA KeepsAccounts ==
  ASSUME IInv,
         \A s \in Sessions : /\ rows'[s].count = rows[s].count
                             /\ rows'[s].until = rows[s].until
                             /\ rows'[s].minutes = rows[s].minutes
                             /\ rows'[s].settled = rows[s].settled,
         now' \in Nat, now' >= now,
         \A x \in Extenders : extending'[x] \in {extending[x], NotExtending},
         bills' \subseteq bills, paying' \in {paying, NoBill}, paid' = paid
  PROVE  LimitInv' /\ TimeInv' /\ BillsInv'
<1>1. LimitInv'
  <2> SUFFICES ASSUME NEW s \in Sessions
               PROVE  rows'[s].count + Cardinality(ExtendersOf(s)')
                        < MaxExtensions + Cardinality(Extenders)
    BY DEF LimitInv
  <2>1. ExtendersOf(s)' \subseteq ExtendersOf(s) /\ ExtendersOf(s) \in SUBSET Extenders
    BY Constants DEF ExtendersOf, NotExtending
  <2>2. Cardinality(ExtendersOf(s)') <= Cardinality(ExtendersOf(s))
    BY <2>1, Sizes, Smaller
  <2>3. /\ Cardinality(ExtendersOf(s)') \in Nat /\ Cardinality(ExtendersOf(s)) \in Nat
        /\ Cardinality(Extenders) \in Nat /\ rows[s].count \in Nat
    BY <2>1, Sizes DEF IInv, BaseInv, TypeOK, RowsTypeOK, Row
  <2>4. rows[s].count + Cardinality(ExtendersOf(s)) < MaxExtensions + Cardinality(Extenders)
    BY DEF IInv, BaseInv, LimitInv
  <2> QED
    BY <2>2, <2>3, <2>4, Constants
<1>2. TimeInv'
  <2>1. \A s \in Sessions : rows[s].until \in Nat /\ rows[s].minutes \in Nat
    BY DEF IInv, BaseInv, TypeOK, RowsTypeOK, Row
  <2>2. ExtendedTimeIsCounted'
    BY <2>1 DEF IInv, BaseInv, TypeOK, RowsTypeOK, TimeInv, ExtendedTimeIsCounted
  <2>3. ASSUME NEW x \in Extenders, extending'[x].s # NONE
        PROVE  extending'[x].until <= now' + rows'[extending'[x].s].minutes + extending'[x].minutes
    <3>1. extending'[x] = extending[x]
      BY <2>3 DEF NotExtending
    <3>2. /\ extending[x].s \in Sessions /\ extending[x].until \in Nat
          /\ extending[x].minutes \in Nat
      BY <2>3, <3>1, ExtenderType
    <3> QED
      BY <2>1, <2>3, <3>1, <3>2 DEF IInv, BaseInv, TypeOK, RowsTypeOK, TimeInv
  <2> QED
    BY <2>2, <2>3 DEF TimeInv
<1>3. BillsInv'
  BY DEF IInv, BaseInv, TypeOK, BatchTypeOK, Bill, NoBill, BillsInv, TransfersMatchRecord
<1> QED
  BY <1>1, <1>2, <1>3

\* A balance does not change, and what has ended does not run again.
LEMMA KeepsBalance ==
  ASSUME IInv, balance' = balance,
         \A s \in Sessions : rows[s].state \in {"STOPPED", "FAILED"} /\ s \notin ToRun
                               => rows'[s].state \in {"STOPPED", "FAILED"} /\ s \notin ToRun'
  PROVE  BalanceInv'
  BY DEF IInv, BaseInv, TypeOK, RequestsTypeOK, BalanceInv, BalanceMissesNothing

\* No session runs because of a step that touches neither rows nor copies.
LEMMA KeepsToRun ==
  ASSUME writing' = writing
  PROVE  ToRun' = ToRun
  BY DEF ToRun

-----------------------------------------------------------------------------
\* A query that finds nothing bounds what there is; one that fails is counted.
LEMMA StepQuotaCheck ==
  ASSUME IInv, NEW c \in Creators, NEW i \in 1..2, QuotaCheck(c, i)
  PROVE  BaseInv'
<1>1. RowsTypeOK' /\ BatchTypeOK'
  BY DEF IInv, BaseInv, TypeOK, QuotaCheck, RowsTypeOK, BatchTypeOK, requests, batch, Fault
<1>2. RequestsTypeOK'
  BY Constants DEF IInv, BaseInv, TypeOK, QuotaCheck, Asked, Fault, RequestsTypeOK,
     NotExtending, NotWriting, NoBalance, requests, batch
<1>3. BoundsTypeOK'
  BY Constants DEF IInv, BaseInv, TypeOK, QuotaCheck, Asked, Fault, BoundsTypeOK, requests,
     batch
<1>4. QuotaInv'
  <2> DEFINE P == Cardinality(In("PENDING"))
             A == Cardinality(Active \cup ToRun)
             n == Cardinality(Creators)
             p1 == Cardinality(Passed(1))
             p2 == Cardinality(Passed(2))
  <2>1. creating \in [Creators -> 0..2] /\ unchecked \in Nat
    BY DEF IInv, BaseInv, TypeOK, RequestsTypeOK, BoundsTypeOK
  <2>2. P \in Nat /\ A \in Nat /\ n \in Nat /\ p1 \in Nat /\ p2 \in Nat
    BY Sizes DEF In, Active, ToRun, Passed
  <2>3. /\ In("PENDING")' = In("PENDING") /\ (Active \cup ToRun)' = Active \cup ToRun
        /\ (In(Asked[i]) = {} /\ unchecked' = unchecked) \/ unchecked' = unchecked + 1
    BY DEF QuotaCheck, In, Active, ToRun
  <2>4. P + p2 <= n + unchecked /\ A + p1 + p2 <= 2 * n + 1 + unchecked
    BY DEF IInv, BaseInv, QuotaInv
  <2>5. Passed(1)' \in SUBSET Creators /\ Passed(2)' \in SUBSET Creators
    BY DEF Passed
  <2>6. Cardinality(Passed(1)') <= n /\ Cardinality(Passed(2)') <= n
    BY <2>5, Sizes
  <2>7. IsFiniteSet(Passed(1)) /\ IsFiniteSet(Passed(2))
    BY Sizes DEF Passed
  <2>8. CASE i = 1
    <3>1. Passed(1)' = Passed(1) \cup {c} /\ Passed(2)' = Passed(2) /\ c \notin Passed(1)
      BY <2>1, <2>8 DEF QuotaCheck, Passed
    <3>2. Cardinality(Passed(1)') = p1 + 1 /\ Cardinality(Passed(2)') = p2
      BY <3>1, <2>7, FS_AddElement
    <3>3. In(Asked[i]) = {} => A <= P + 1
      <4> SUFFICES ASSUME In("RUNNING") = {} PROVE A <= P + 1
        BY <2>8 DEF Asked
      <4>1. Active \cup ToRun \subseteq In("PENDING") \cup {writing[WORKER].s}
        BY DEF Active, ToRun
      <4>2. IsFiniteSet(In("PENDING"))
        BY Sizes DEF In
      <4>3. /\ IsFiniteSet(In("PENDING") \cup {writing[WORKER].s})
            /\ Cardinality(In("PENDING") \cup {writing[WORKER].s}) \in {P, P + 1}
        BY <4>2, FS_AddElement
      <4>4. A <= Cardinality(In("PENDING") \cup {writing[WORKER].s})
        BY <4>1, <4>3, Smaller
      <4> HIDE DEF A, P
      <4> QED
        BY <2>2, <4>3, <4>4
    <3> HIDE DEF P, A, n, p1, p2
    <3>4. /\ P + Cardinality(Passed(2)') <= n + unchecked'
          /\ A + Cardinality(Passed(1)') + Cardinality(Passed(2)') <= 2 * n + 1 + unchecked'
      BY <2>1, <2>2, <2>3, <2>4, <2>6, <3>2, <3>3
    <3> QED
      BY <2>3, <3>4 DEF QuotaInv, P, A, n
  <2>9. CASE i = 2
    <3>1. /\ Passed(1)' = Passed(1) \ {c} /\ Passed(2)' = Passed(2) \cup {c}
          /\ c \in Passed(1) /\ c \notin Passed(2)
      BY <2>1, <2>9 DEF QuotaCheck, Passed
    <3>2. Cardinality(Passed(1)') = p1 - 1 /\ Cardinality(Passed(2)') = p2 + 1
      BY <3>1, <2>7, FS_AddElement, FS_RemoveElement
    <3>3. In(Asked[i]) = {} => P = 0
      BY <2>9, FS_EmptySet DEF Asked
    <3> HIDE DEF P, A, n, p1, p2
    <3>4. /\ P + Cardinality(Passed(2)') <= n + unchecked'
          /\ A + Cardinality(Passed(1)') + Cardinality(Passed(2)') <= 2 * n + 1 + unchecked'
      BY <2>1, <2>2, <2>3, <2>4, <2>6, <3>2, <3>3
    <3> QED
      BY <2>3, <3>4 DEF QuotaInv, P, A, n
  <2> QED
    BY <2>8, <2>9
<1>5. LimitInv' /\ TimeInv' /\ BillsInv'
  BY KeepsAccounts DEF QuotaCheck, Asked, Fault, IInv, BaseInv, TypeOK, RowsTypeOK,
     RequestsTypeOK, requests, batch
<1>6. BalanceInv'
  BY KeepsBalance, KeepsToRun DEF QuotaCheck, Asked, Fault, requests, batch
<1> QED
  BY <1>1, <1>2, <1>3, <1>4, <1>5, <1>6 DEF IInv, BaseInv, TypeOK

\* A refused request has passed nothing.
LEMMA StepQuotaRefuse ==
  ASSUME IInv, NEW c \in Creators, NEW i \in 1..2, QuotaRefuse(c, i)
  PROVE  BaseInv'
<1>1. RowsTypeOK' /\ BatchTypeOK' /\ BoundsTypeOK'
  BY DEF IInv, BaseInv, TypeOK, QuotaRefuse, RowsTypeOK, BatchTypeOK, BoundsTypeOK, requests,
     batch
<1>2. RequestsTypeOK'
  BY Constants DEF IInv, BaseInv, TypeOK, QuotaRefuse, RequestsTypeOK, NotExtending,
     NotWriting, NoBalance, requests, batch
<1>3. QuotaInv'
  BY KeepsQuota DEF QuotaRefuse, In, Active, ToRun, Passed, requests, batch, IInv, BaseInv, TypeOK,
     RequestsTypeOK
<1>4. LimitInv' /\ TimeInv' /\ BillsInv'
  BY KeepsAccounts DEF QuotaRefuse, IInv, BaseInv, TypeOK, RowsTypeOK, RequestsTypeOK,
     requests, batch
<1>5. BalanceInv'
  BY KeepsBalance, KeepsToRun DEF QuotaRefuse, requests, batch
<1> QED
  BY <1>1, <1>2, <1>3, <1>4, <1>5 DEF IInv, BaseInv, TypeOK

\* A request that has passed turns into a pending session.
LEMMA StepCreateSession ==
  ASSUME IInv, NEW c \in Creators, NEW s \in Sessions, CreateSession(c, s)
  PROVE  BaseInv'
<1>1. rows \in [Sessions -> Row] /\ rows[s].state = NONE
  BY DEF IInv, BaseInv, TypeOK, RowsTypeOK, CreateSession, NoRow
<1>2. \A t \in Sessions : /\ rows'[t].count = rows[t].count /\ rows'[t].until = rows[t].until
                          /\ rows'[t].minutes = rows[t].minutes
                          /\ rows'[t].settled = rows[t].settled
                          /\ t # s => rows'[t].state = rows[t].state
  <2>1. CASE rows' = [rows EXCEPT ![s].state = "PENDING"]
    BY <1>1, <2>1 DEF Row
  <2> QED
    BY <2>1 DEF CreateSession
<1>3. BatchTypeOK' /\ BoundsTypeOK'
  BY DEF IInv, BaseInv, TypeOK, CreateSession, BatchTypeOK, BoundsTypeOK, requests, batch
<1>4. RowsTypeOK'
  BY Constants DEF IInv, BaseInv, TypeOK, CreateSession, NoRow, RowsTypeOK, Row, requests,
     batch
<1>5. RequestsTypeOK'
  BY Constants DEF IInv, BaseInv, TypeOK, CreateSession, NoRow, RequestsTypeOK, NotExtending,
     NotWriting, NoBalance, requests, batch
<1>6. QuotaInv'
  <2> DEFINE P == Cardinality(In("PENDING"))
             A == Cardinality(Active \cup ToRun)
             p2 == Cardinality(Passed(2))
  <2>1. creating \in [Creators -> 0..2] /\ unchecked \in Nat /\ rows \in [Sessions -> Row]
    BY DEF IInv, BaseInv, TypeOK, RowsTypeOK, RequestsTypeOK, BoundsTypeOK
  <2>t. ToRun' = ToRun
    BY KeepsToRun DEF CreateSession
  <2>2. CASE UNCHANGED rows
    BY <2>1, <2>2, KeepsQuota DEF CreateSession, In, Active, ToRun, Passed
  <2>3. CASE rows' = [rows EXCEPT ![s].state = "PENDING"]
    <3>1. /\ In("PENDING")' = In("PENDING") \cup {s} /\ In("RUNNING")' = In("RUNNING")
          /\ s \notin In("PENDING")
      <4>1. rows'[s].state = "PENDING"
        BY <1>1, <2>3 DEF Row
      <4> QED
        BY <1>1, <1>2, <4>1 DEF In, NONE
    <3>a. (Active \cup ToRun)' = (Active \cup ToRun) \cup {s}
      BY <2>t, <3>1 DEF Active
    <3>2. Passed(1)' = Passed(1) /\ Passed(2)' = Passed(2) \ {c} /\ c \in Passed(2)
      BY <2>1 DEF CreateSession, Passed
    <3>3. IsFiniteSet(In("PENDING")) /\ IsFiniteSet(Active \cup ToRun) /\ IsFiniteSet(Passed(2))
      BY Sizes DEF In, Active, ToRun, Passed
    <3>b. Cardinality(In("PENDING")') = P + 1 /\ Cardinality(Passed(2)') = p2 - 1
      BY <3>1, <3>2, <3>3, FS_AddElement, FS_RemoveElement
    <3>c. Cardinality((Active \cup ToRun) \cup {s}) \in {A, A + 1}
      BY <3>3, FS_AddElement
    <3>4. /\ Cardinality(In("PENDING")') = P + 1 /\ Cardinality(Passed(2)') = p2 - 1
          /\ Cardinality((Active \cup ToRun)') \in {A, A + 1}
      BY <3>a, <3>b, <3>c
    <3>5. /\ P \in Nat /\ p2 \in Nat /\ A \in Nat
          /\ Cardinality(Passed(1)) \in Nat /\ Cardinality(Creators) \in Nat
      BY Sizes DEF In, Active, ToRun, Passed
    <3>6. unchecked' = unchecked
      BY DEF CreateSession
    <3>7. /\ P + p2 <= Cardinality(Creators) + unchecked
          /\ A + Cardinality(Passed(1)) + p2 <= 2 * Cardinality(Creators) + 1 + unchecked
      BY DEF IInv, BaseInv, QuotaInv
    <3> HIDE DEF P, A, p2
    <3> QED
      BY <2>1, <3>2, <3>4, <3>5, <3>6, <3>7 DEF QuotaInv
  <2> QED
    BY <2>2, <2>3 DEF CreateSession
<1>7. LimitInv' /\ TimeInv' /\ BillsInv'
  BY KeepsAccounts, <1>2 DEF CreateSession, NoRow, IInv, BaseInv, TypeOK, RowsTypeOK,
     RequestsTypeOK, requests, batch
<1>8. BalanceInv'
  BY KeepsBalance, KeepsToRun, <1>1, <1>2 DEF CreateSession, NoRow, requests, batch, NONE
<1> QED
  BY <1>1, <1>2, <1>3, <1>4, <1>5, <1>6, <1>7, <1>8 DEF IInv, BaseInv, TypeOK

\* An extender starts below the limit, from an end that is accounted for.
LEMMA StepExtendSession ==
  ASSUME IInv, NEW x \in Extenders, NEW s \in Sessions, NEW e \in Extensions, ExtendSession(x, s, e)
  PROVE  BaseInv'
<1>1. /\ extending' = [extending EXCEPT ![x] =
                        [s |-> s, until |-> NewExpiration(s, e), minutes |-> e]]
      /\ rows[s].count < MaxExtensions
      /\ UNCHANGED <<now, rows, bills, paying, paid>>
  BY DEF ExtendSession, MayExtend, batch
<1>2. /\ e \in Nat /\ now \in Nat /\ NewExpiration(s, e) \in Nat
      /\ rows[s].until \in Nat /\ rows[s].minutes \in Nat /\ rows[s].count \in Nat
      /\ extending \in [Extenders -> [s: Sessions, until: Nat, minutes: Extensions]
                                     \cup {NotExtending}]
  BY Constants DEF IInv, BaseInv, TypeOK, RowsTypeOK, RequestsTypeOK, Row, NewExpiration
<1>3. RowsTypeOK' /\ BatchTypeOK' /\ BoundsTypeOK'
  BY DEF IInv, BaseInv, TypeOK, ExtendSession, RowsTypeOK, BatchTypeOK, BoundsTypeOK,
     requests, batch
<1>4. RequestsTypeOK'
  BY <1>1, <1>2 DEF IInv, BaseInv, TypeOK, RequestsTypeOK, ExtendSession
<1>5. QuotaInv'
  BY KeepsQuota DEF ExtendSession, MayExtend, NewExpiration, In, Active, ToRun, Passed, requests,
     batch
<1>6. LimitInv'
  <2> SUFFICES ASSUME NEW t \in Sessions
               PROVE  rows'[t].count + Cardinality(ExtendersOf(t)')
                        < MaxExtensions + Cardinality(Extenders)
    BY DEF LimitInv
  <2>1. CASE t = s
    <3>1. ExtendersOf(t)' \in SUBSET Extenders
      BY DEF ExtendersOf
    <3>2. /\ Cardinality(ExtendersOf(t)') <= Cardinality(Extenders)
          /\ Cardinality(ExtendersOf(t)') \in Nat /\ Cardinality(Extenders) \in Nat
      BY <3>1, Sizes
    <3> QED
      BY <1>1, <1>2, <2>1, <3>2, Constants
  <2>2. CASE t # s
    <3>1. ExtendersOf(t)' \subseteq ExtendersOf(t) /\ ExtendersOf(t) \in SUBSET Extenders
      BY <1>1, <1>2, <2>2 DEF ExtendersOf
    <3>2. Cardinality(ExtendersOf(t)') <= Cardinality(ExtendersOf(t))
      BY <3>1, Sizes, Smaller
    <3>3. /\ Cardinality(ExtendersOf(t)') \in Nat /\ Cardinality(ExtendersOf(t)) \in Nat
          /\ Cardinality(Extenders) \in Nat /\ rows[t].count \in Nat
      BY <3>1, Sizes DEF IInv, BaseInv, TypeOK, RowsTypeOK, Row
    <3>4. rows[t].count + Cardinality(ExtendersOf(t)) < MaxExtensions + Cardinality(Extenders)
      BY DEF IInv, BaseInv, LimitInv
    <3> QED
      BY <1>1, <3>2, <3>3, <3>4, Constants
  <2> QED
    BY <2>1, <2>2
<1>7. TimeInv'
  <2>1. ExtendedTimeIsCounted /\ ExtendedTimeIsCounted'
    BY <1>1 DEF IInv, BaseInv, TimeInv, ExtendedTimeIsCounted
  <2>2. NewExpiration(s, e) <= now + rows[s].minutes + e
    BY <1>2, <2>1 DEF ExtendedTimeIsCounted, NewExpiration
  <2>3. ASSUME NEW y \in Extenders, extending'[y].s # NONE
        PROVE  extending'[y].until <= now + rows[extending'[y].s].minutes + extending'[y].minutes
    <3>1. CASE y = x
      BY <1>1, <1>2, <2>2, <3>1
    <3>2. CASE y # x
      BY <1>1, <1>2, <2>3, <3>2 DEF IInv, BaseInv, TimeInv
    <3> QED
      BY <3>1, <3>2
  <2> QED
    BY <1>1, <2>1, <2>3 DEF TimeInv
<1>8. BillsInv'
  BY <1>1 DEF IInv, BaseInv, BillsInv, TransfersMatchRecord
<1>9. BalanceInv'
  BY KeepsBalance, KeepsToRun DEF ExtendSession, MayExtend, NewExpiration, requests, batch
<1> QED
  BY <1>1, <1>2, <1>3, <1>4, <1>5, <1>6, <1>7, <1>8, <1>9 DEF IInv, BaseInv, TypeOK

\* An extension counts itself and its minutes together with its end.
LEMMA StepUpdateExtension ==
  ASSUME IInv, NEW x \in Extenders, UpdateExtension(x)
  PROVE  BaseInv'
<1>1. extending[x] \in [s: Sessions, until: Nat, minutes: Extensions]
  BY DEF IInv, BaseInv, TypeOK, RequestsTypeOK, UpdateExtension
<1>2. /\ rows \in [Sessions -> Row] /\ now \in Nat
      /\ extending[x].s \in Sessions /\ extending[x].until \in Nat /\ extending[x].minutes \in Nat
  BY <1>1, Constants DEF IInv, BaseInv, TypeOK, RowsTypeOK
<1>3. /\ extending' = [extending EXCEPT ![x] = NotExtending]
      /\ \/ UNCHANGED rows
         \/ rows' = [rows EXCEPT ![extending[x].s] = Extended(rows[extending[x].s], extending[x])]
      /\ UNCHANGED <<now, creating, writing, bills, paying, paid, balance, unchecked>>
  BY DEF UpdateExtension, batch
<1>4. \A t \in Sessions :
        /\ rows'[t].state = rows[t].state /\ rows'[t].settled = rows[t].settled
        /\ \/ /\ rows'[t].count = rows[t].count /\ rows'[t].until = rows[t].until
              /\ rows'[t].minutes = rows[t].minutes
           \/ /\ t = extending[x].s
              /\ rows'[t].count = rows[t].count + 1
              /\ rows'[t].until = extending[x].until
              /\ rows'[t].minutes = rows[t].minutes + extending[x].minutes
  <2>1. CASE UNCHANGED rows
    BY <2>1
  <2>2. CASE rows' = [rows EXCEPT ![extending[x].s] = Extended(rows[extending[x].s], extending[x])]
    <3>1. /\ rows'[extending[x].s] = Extended(rows[extending[x].s], extending[x])
          /\ \A t \in Sessions : t # extending[x].s => rows'[t] = rows[t]
      BY <1>2, <2>2
    <3>2. rows[extending[x].s] \in Row
      BY <1>2
    <3> QED
      BY <1>2, <3>1, <3>2, ExtendedFields
  <2> QED
    BY <1>3, <2>1, <2>2
<1>5. BatchTypeOK'
  BY DEF IInv, BaseInv, TypeOK, UpdateExtension, BatchTypeOK, requests, batch, Fault
<1>6. RowsTypeOK'
  <2>1. Extended(rows[extending[x].s], extending[x]) \in Row
    BY <1>2, ExtendedFields
  <2> QED
    BY <1>2, <1>3, <2>1 DEF RowsTypeOK
<1>7. RequestsTypeOK'
  BY <1>3 DEF IInv, BaseInv, TypeOK, RequestsTypeOK, UpdateExtension
<1>8. BoundsTypeOK'
  BY Constants DEF IInv, BaseInv, TypeOK, UpdateExtension, Extended, Fault, BoundsTypeOK,
     requests, batch
<1>9. QuotaInv'
  BY <1>3, <1>4, KeepsQuota DEF In, Active, ToRun, Passed
<1>10. LimitInv'
  <2> SUFFICES ASSUME NEW t \in Sessions
               PROVE  rows'[t].count + Cardinality(ExtendersOf(t)')
                        < MaxExtensions + Cardinality(Extenders)
    BY DEF LimitInv
  <2>1. extending \in [Extenders -> [s: Sessions, until: Nat, minutes: Extensions]
                                    \cup {NotExtending}]
    BY DEF IInv, BaseInv, TypeOK, RequestsTypeOK
  <2>2. ExtendersOf(t)' = ExtendersOf(t) \ {x} /\ ExtendersOf(t) \in SUBSET Extenders
    BY <1>3, <2>1, Constants DEF ExtendersOf, NotExtending
  <2>3. IsFiniteSet(ExtendersOf(t))
    BY <2>2, Sizes
  <2>4. /\ Cardinality(ExtendersOf(t)) \in Nat /\ Cardinality(Extenders) \in Nat
        /\ rows[t].count \in Nat
    BY <1>2, <2>2, Sizes DEF Row
  <2>5. Cardinality(ExtendersOf(t)') =
          IF x \in ExtendersOf(t) THEN Cardinality(ExtendersOf(t)) - 1
          ELSE Cardinality(ExtendersOf(t))
    BY <2>2, <2>3, FS_RemoveElement
  <2>6. t = extending[x].s => x \in ExtendersOf(t)
    BY DEF ExtendersOf
  <2>7. rows'[t].count = rows[t].count
          \/ (rows'[t].count = rows[t].count + 1 /\ x \in ExtendersOf(t))
    BY <1>4, <2>6
  <2>8. rows[t].count + Cardinality(ExtendersOf(t)) < MaxExtensions + Cardinality(Extenders)
    BY DEF IInv, BaseInv, LimitInv
  <2> QED
    BY <2>4, <2>5, <2>7, <2>8, Constants
<1>11. TimeInv'
  <2>1. \A t \in Sessions : /\ rows[t].until \in Nat /\ rows[t].minutes \in Nat
                            /\ rows'[t].minutes \in Nat /\ rows'[t].minutes >= rows[t].minutes
    BY <1>2, <1>4 DEF Row
  <2>2. extending[x].until <= now + rows[extending[x].s].minutes + extending[x].minutes
    BY <1>1, Constants DEF IInv, BaseInv, TimeInv
  <2>3. ASSUME NEW t \in Sessions, rows'[t].until # 0
        PROVE  rows'[t].until <= now + rows'[t].minutes
    <3>1. rows[t].until # 0 => rows[t].until <= now + rows[t].minutes
      BY DEF IInv, BaseInv, TimeInv, ExtendedTimeIsCounted
    <3>2. CASE rows'[t].until = rows[t].until /\ rows'[t].minutes = rows[t].minutes
      BY <2>3, <3>1, <3>2
    <3>3. CASE /\ t = extending[x].s /\ rows'[t].until = extending[x].until
               /\ rows'[t].minutes = rows[t].minutes + extending[x].minutes
      BY <1>2, <2>1, <2>2, <3>3
    <3> QED
      BY <1>4, <3>2, <3>3
  <2>4. ASSUME NEW y \in Extenders, extending'[y].s # NONE
        PROVE  extending'[y].until <= now + rows'[extending'[y].s].minutes + extending'[y].minutes
    <3>1. extending'[y] = extending[y] /\ extending[y].s # NONE
      BY <1>3, <2>4 DEF IInv, BaseInv, TypeOK, RequestsTypeOK, NotExtending
    <3>2. /\ extending[y].s \in Sessions /\ extending[y].until \in Nat
          /\ extending[y].minutes \in Nat
      BY <3>1, ExtenderType
    <3>3. extending[y].until <= now + rows[extending[y].s].minutes + extending[y].minutes
      BY <3>1 DEF IInv, BaseInv, TimeInv
    <3> QED
      BY <1>2, <2>1, <3>1, <3>2, <3>3
  <2> QED
    BY <1>3, <2>3, <2>4 DEF TimeInv, ExtendedTimeIsCounted
<1>12. BillsInv'
  BY <1>3, <1>4 DEF IInv, BaseInv, TypeOK, BatchTypeOK, Bill, NoBill, BillsInv, TransfersMatchRecord
<1>13. BalanceInv'
  BY <1>3, <1>4, KeepsBalance, KeepsToRun
<1> QED
  BY <1>1, <1>2, <1>3, <1>4, <1>5, <1>6, <1>7, <1>8, <1>9, <1>10, <1>11, <1>12,
     <1>13 DEF IInv, BaseInv, TypeOK

\* What a writer has loaded: a copy with the state that was asked for; a start
\* is new only if the session is to run, and no time is in the future.
LEMMA Loaded ==
  ASSUME IInv, NEW x \in Writers, NEW s \in Sessions, NEW to \in {"RUNNING", "STOPPED", "FAILED"},
         LoadAndValidateTransition(x, s, to)
  PROVE  \E c \in Copy :
           /\ writing' = [writing EXCEPT ![x] = c] /\ writing[x] = NotWriting
           /\ c.s = s /\ c.to = to
           /\ \/ rows[s].state = "PENDING" /\ to \in {"RUNNING", "FAILED"}
              \/ rows[s].state = "RUNNING" /\ to \in {"STOPPED", "FAILED"}
           /\ to # "RUNNING" => c.start = rows[s].start
           /\ c.start \in {rows[s].start} \cup 1..now /\ c.end \in {rows[s].end} \cup 1..now
<1>1. rows[s].start \in Nat /\ rows[s].end \in Nat /\ now \in Nat
  BY DEF IInv, BaseInv, TypeOK, RowsTypeOK, Row
<1>2. PICK time \in 1..now :
        writing' = [writing EXCEPT ![x] =
            IF to = "RUNNING" THEN [s |-> s, to |-> to, start |-> time, end |-> rows[s].end]
            ELSE [s |-> s, to |-> to, start |-> rows[s].start, end |-> time]]
  BY DEF LoadAndValidateTransition
<1>3. writing[x] = NotWriting /\ CanTransitionTo(rows[s].state, to)
  BY DEF LoadAndValidateTransition
<1>4. CASE to = "RUNNING"
  <2> DEFINE c == [s |-> s, to |-> to, start |-> time, end |-> rows[s].end]
  <2>1. c \in Copy
    BY <1>1 DEF Copy
  <2>2. writing' = [writing EXCEPT ![x] = c]
    BY <1>2, <1>4
  <2>3. c.s = s /\ c.to = to /\ c.start \in 1..now /\ c.end = rows[s].end
    OBVIOUS
  <2>4. rows[s].state = "PENDING"
    BY <1>3, <1>4 DEF CanTransitionTo
  <2>5. /\ to # "RUNNING" => c.start = rows[s].start
        /\ c.start \in {rows[s].start} \cup 1..now /\ c.end \in {rows[s].end} \cup 1..now
    BY <1>4, <2>3
  <2> HIDE DEF c
  <2> WITNESS c \in Copy
  <2> QED
    BY <1>3, <1>4, <2>2, <2>3, <2>4, <2>5
<1>5. CASE to # "RUNNING"
  <2> DEFINE c == [s |-> s, to |-> to, start |-> rows[s].start, end |-> time]
  <2>1. c \in Copy
    BY <1>1 DEF Copy
  <2> QED
    BY <1>2, <1>3, <1>5, <2>1 DEF CanTransitionTo
<1> QED
  BY <1>4, <1>5

\* What a write does: it changes one row, and of that the state and the times.
LEMMA Updated ==
  ASSUME IInv, NEW x \in Writers, Update(x)
  PROVE  /\ writing[x] \in Copy /\ writing' = [writing EXCEPT ![x] = NotWriting]
         /\ UNCHANGED <<now, creating, extending, expiring, bills, paying, paid, balance, unchecked>>
         /\ rows' \in [Sessions -> Row]
         /\ \A t \in Sessions :
              /\ rows'[t].count = rows[t].count /\ rows'[t].until = rows[t].until
              /\ rows'[t].minutes = rows[t].minutes /\ rows'[t].settled = rows[t].settled
              /\ \/ rows'[t] = rows[t]
                 \/ /\ t = writing[x].s /\ rows'[t].state = writing[x].to
                    /\ rows'[t].start = writing[x].start /\ rows'[t].end = writing[x].end
<1> DEFINE c == writing[x]
<1>1. c \in Copy /\ rows \in [Sessions -> Row]
  BY DEF IInv, BaseInv, TypeOK, RowsTypeOK, RequestsTypeOK, Update
<1>2. c.s \in Sessions
  BY <1>1 DEF Copy
<1>3. LET w == Written(rows[c.s], c)
      IN  /\ w \in Row /\ w.count = rows[c.s].count /\ w.until = rows[c.s].until
          /\ w.minutes = rows[c.s].minutes /\ w.settled = rows[c.s].settled
          /\ w.state = c.to /\ w.start = c.start /\ w.end = c.end
  BY <1>1, <1>2 DEF Written, Row, Copy
<1>4. UNCHANGED rows \/ rows' = [rows EXCEPT ![c.s] = Written(rows[c.s], c)]
  BY DEF Update
<1>5. /\ writing' = [writing EXCEPT ![x] = NotWriting]
      /\ UNCHANGED <<now, creating, extending, expiring, bills, paying, paid, balance, unchecked>>
  BY DEF Update, batch
<1> QED
  BY <1>1, <1>2, <1>3, <1>4, <1>5

\* Loading a row changes none.
LEMMA StepLoad ==
  ASSUME IInv, NEW x \in Writers, NEW s \in Sessions, NEW to \in {"RUNNING", "STOPPED", "FAILED"},
         LoadAndValidateTransition(x, s, to), expiring' \subseteq Sessions,
         UNCHANGED <<now, rows, creating, extending, batch, paid, balance, unchecked, faults>>
  PROVE  BaseInv'
<1>1. RowsTypeOK' /\ BatchTypeOK' /\ BoundsTypeOK'
  BY DEF IInv, BaseInv, TypeOK, RowsTypeOK, BatchTypeOK, BoundsTypeOK, batch
<1>2. PICK c \in Copy :
        /\ writing' = [writing EXCEPT ![x] = c] /\ c.s = s /\ c.to = to
        /\ to = "RUNNING" => rows[s].state = "PENDING"
  BY Loaded
<1>3. writing \in [Writers -> Copy \cup {NotWriting}]
  BY DEF IInv, BaseInv, TypeOK, RequestsTypeOK
<1>4. RequestsTypeOK'
  BY <1>2, <1>3 DEF IInv, BaseInv, TypeOK, RequestsTypeOK
<1>5. \A t \in ToRun' : t \in ToRun \/ rows[t].state = "PENDING"
  BY <1>2, <1>3, Constants DEF ToRun
<1>6. QuotaInv'
  <2>1. In("PENDING")' = In("PENDING") /\ Active' = Active /\ Passed(1)' = Passed(1)
        /\ Passed(2)' = Passed(2)
    BY DEF In, Active, Passed
  <2>2. ToRun' \subseteq Active \cup ToRun
    BY <1>5 DEF Active, In, ToRun
  <2>3. (Active \cup ToRun)' \subseteq Active \cup ToRun
    BY <2>1, <2>2
  <2> QED
    BY <2>1, <2>3, KeepsQuota
<1>7. LimitInv' /\ TimeInv' /\ BillsInv'
  BY KeepsAccounts DEF IInv, BaseInv, TypeOK, RowsTypeOK, RequestsTypeOK, batch
<1>8. BalanceInv'
  BY <1>5, KeepsBalance
<1> QED
  BY <1>1, <1>4, <1>6, <1>7, <1>8 DEF BaseInv, TypeOK

\* So neither do the worker, the stoppers ...
LEMMA StepTransition ==
  ASSUME IInv, NEW x \in Stoppers \cup {WORKER}, NEW s \in Sessions,
         NEW to \in {"RUNNING", "STOPPED", "FAILED"}, Transition(x, s, to)
  PROVE  BaseInv'
<1>1. x \in Writers /\ expiring' \subseteq Sessions
  BY Constants DEF Transition, IInv, BaseInv, TypeOK, RequestsTypeOK
<1> QED
  BY <1>1, StepLoad DEF Transition

\* ... and the expiration worker.
LEMMA StepExpireSession ==
  ASSUME IInv, NEW s \in Sessions, ExpireSession(s)
  PROVE  BaseInv'
<1>1. /\ EXPIRER \in Writers /\ expiring' \subseteq Sessions
      /\ UNCHANGED <<now, rows, creating, extending, batch, paid, balance, unchecked, faults>>
  BY Constants DEF ExpireSession, IInv, BaseInv, TypeOK, RequestsTypeOK
<1>2. CASE LoadAndValidateTransition(EXPIRER, s, "STOPPED")
  BY <1>1, <1>2, StepLoad
<1>3. CASE UNCHANGED writing
  <2>1. TypeOK'
    BY <1>1, <1>3 DEF IInv, BaseInv, TypeOK, RowsTypeOK, RequestsTypeOK, BatchTypeOK,
       BoundsTypeOK, batch
  <2>2. QuotaInv'
    BY <1>1, <1>3, KeepsQuota DEF In, Active, ToRun, Passed
  <2>3. LimitInv' /\ TimeInv' /\ BillsInv'
    BY <1>1, KeepsAccounts DEF IInv, BaseInv, TypeOK, RowsTypeOK, RequestsTypeOK, batch
  <2>4. BalanceInv'
    BY <1>1, <1>3, KeepsBalance, KeepsToRun
  <2> QED
    BY <2>1, <2>2, <2>3, <2>4 DEF BaseInv
<1> QED
  BY <1>2, <1>3 DEF ExpireSession

\* A late write makes no session pending, and running only the one that the
\* worker is about to start.
LEMMA StepUpdate ==
  ASSUME IInv, NEW x \in Writers, Update(x)
  PROVE  BaseInv'
<1> DEFINE c == writing[x]
<1>1. /\ c \in Copy /\ writing' = [writing EXCEPT ![x] = NotWriting]
      /\ UNCHANGED <<now, creating, extending, expiring, bills, paying, paid, balance, unchecked>>
      /\ rows' \in [Sessions -> Row]
  BY Updated
<1>2. \A t \in Sessions :
        /\ rows'[t].count = rows[t].count /\ rows'[t].until = rows[t].until
        /\ rows'[t].minutes = rows[t].minutes /\ rows'[t].settled = rows[t].settled
        /\ rows'[t] = rows[t] \/ (t = c.s /\ rows'[t].state = c.to)
  BY Updated
<1>3. c.to \in {"RUNNING", "STOPPED", "FAILED"} /\ c.s \in Sessions
  BY <1>1 DEF Copy
<1>4. c.to = "RUNNING" => c.s \in ToRun
  BY <1>3 DEF IInv, StartInv, ToRun
<1>5. ToRun' \subseteq ToRun
  BY <1>1, Constants DEF ToRun, NotWriting, IInv, BaseInv, TypeOK, RequestsTypeOK
<1>6. RowsTypeOK' /\ BatchTypeOK'
  BY <1>1 DEF IInv, BaseInv, TypeOK, RowsTypeOK, BatchTypeOK
<1>7. RequestsTypeOK'
  BY <1>1 DEF IInv, BaseInv, TypeOK, RequestsTypeOK
<1>8. BoundsTypeOK'
  BY Constants DEF IInv, BaseInv, TypeOK, Update, Fault, BoundsTypeOK
<1>9. QuotaInv'
  <2>1. In("PENDING")' \subseteq In("PENDING")
    BY <1>2, <1>3 DEF In
  <2>2. (Active \cup ToRun)' \subseteq Active \cup ToRun
    BY <1>2, <1>3, <1>4, <1>5 DEF In, Active
  <2> QED
    BY <1>1, <2>1, <2>2, KeepsQuota DEF Passed
<1>10. LimitInv' /\ TimeInv' /\ BillsInv'
  BY <1>1, <1>2, KeepsAccounts DEF IInv, BaseInv, TypeOK, RowsTypeOK
<1>11. BalanceInv'
  BY <1>1, <1>2, <1>3, <1>4, <1>5, KeepsBalance
<1> QED
  BY <1>6, <1>7, <1>8, <1>9, <1>10, <1>11 DEF BaseInv, TypeOK

\* Listing changes no row.
LEMMA StepFindExpiringSessions ==
  ASSUME IInv, FindExpiringSessions
  PROVE  BaseInv'
<1>1. RowsTypeOK' /\ BatchTypeOK' /\ BoundsTypeOK'
  BY DEF IInv, BaseInv, TypeOK, FindExpiringSessions, RowsTypeOK, BatchTypeOK, BoundsTypeOK,
     requests, batch
<1>2. RequestsTypeOK'
  BY Constants DEF IInv, BaseInv, TypeOK, FindExpiringSessions, In, RequestsTypeOK,
     NotExtending, NotWriting, NoBalance, requests, batch
<1>3. QuotaInv'
  BY KeepsQuota DEF FindExpiringSessions, In, Active, ToRun, Passed, requests, batch
<1>4. LimitInv' /\ TimeInv' /\ BillsInv'
  BY KeepsAccounts DEF FindExpiringSessions, In, IInv, BaseInv, TypeOK, RowsTypeOK,
     RequestsTypeOK, requests, batch
<1>5. BalanceInv'
  BY KeepsBalance, KeepsToRun DEF FindExpiringSessions, In, requests, batch
<1> QED
  BY <1>1, <1>2, <1>3, <1>4, <1>5 DEF IInv, BaseInv, TypeOK

\* The batch has one bill for every session without a settlement.
LEMMA StepProcessBatch ==
  ASSUME IInv, ProcessBatch
  PROVE  BaseInv'
<1>1. RowsTypeOK' /\ RequestsTypeOK' /\ BoundsTypeOK'
  BY DEF IInv, BaseInv, TypeOK, ProcessBatch, RowsTypeOK, RequestsTypeOK, BoundsTypeOK,
     requests, batch
<1>2. BatchTypeOK'
  <2>1. \A s \in Sessions : CalculateCost(rows[s].start, rows[s].end) \in Nat
    BY CostType DEF IInv, BaseInv, TypeOK, RowsTypeOK, Row
  <2> QED
    BY <2>1 DEF IInv, BaseInv, TypeOK, BatchTypeOK, Bill, ProcessBatch, FindAllPendingSettlement, In
<1>3. QuotaInv'
  BY KeepsQuota DEF ProcessBatch, FindAllPendingSettlement, In, Active, ToRun, Passed, requests,
     batch
<1>4. LimitInv' /\ TimeInv'
  BY DEF ProcessBatch, IInv, BaseInv, LimitInv, TimeInv, ExtendersOf, ExtendedTimeIsCounted, requests
<1>5. BillsInv'
  BY DEF ProcessBatch, FindAllPendingSettlement, In, IInv, BaseInv, BillsInv, TransfersMatchRecord
<1>6. BalanceInv'
  BY KeepsBalance, KeepsToRun DEF ProcessBatch, FindAllPendingSettlement, In, requests, batch
<1> QED
  BY <1>1, <1>2, <1>3, <1>4, <1>5, <1>6 DEF IInv, BaseInv, TypeOK

\* A settlement is recorded for the first time.
LEMMA StepSettleSession ==
  ASSUME IInv, NEW b \in bills, SettleSession(b)
  PROVE  BaseInv'
<1>1. b.s \in Sessions /\ b.amount \in Nat /\ rows \in [Sessions -> Row] /\ b \in Bill /\ b # NoBill
  BY Constants DEF IInv, BaseInv, TypeOK, RowsTypeOK, BatchTypeOK, Bill, NoBill
<1>2. rows[b.s].settled = {} /\ paid[b.s] = 0
  <2>1. rows[b.s].settled = {}
    BY DEF IInv, BaseInv, BillsInv
  <2> QED
    BY <1>1, <2>1 DEF IInv, BaseInv, BillsInv, TransfersMatchRecord
<1>3. /\ \/ rows' = [rows EXCEPT ![b.s].settled = {b.amount}] /\ paying' \in {b, NoBill}
         \/ UNCHANGED rows /\ paying' = NoBill
      /\ bills' = bills \ {b}
      /\ UNCHANGED <<now, creating, extending, writing, balance, paid, unchecked>>
  BY DEF SettleSession, requests
<1>4. \A t \in Sessions : /\ rows'[t].count = rows[t].count /\ rows'[t].until = rows[t].until
                          /\ rows'[t].minutes = rows[t].minutes /\ rows'[t].state = rows[t].state
                          /\ t # b.s => rows'[t].settled = rows[t].settled
  BY <1>1, <1>3 DEF Row
<1>5. RequestsTypeOK'
  BY DEF IInv, BaseInv, TypeOK, SettleSession, RequestsTypeOK, requests, batch, Fault
<1>6. RowsTypeOK'
  BY <1>1, <1>3 DEF IInv, BaseInv, TypeOK, RowsTypeOK, Row
<1>7. BatchTypeOK'
  BY <1>1, <1>3 DEF IInv, BaseInv, TypeOK, BatchTypeOK
<1>8. BoundsTypeOK'
  BY Constants DEF IInv, BaseInv, TypeOK, SettleSession, Fault, BoundsTypeOK, requests, batch
<1>9. QuotaInv'
  BY <1>3, <1>4, KeepsQuota DEF In, Active, ToRun, Passed
<1>10. LimitInv'
  BY <1>3, <1>4 DEF IInv, BaseInv, LimitInv, ExtendersOf
<1>11. TimeInv'
  <2>1. ExtendedTimeIsCounted'
    BY <1>3, <1>4 DEF IInv, BaseInv, TimeInv, ExtendedTimeIsCounted
  <2>2. \A x \in Extenders : extending[x].s # NONE => extending[x].s \in Sessions
    BY DEF IInv, BaseInv, TypeOK, RequestsTypeOK, NotExtending
  <2> QED
    BY <1>3, <1>4, <2>1, <2>2 DEF IInv, BaseInv, TimeInv
<1>12. BillsInv'
  <2>1. CASE UNCHANGED rows /\ paying' = NoBill
    BY <1>3, <2>1 DEF IInv, BaseInv, BillsInv, TransfersMatchRecord
  <2>2. CASE rows' = [rows EXCEPT ![b.s].settled = {b.amount}] /\ paying' \in {b, NoBill}
    <3>1. rows'[b.s].settled = {b.amount}
      BY <1>1, <2>2 DEF Row
    <3>2. TransfersMatchRecord'
      BY <1>2, <1>3, <1>4 DEF IInv, BaseInv, BillsInv, TransfersMatchRecord
    <3>3. \A c \in bills' : c.s \in Sessions /\ c.s # b.s
      BY <1>3 DEF IInv, BaseInv, TypeOK, BatchTypeOK, Bill, BillsInv
    <3>4. \A c \in bills' : rows'[c.s].settled = {} /\ \A d \in bills' : c.s = d.s => c = d
      BY <1>3, <1>4, <3>3 DEF IInv, BaseInv, BillsInv
    <3> QED
      BY <1>2, <1>3, <2>2, <3>1, <3>2, <3>4 DEF BillsInv
  <2> QED
    BY <1>3, <2>1, <2>2
<1>13. BalanceInv'
  BY <1>3, <1>4, KeepsBalance, KeepsToRun
<1> QED
  BY <1>1, <1>2, <1>3, <1>4, <1>5, <1>6, <1>7, <1>8, <1>9, <1>10, <1>11, <1>12,
     <1>13 DEF IInv, BaseInv, TypeOK

\* The one transfer for a session is of the recorded amount.
LEMMA StepTransferSettlement ==
  ASSUME IInv, TransferSettlement
  PROVE  BaseInv'
<1>1. paying \in Bill /\ paying.s \in Sessions /\ paying.amount \in Nat /\ paid \in [Sessions -> Nat]
  BY DEF IInv, BaseInv, TypeOK, BatchTypeOK, Bill, TransferSettlement
<1>2. rows[paying.s].settled = {paying.amount} /\ paid[paying.s] = 0
  BY DEF IInv, BaseInv, BillsInv, TransferSettlement
<1>3. /\ paying' = NoBill /\ UNCHANGED <<now, rows, creating, extending, writing, bills, balance, unchecked>>
      /\ \/ UNCHANGED paid
         \/ paid' = [paid EXCEPT ![paying.s] = paying.amount]
  BY <1>1, <1>2 DEF TransferSettlement, requests
<1>4. RowsTypeOK' /\ RequestsTypeOK'
  BY DEF IInv, BaseInv, TypeOK, TransferSettlement, RowsTypeOK, RequestsTypeOK, requests,
     batch, Fault
<1>5. BatchTypeOK'
  BY <1>1, <1>3 DEF IInv, BaseInv, TypeOK, BatchTypeOK
<1>6. BoundsTypeOK'
  BY Constants DEF IInv, BaseInv, TypeOK, TransferSettlement, Fault, BoundsTypeOK, requests,
     batch
<1>7. QuotaInv'
  BY <1>3, KeepsQuota DEF In, Active, ToRun, Passed
<1>8. LimitInv' /\ TimeInv'
  BY <1>3 DEF IInv, BaseInv, LimitInv, TimeInv, ExtendersOf, ExtendedTimeIsCounted
<1>9. BillsInv'
  BY <1>1, <1>2, <1>3 DEF IInv, BaseInv, BillsInv, TransfersMatchRecord
<1>10. BalanceInv'
  BY <1>3, KeepsBalance, KeepsToRun
<1> QED
  BY <1>1, <1>2, <1>3, <1>4, <1>5, <1>6, <1>7, <1>8, <1>9, <1>10 DEF IInv, BaseInv, TypeOK

\* The first query counts what runs; the rest of what is due has stopped.
LEMMA StepBalanceRead1 ==
  ASSUME IInv, BalanceRead1
  PROVE  BaseInv'
<1>1. RowsTypeOK' /\ BatchTypeOK' /\ BoundsTypeOK'
  BY DEF IInv, BaseInv, TypeOK, BalanceRead1, RowsTypeOK, BatchTypeOK, BoundsTypeOK,
     requests, batch
<1>2. RequestsTypeOK'
  BY Constants DEF IInv, BaseInv, TypeOK, BalanceRead1, Due, In, RequestsTypeOK, NotExtending,
     NotWriting, NoBalance, requests, batch
<1>3. QuotaInv'
  BY KeepsQuota DEF BalanceRead1, In, Active, ToRun, Passed, requests, batch
<1>4. LimitInv' /\ TimeInv' /\ BillsInv'
  BY KeepsAccounts DEF BalanceRead1, IInv, BaseInv, TypeOK, RowsTypeOK, RequestsTypeOK,
     requests, batch
<1>5. BalanceInv'
  <2>1. /\ balance'.pc = "running" /\ balance'.due \subseteq In("RUNNING") \cup In("STOPPED")
        /\ balance'.counted = In("RUNNING") /\ ToRun' = ToRun /\ rows' = rows
    BY KeepsToRun DEF BalanceRead1, Due
  <2>2. \A s \in In("STOPPED") : rows[s].state = "STOPPED" /\ s \notin ToRun
    BY DEF IInv, StartInv, Unstarted, In, NONE
  <2> QED
    BY <2>1, <2>2 DEF BalanceInv, BalanceMissesNothing
<1> QED
  BY <1>1, <1>2, <1>3, <1>4, <1>5 DEF IInv, BaseInv, TypeOK

\* The second query counts what has stopped.
LEMMA StepBalanceRead2 ==
  ASSUME IInv, BalanceRead2
  PROVE  BaseInv'
<1>1. RowsTypeOK' /\ BatchTypeOK' /\ BoundsTypeOK'
  BY DEF IInv, BaseInv, TypeOK, BalanceRead2, RowsTypeOK, BatchTypeOK, BoundsTypeOK,
     requests, batch
<1>2. RequestsTypeOK'
  BY Constants DEF IInv, BaseInv, TypeOK, BalanceRead2, In, RequestsTypeOK, NotExtending,
     NotWriting, NoBalance, requests, batch
<1>3. QuotaInv'
  BY KeepsQuota DEF BalanceRead2, In, Active, ToRun, Passed, requests, batch
<1>4. LimitInv' /\ TimeInv' /\ BillsInv'
  BY KeepsAccounts DEF BalanceRead2, IInv, BaseInv, TypeOK, RowsTypeOK, RequestsTypeOK,
     requests, batch
<1>5. BalanceInv'
  <2>1. balance.due \subseteq Sessions
    BY DEF IInv, BaseInv, TypeOK, RequestsTypeOK
  <2>2. \A s \in balance.due : s \in balance.counted \/ rows[s].state \in {"STOPPED", "FAILED"}
    BY DEF IInv, BaseInv, BalanceInv, BalanceRead2
  <2>3. /\ balance'.pc = "done" /\ balance'.counted = balance.counted \cup In("STOPPED")
        /\ \A s \in balance'.due : s \in balance.due /\ rows[s].state # "FAILED"
    BY DEF IInv, BaseInv, TypeOK, RequestsTypeOK, BalanceRead2
  <2>4. balance'.due \subseteq balance'.counted
    BY <2>1, <2>2, <2>3 DEF In
  <2> QED
    BY <2>3, <2>4 DEF BalanceInv, BalanceMissesNothing
<1> QED
  BY <1>1, <1>2, <1>3, <1>4, <1>5 DEF IInv, BaseInv, TypeOK

\* Nothing is known of the next balance.
LEMMA StepBalanceReply ==
  ASSUME IInv, BalanceReply
  PROVE  BaseInv'
<1>1. RowsTypeOK' /\ BatchTypeOK' /\ BoundsTypeOK'
  BY Constants DEF IInv, BaseInv, TypeOK, BalanceReply, Fault, RowsTypeOK, BatchTypeOK, BoundsTypeOK,
     requests, batch
<1>2. RequestsTypeOK'
  BY Constants DEF IInv, BaseInv, TypeOK, BalanceReply, In, RequestsTypeOK, NotExtending,
     NotWriting, NoBalance, requests, batch
<1>3. QuotaInv'
  BY KeepsQuota DEF BalanceReply, In, Active, ToRun, Passed, requests, batch
<1>4. LimitInv' /\ TimeInv' /\ BillsInv'
  BY KeepsAccounts DEF BalanceReply, IInv, BaseInv, TypeOK, RowsTypeOK, RequestsTypeOK,
     requests, batch
<1>5. BalanceInv'
  BY DEF BalanceReply, BalanceInv, BalanceMissesNothing, NoBalance
<1> QED
  BY <1>1, <1>2, <1>3, <1>4, <1>5 DEF IInv, BaseInv, TypeOK

\* Time only passes.
LEMMA StepTick ==
  ASSUME IInv, Tick
  PROVE  BaseInv'
<1>1. RequestsTypeOK' /\ BatchTypeOK' /\ BoundsTypeOK'
  BY DEF IInv, BaseInv, TypeOK, Tick, RequestsTypeOK, BatchTypeOK, BoundsTypeOK, requests,
     batch
<1>2. RowsTypeOK'
  BY Constants DEF IInv, BaseInv, TypeOK, Tick, RowsTypeOK, Row, requests, batch
<1>3. QuotaInv'
  BY KeepsQuota DEF Tick, In, Active, ToRun, Passed, requests, batch
<1>4. LimitInv' /\ TimeInv' /\ BillsInv'
  BY KeepsAccounts DEF Tick, IInv, BaseInv, TypeOK, RowsTypeOK, RequestsTypeOK, requests,
     batch
<1>5. BalanceInv'
  BY KeepsBalance, KeepsToRun DEF Tick, requests, batch
<1> QED
  BY <1>1, <1>2, <1>3, <1>4, <1>5 DEF IInv, BaseInv, TypeOK

\* Everything in memory is forgotten.
LEMMA StepCrash ==
  ASSUME IInv, Crash
  PROVE  BaseInv'
<1>1. RowsTypeOK'
  BY DEF IInv, BaseInv, TypeOK, Crash, RowsTypeOK, requests, batch, Fault
<1>2. RequestsTypeOK'
  BY Constants DEF IInv, BaseInv, TypeOK, Crash, NoBalance, NotExtending, Fault,
     RequestsTypeOK, NotWriting, requests, batch
<1>3. BatchTypeOK'
  BY Constants DEF IInv, BaseInv, TypeOK, Crash, NoBalance, NotExtending, Fault, BatchTypeOK,
     Bill, NoBill, requests, batch
<1>4. BoundsTypeOK'
  BY Constants DEF IInv, BaseInv, TypeOK, Crash, NoBalance, NotExtending, Fault,
     BoundsTypeOK, requests, batch
<1>5. QuotaInv'
  <2>1. ToRun' = {} /\ Passed(1)' = {} /\ Passed(2)' = {}
    BY Constants DEF Crash, ToRun, NotWriting, Passed
  <2> QED
    BY <2>1, KeepsQuota DEF Crash, In, Active
<1>6. LimitInv' /\ TimeInv' /\ BillsInv'
  BY KeepsAccounts DEF Crash, NoBalance, NotExtending, Fault, IInv, BaseInv, TypeOK,
     RowsTypeOK, RequestsTypeOK, requests, batch
<1>7. BalanceInv'
  BY DEF Crash, BalanceInv, BalanceMissesNothing, NoBalance
<1> QED
  BY <1>1, <1>2, <1>3, <1>4, <1>5, <1>6, <1>7 DEF IInv, BaseInv, TypeOK

-----------------------------------------------------------------------------
\* A session keeps nothing from running before it runs, if rows, bills and copies
\* stay and none is loaded.
LEMMA KeepsStart ==
  ASSUME IInv, \A x \in Writers : writing'[x] \in {writing[x], NotWriting},
         \A b \in bills' : b \in bills,
         \A s \in Sessions : /\ rows'[s].start = rows[s].start /\ rows'[s].settled = rows[s].settled
                             /\ rows'[s].state = rows[s].state
                                \/ (rows[s].state = NONE /\ rows'[s].state = "PENDING")
  PROVE  StartInv'
<1>1. \A x \in Writers : writing'[x].to = "RUNNING" => x = WORKER
  BY DEF IInv, StartInv, NotWriting, NONE
<1>2. ToRun' \subseteq ToRun
  BY Constants DEF ToRun, NotWriting
<1>3. ASSUME NEW s \in Sessions, rows'[s].state \in {NONE, "PENDING"} \/ s \in ToRun'
      PROVE  Unstarted(s)'
  <2>1. Unstarted(s)
    BY <1>2, <1>3 DEF IInv, StartInv
  <2>2. \A x \in Writers : writing'[x].s = s =>
          \/ writing'[x].to = "FAILED" /\ writing'[x].start = 0
          \/ x = WORKER /\ writing'[x].to = "RUNNING"
    BY <2>1, Constants DEF Unstarted, NotWriting
  <2> QED
    BY <2>1, <2>2 DEF Unstarted
<1> QED
  BY <1>1, <1>3 DEF StartInv

\* Only the worker starts a session, and only a pending one.
LEMMA StartsOnLoad ==
  ASSUME IInv, NEW x \in Writers, NEW s \in Sessions, NEW to \in {"RUNNING", "STOPPED", "FAILED"},
         LoadAndValidateTransition(x, s, to), to = "RUNNING" => x = WORKER,
         UNCHANGED <<rows, bills>>
  PROVE  StartInv'
<1>1. PICK c \in Copy :
        /\ writing' = [writing EXCEPT ![x] = c] /\ c.s = s /\ c.to = to
        /\ \/ rows[s].state = "PENDING" /\ to \in {"RUNNING", "FAILED"}
           \/ rows[s].state = "RUNNING" /\ to \in {"STOPPED", "FAILED"}
        /\ to # "RUNNING" => c.start = rows[s].start
  BY Loaded
<1>2. writing \in [Writers -> Copy \cup {NotWriting}] /\ WORKER \in Writers
  BY Constants DEF IInv, BaseInv, TypeOK, RequestsTypeOK
<1>3. \A y \in Writers : writing'[y].to = "RUNNING" => y = WORKER
  BY <1>1, <1>2 DEF IInv, StartInv
<1>4. ASSUME NEW t \in Sessions, rows'[t].state \in {NONE, "PENDING"} \/ t \in ToRun'
      PROVE  Unstarted(t)'
  <2>1. Unstarted(t)
    <3>1. t \in ToRun' => t \in ToRun \/ rows[t].state = "PENDING"
      BY <1>1, <1>2 DEF ToRun
    <3> QED
      BY <1>4, <3>1 DEF IInv, StartInv
  <2>2. ASSUME NEW y \in Writers, writing'[y].s = t
        PROVE  \/ writing'[y].to = "FAILED" /\ writing'[y].start = 0
               \/ y = WORKER /\ writing'[y].to = "RUNNING"
    <3>1. CASE y # x
      BY <1>1, <1>2, <2>1, <2>2, <3>1 DEF Unstarted
    <3>2. CASE y = x
      <4>1. writing'[y] = c /\ t = s
        BY <1>1, <1>2, <2>2, <3>2
      <4>2. rows[s].state # "RUNNING" /\ rows[s].start = 0
        BY <2>1, <4>1 DEF Unstarted, NONE
      <4> QED
        BY <1>1, <3>2, <4>1, <4>2
    <3> QED
      BY <3>1, <3>2
  <2> QED
    BY <2>1, <2>2 DEF Unstarted
<1> QED
  BY <1>3, <1>4 DEF StartInv

\* A late write to a session that has not run leaves it as if it never ran, but
\* for the worker's.
LEMMA StartsOnUpdate ==
  ASSUME IInv, NEW x \in Writers, Update(x)
  PROVE  StartInv'
<1> DEFINE c == writing[x]
<1>1. c \in Copy /\ writing' = [writing EXCEPT ![x] = NotWriting] /\ bills' = bills
  BY Updated
<1>2. \A t \in Sessions :
        /\ rows'[t].settled = rows[t].settled
        /\ rows'[t] = rows[t]
           \/ (t = c.s /\ rows'[t].state = c.to /\ rows'[t].start = c.start)
  BY Updated
<1>3. writing \in [Writers -> Copy \cup {NotWriting}] /\ WORKER \in Writers
      /\ c.to \in {"RUNNING", "STOPPED", "FAILED"} /\ c.s \in Sessions
  BY <1>1, Constants DEF IInv, BaseInv, TypeOK, RequestsTypeOK, Copy
<1>4. \A y \in Writers : writing'[y] \in {writing[y], NotWriting}
  BY <1>1, <1>3
<1>5. \A y \in Writers : writing'[y].to = "RUNNING" => y = WORKER
  BY <1>4 DEF IInv, StartInv, NotWriting, NONE
<1>6. ASSUME NEW t \in Sessions, rows'[t].state \in {NONE, "PENDING"} \/ t \in ToRun'
      PROVE  Unstarted(t)'
  <2>1. ToRun' \subseteq ToRun
    BY <1>3, <1>4, Constants DEF ToRun, NotWriting
  <2>2. Unstarted(t)
    BY <1>2, <1>3, <1>6, <2>1 DEF IInv, StartInv, NONE
  <2>3. \A y \in Writers : writing'[y].s = t =>
          \/ writing'[y].to = "FAILED" /\ writing'[y].start = 0
          \/ y = WORKER /\ writing'[y].to = "RUNNING"
    BY <1>4, <2>2, Constants DEF Unstarted, NotWriting
  <2>4. rows'[t].state \in {NONE, "PENDING", "FAILED"} /\ rows'[t].start = 0
    <3>1. CASE rows'[t] = rows[t]
      BY <2>2, <3>1 DEF Unstarted
    <3>2. CASE t = c.s /\ rows'[t].state = c.to /\ rows'[t].start = c.start
      <4>1. x = WORKER /\ c.to = "RUNNING" => t \notin ToRun' /\ rows'[t].state = "RUNNING"
        BY <1>1, <1>3, <3>2, Constants DEF ToRun, NotWriting
      <4>2. (c.to = "FAILED" /\ c.start = 0) \/ (x = WORKER /\ c.to = "RUNNING")
        BY <2>2, <3>2 DEF Unstarted
      <4> QED
        BY <1>6, <3>2, <4>1, <4>2 DEF NONE
    <3> QED
      BY <1>2, <3>1, <3>2
  <2> QED
    BY <1>1, <1>2, <2>2, <2>3, <2>4 DEF Unstarted
<1> QED
  BY <1>5, <1>6 DEF StartInv

\* A bill is for a session that has run.
LEMMA StartsOnBatch ==
  ASSUME IInv, Batch
  PROVE  StartInv'
<1>1. rows \in [Sessions -> Row] /\ bills \subseteq Bill
  BY DEF IInv, BaseInv, TypeOK, RowsTypeOK, BatchTypeOK
<1>2. writing' = writing /\ ToRun' = ToRun
  BY DEF Batch, ProcessBatch, SettleSession, TransferSettlement, requests, ToRun
<1>3. CASE ProcessBatch
  <2>1. rows' = rows /\ \A b \in bills' : rows[b.s].state = "STOPPED"
    BY <1>3 DEF ProcessBatch, FindAllPendingSettlement, In
  <2> QED
    BY <1>2, <2>1 DEF IInv, StartInv, Unstarted, NONE
<1>4. ASSUME NEW b \in bills, SettleSession(b) PROVE StartInv'
  <2>1. b.s \in Sessions /\ bills' \subseteq bills
    BY <1>1, <1>4 DEF SettleSession, Bill
  <2>2. \A s \in Sessions : /\ rows'[s].state = rows[s].state /\ rows'[s].start = rows[s].start
                            /\ s # b.s => rows'[s] = rows[s]
    <3>1. CASE rows' = [rows EXCEPT ![b.s].settled = {b.amount}]
      BY <1>1, <2>1, <3>1 DEF Row
    <3> QED
      BY <1>4, <3>1 DEF SettleSession
  <2>3. \A s \in Sessions : Unstarted(s) => s # b.s
    BY DEF Unstarted
  <2> QED
    BY <1>2, <2>1, <2>2, <2>3 DEF IInv, StartInv, Unstarted
<1>5. CASE TransferSettlement
  BY <1>2, <1>5, KeepsStart DEF TransferSettlement
<1> QED
  BY <1>3, <1>4, <1>5 DEF Batch

\* The rest leaves the copies and what a session gets from running alone.
LEMMA NextStartInv ==
  ASSUME IInv, [Next]_vars
  PROVE  StartInv'
<1>1. rows \in [Sessions -> Row] /\ writing \in [Writers -> Copy \cup {NotWriting}]
      /\ EXPIRER \in Writers /\ WORKER \in Writers /\ Stoppers \subseteq Writers
  BY Constants DEF IInv, BaseInv, TypeOK, RowsTypeOK, RequestsTypeOK
<1>2. ASSUME UNCHANGED rows, bills' \subseteq bills, writing' = writing
      PROVE  StartInv'
  BY <1>2, KeepsStart
<1>3. ASSUME NEW c, NEW s \in Sessions, CreateSession(c, s) PROVE StartInv'
  <2>1. rows[s].state = NONE /\ UNCHANGED <<bills, writing>>
    BY <1>3 DEF CreateSession, NoRow, batch
  <2>2. CASE rows' = [rows EXCEPT ![s].state = "PENDING"]
    BY <1>1, <2>1, <2>2, KeepsStart DEF Row
  <2> QED
    BY <1>2, <1>3, <2>1, <2>2 DEF CreateSession
<1>4. ASSUME NEW x \in Extenders, UpdateExtension(x) PROVE StartInv'
  <2> DEFINE u == extending[x]
  <2>1. u.s \in Sessions /\ u.until \in Nat /\ u.minutes \in Nat
    BY <1>4, ExtenderType, Constants DEF IInv, BaseInv, TypeOK, RequestsTypeOK, UpdateExtension
  <2>2. UNCHANGED rows \/ rows' = [rows EXCEPT ![u.s] = Extended(rows[u.s], u)]
    BY <1>4 DEF UpdateExtension
  <2>3. LET e == Extended(rows[u.s], u)
        IN  /\ e.settled = rows[u.s].settled /\ e.state = rows[u.s].state
            /\ e.start = rows[u.s].start
    BY <1>1, <2>1 DEF Extended, Row
  <2>4. UNCHANGED <<bills, writing>>
    BY <1>4 DEF UpdateExtension, batch
  <2> QED
    BY <1>1, <2>1, <2>2, <2>3, <2>4, KeepsStart
<1>5. ASSUME NEW x \in Stoppers \cup {WORKER}, NEW s \in Sessions,
             NEW to \in {"RUNNING", "STOPPED", "FAILED"}, Transition(x, s, to)
      PROVE  StartInv'
  BY <1>1, <1>5, StartsOnLoad DEF Transition, batch
<1>6. CASE Expirer
  <2>1. CASE FindExpiringSessions
    BY <1>2, <2>1 DEF FindExpiringSessions, requests, batch
  <2>2. ASSUME NEW s \in Sessions, ExpireSession(s) PROVE StartInv'
    BY <1>1, <1>2, <2>2, StartsOnLoad DEF ExpireSession, batch
  <2> QED
    BY <1>6, <2>1, <2>2 DEF Expirer
<1>7. CASE BalanceRead1 \/ BalanceRead2 \/ BalanceReply \/ Tick \/ UNCHANGED vars
  BY <1>2, <1>7 DEF BalanceRead1, BalanceRead2, BalanceReply, Tick, vars, requests, batch
<1>8. CASE Crash
  BY <1>8, KeepsStart DEF Crash
<1>9. ASSUME NEW c, NEW i, QuotaCheck(c, i) \/ QuotaRefuse(c, i) PROVE StartInv'
  BY <1>2, <1>9 DEF QuotaCheck, QuotaRefuse, batch
<1>10. ASSUME NEW x, NEW s, NEW e, ExtendSession(x, s, e) PROVE StartInv'
  BY <1>2, <1>10 DEF ExtendSession, batch
<1> QED
  BY <1>3, <1>4, <1>5, <1>6, <1>7, <1>8, <1>9, <1>10, StartsOnUpdate, StartsOnBatch DEF Next

-----------------------------------------------------------------------------
\* The invariant holds at the start.
LEMMA InitIInv == Init => IInv
<1> SUFFICES ASSUME Init PROVE IInv
  OBVIOUS
<1>s. StartInv
  BY Constants DEF Init, NoRequests, StartInv, Unstarted, ToRun, NoRow, NotWriting, NONE
<1>1. TypeOK
  BY Constants DEF Init, NoRequests, TypeOK, RowsTypeOK, RequestsTypeOK, BatchTypeOK,
     BoundsTypeOK, Row, NoRow, NoBalance
<1>2. QuotaInv
  <2>1. In("PENDING") = {} /\ Active \cup ToRun = {} /\ Passed(1) = {} /\ Passed(2) = {}
    BY Constants DEF Init, NoRequests, In, Active, ToRun, Passed, NoRow, NotWriting, NONE
  <2>2. Cardinality({}) = 0 /\ Cardinality(Creators) \in Nat /\ unchecked = 0
    BY Sizes, FS_EmptySet DEF Init
  <2>3. /\ Cardinality(In("PENDING")) = 0 /\ Cardinality(Active \cup ToRun) = 0
        /\ Cardinality(Passed(1)) = 0 /\ Cardinality(Passed(2)) = 0
    BY <2>1, <2>2
  <2> QED
    BY <2>2, <2>3 DEF QuotaInv
<1>3. LimitInv
  <2> SUFFICES ASSUME NEW s \in Sessions
               PROVE  rows[s].count + Cardinality(ExtendersOf(s))
                        < MaxExtensions + Cardinality(Extenders)
    BY DEF LimitInv
  <2>1. ExtendersOf(s) = {} /\ rows[s].count = 0
    BY Constants DEF Init, NoRequests, ExtendersOf, NotExtending, NoRow
  <2>2. Cardinality(ExtendersOf(s)) = 0 /\ Cardinality(Extenders) \in Nat
    BY <2>1, Sizes, FS_EmptySet
  <2> QED
    BY <2>1, <2>2, Constants
<1>4. TimeInv /\ BillsInv /\ BalanceInv
  BY DEF Init, NoRequests, TimeInv, ExtendedTimeIsCounted, BillsInv, TransfersMatchRecord,
     BalanceInv, BalanceMissesNothing, NoRow, NotExtending, NoBalance
<1> QED
  BY <1>s, <1>1, <1>2, <1>3, <1>4 DEF IInv, BaseInv

\* Every step preserves the invariant.
LEMMA NextIInv == IInv /\ [Next]_vars => IInv'
<1> SUFFICES ASSUME IInv, [Next]_vars PROVE BaseInv'
  BY NextStartInv DEF IInv
<1>1. ASSUME NEW c \in Creators, NEW i \in 1..2, QuotaCheck(c, i) \/ QuotaRefuse(c, i)
      PROVE  BaseInv'
  BY <1>1, StepQuotaCheck, StepQuotaRefuse
<1>2. ASSUME NEW c \in Creators, NEW s \in Sessions, CreateSession(c, s) PROVE BaseInv'
  BY <1>2, StepCreateSession
<1>3. ASSUME NEW x \in Stoppers \cup {WORKER}, NEW s \in Sessions,
             NEW to \in {"RUNNING", "STOPPED", "FAILED"}, Transition(x, s, to)
      PROVE  BaseInv'
  BY <1>3, StepTransition
<1>4. ASSUME NEW x \in Extenders, UpdateExtension(x) PROVE BaseInv'
  BY <1>4, StepUpdateExtension
<1>5. ASSUME NEW x \in Extenders, NEW s \in Sessions, NEW e \in Extensions,
             ExtendSession(x, s, e)
      PROVE  BaseInv'
  BY <1>5, StepExtendSession
<1>6. ASSUME NEW x \in Writers, Update(x) PROVE BaseInv'
  BY <1>6, StepUpdate
<1>8. CASE Expirer
  BY <1>8, StepFindExpiringSessions, StepExpireSession DEF Expirer
<1>9. CASE Batch
  BY <1>9, StepProcessBatch, StepTransferSettlement, StepSettleSession DEF Batch
<1>10. CASE BalanceRead1 \/ BalanceRead2 \/ BalanceReply
  BY <1>10, StepBalanceRead1, StepBalanceRead2, StepBalanceReply
<1>11. CASE Tick \/ Crash
  BY <1>11, StepTick, StepCrash
<1>12. CASE UNCHANGED vars
  <2>1. TypeOK'
    BY <1>12 DEF IInv, BaseInv, TypeOK, RowsTypeOK, RequestsTypeOK, BatchTypeOK, BoundsTypeOK, vars
  <2>2. QuotaInv' /\ LimitInv'
    BY <1>12 DEF IInv, BaseInv, QuotaInv, LimitInv, In, Active, ToRun, Passed, ExtendersOf, vars
  <2>3. TimeInv' /\ BillsInv' /\ BalanceInv'
    BY <1>12 DEF IInv, BaseInv, TimeInv, ExtendedTimeIsCounted, BillsInv, TransfersMatchRecord,
       BalanceInv, BalanceMissesNothing, ToRun, vars
  <2> QED
    BY <2>1, <2>2, <2>3 DEF IInv, BaseInv
<1> QED
  BY <1>1, <1>2, <1>3, <1>4, <1>5, <1>6, <1>8, <1>9, <1>10, <1>11, <1>12 DEF Next

\* IInv holds in every reachable state.
THEOREM Invariance == Spec => []IInv
<1> QED
  BY InitIInv, NextIInv, PTL DEF Spec

\* Every variable keeps its type.
THEOREM TypeCorrect == Spec => []TypeOK
<1>1. IInv => TypeOK
  BY DEF IInv, BaseInv
<1> QED
  BY Invariance, <1>1, PTL

\* CreateSession's two queries let at most two active sessions per concurrent
\* request through, plus one per failed query and one that the worker starts late.
THEOREM Quota == Spec => []QuotaIsBounded
<1>1. ASSUME IInv PROVE QuotaIsBounded
  <2> DEFINE A == Active \cup ToRun
  <2>1. A \in SUBSET Sessions /\ Active \in SUBSET A
        /\ Passed(1) \in SUBSET Creators /\ Passed(2) \in SUBSET Creators
    BY DEF In, Active, ToRun, Passed
  <2>2. /\ IsFiniteSet(A) /\ Cardinality(A) \in Nat /\ Cardinality(Active) \in Nat
        /\ Cardinality(Passed(1)) \in Nat /\ Cardinality(Passed(2)) \in Nat
        /\ Cardinality(Creators) \in Nat
    BY <2>1, Sizes
  <2>3. Cardinality(Active) <= Cardinality(A)
    BY <2>1, <2>2, Smaller
  <2> QED
    BY <1>1, <2>2, <2>3 DEF IInv, BaseInv, QuotaInv, TypeOK, BoundsTypeOK, QuotaIsBounded
<1> QED
  BY Invariance, <1>1, PTL

\* ExtendSession's check of the limit is off by one per concurrent request,
\* and never by more.
THEOREM Limited == Spec => []ExtensionsAreBounded
<1>1. ASSUME IInv PROVE ExtensionsAreBounded
  <2> SUFFICES ASSUME NEW s \in Sessions
               PROVE  rows[s].count < MaxExtensions + Cardinality(Extenders)
    BY DEF ExtensionsAreBounded
  <2>1. ExtendersOf(s) \in SUBSET Extenders
    BY DEF ExtendersOf
  <2>2. Cardinality(ExtendersOf(s)) \in Nat /\ Cardinality(Extenders) \in Nat
    BY <2>1, Sizes
  <2>3. rows[s].count + Cardinality(ExtendersOf(s)) < MaxExtensions + Cardinality(Extenders)
    BY <1>1 DEF IInv, BaseInv, LimitInv
  <2>4. rows[s].count \in Nat
    BY <1>1 DEF IInv, BaseInv, TypeOK, RowsTypeOK, Row
  <2> QED
    BY <2>2, <2>3, <2>4, Constants
<1> QED
  BY Invariance, <1>1, PTL

\* UpdateExtension gives no more time than it adds to total_extended_minutes.
THEOREM Counted == Spec => []ExtendedTimeIsCounted
<1>1. IInv => ExtendedTimeIsCounted
  BY DEF IInv, BaseInv, TimeInv
<1> QED
  BY Invariance, <1>1, PTL

\* settleSession transfers once per session, and what it has recorded.
THEOREM Transferred == Spec => []TransfersMatchRecord
<1>1. IInv => TransfersMatchRecord
  BY DEF IInv, BaseInv, BillsInv
<1> QED
  BY Invariance, <1>1, PTL

\* CalculatePendingSettlement reads running before stopped sessions, so it
\* misses none that stops in between.
THEOREM Balanced == Spec => []BalanceMissesNothing
<1>1. IInv => BalanceMissesNothing
  BY DEF IInv, BaseInv, BalanceInv
<1> QED
  BY Invariance, <1>1, PTL

\* No step changes a settlement: only unsettled sessions have a bill.
LEMMA FinalStep ==
  ASSUME IInv, [Next]_vars
  PROVE  \A s \in Sessions : rows[s].settled # {} => rows'[s].settled = rows[s].settled
<1> SUFFICES ASSUME NEW s \in Sessions, rows[s].settled # {}
             PROVE  rows'[s].settled = rows[s].settled
  OBVIOUS
<1>1. rows \in [Sessions -> Row]
  BY DEF IInv, BaseInv, TypeOK, RowsTypeOK
<1>2. CASE UNCHANGED rows
  BY <1>2
<1>3. ASSUME NEW c \in Creators, NEW t \in Sessions, CreateSession(c, t)
      PROVE  rows'[s].settled = rows[s].settled
  BY <1>1, <1>3 DEF CreateSession, Row
<1>5. ASSUME NEW x \in Extenders, UpdateExtension(x) PROVE rows'[s].settled = rows[s].settled
  <2> DEFINE u == extending[x]
  <2>1. u.s \in Sessions /\ u.until \in Nat /\ u.minutes \in Nat
    BY <1>5, ExtenderType, Constants DEF IInv, BaseInv, TypeOK, RequestsTypeOK, UpdateExtension
  <2>2. UNCHANGED rows \/ rows' = [rows EXCEPT ![u.s] = Extended(rows[u.s], u)]
    BY <1>5 DEF UpdateExtension
  <2>3. Extended(rows[u.s], u).settled = rows[u.s].settled
    BY <1>1, <2>1, ExtendedFields
  <2> QED
    BY <1>1, <2>1, <2>2, <2>3
<1>6. ASSUME NEW x \in Writers, Update(x) PROVE rows'[s].settled = rows[s].settled
  BY <1>6, Updated
<1>7. ASSUME NEW b \in bills, SettleSession(b) PROVE rows'[s].settled = rows[s].settled
  <2>1. b.s # s
    BY DEF IInv, BaseInv, BillsInv
  <2> QED
    BY <1>1, <1>7, <2>1 DEF SettleSession, Row
<1>8. CASE Expirer \/ ProcessBatch \/ TransferSettlement
  BY <1>8 DEF Expirer, FindExpiringSessions, ExpireSession, ProcessBatch, TransferSettlement
<1>9. CASE BalanceRead1 \/ BalanceRead2 \/ BalanceReply \/ Tick \/ Crash
  BY <1>9 DEF BalanceRead1, BalanceRead2, BalanceReply, Tick, Crash
<1>10. ASSUME NEW c \in Creators, NEW i \in 1..2, QuotaCheck(c, i) \/ QuotaRefuse(c, i)
       PROVE  rows' = rows
  BY <1>10 DEF QuotaCheck, QuotaRefuse
<1>11. ASSUME NEW x, NEW t, NEW e, Transition(x, t, e) \/ ExtendSession(x, t, e)
       PROVE  rows' = rows
  BY <1>11 DEF Transition, ExtendSession
<1> QED
  BY <1>2, <1>3, <1>5, <1>6, <1>7, <1>8, <1>9, <1>10, <1>11 DEF Next, Batch, vars

\* A settlement is final: neither a late stop nor a later batch changes it.
THEOREM Final == Spec => SettlementsAreFinal
<1>1. IInv /\ [Next]_vars =>
        [\A s \in Sessions : rows[s].settled # {} => rows'[s].settled = rows[s].settled]_vars
  BY FinalStep
<1> QED
  BY Invariance, <1>1, PTL DEF Spec, SettlementsAreFinal

-----------------------------------------------------------------------------
\* CalculateCost rounds up: what it charges, but for the last minute, has passed.
LEMMA CostRoundsUp ==
  ASSUME NEW start \in Nat, NEW end \in Nat, CalculateCost(start, end) > 0
  PROVE  (CalculateCost(start, end) - 1) * TicksPerMinute < end - start
<1> DEFINE T == TicksPerMinute
           d == (end - start) + (T - 1)
           q == d \div T
<1>1. end > start
  BY DEF CalculateCost
<1>2. T \in Nat \ {0} /\ d \in Nat /\ CalculateCost(start, end) = q
  BY <1>1, Constants DEF CalculateCost
<1>3. q \in Nat /\ T * q <= d
  <2> HIDE DEF T, d
  <2> QED
    BY <1>2
<1>4. (q - 1) * T = T * q - T
  <2> HIDE DEF q, T, d
  <2> QED
    BY <1>2, <1>3
<1>5. (q - 1) * T < end - start
  <2>1. T * q \in Nat
    <3> HIDE DEF q, T
    <3> QED
      BY <1>2, <1>3
  <2>2. T * q - T <= (end - start) - 1
    <3> DEFINE m == T * q
    <3>1. m \in Nat /\ m <= (end - start) + (T - 1)
      BY <1>3, <2>1
    <3> HIDE DEF m, T, q
    <3> QED
      BY <1>2, <3>1 DEF m
  <2> HIDE DEF T, q
  <2> QED
    BY <1>2, <1>4, <2>1, <2>2
<1> QED
  BY <1>2, <1>5

\* Time that has passed stays passed, and has passed since any earlier start.
LEMMA ElapsedLater ==
  ASSUME NEW start \in Nat, NEW amount \in Nat, Elapsed(start, amount),
         now \in Nat, now' \in Nat, now <= now'
  PROVE  Elapsed(start, amount)' /\ Elapsed(0, amount)'
<1> DEFINE m == (amount - 1) * TicksPerMinute
<1>1. m \in Int
  BY Constants
<1> HIDE DEF m
<1>2. amount > 0 => m < now' - start /\ m < now' - 0
  BY <1>1 DEF Elapsed, m
<1> QED
  BY <1>2 DEF Elapsed, m

\* The types of starts and charges.
LEMMA ChargeTypes ==
  ASSUME TypeOK, NEW s \in Sessions
  PROVE  Starts(s) \subseteq Nat /\ Charges(s) \subseteq Nat
<1>1. rows[s] \in Row /\ bills \subseteq Bill
      /\ \A x \in Writers : writing[x] \in Copy \cup {NotWriting}
  BY DEF TypeOK, RowsTypeOK, RequestsTypeOK, BatchTypeOK
<1>2. rows[s].start \in Nat /\ rows[s].settled \subseteq Nat
  BY <1>1 DEF Row
<1>3. \A x \in Writers : writing[x].start \in Nat
  BY <1>1 DEF Copy, NotWriting
<1>4. \A b \in bills : b.amount \in Nat
  BY <1>1 DEF Bill
<1> QED
  BY <1>2, <1>3, <1>4 DEF Starts, Charges

\* A step that charges nobody more, gives no session a new start and does not turn
\* the clock back keeps the charges right.
LEMMA KeepsCharges ==
  ASSUME IInv, TypeOK', ChargeInv, now <= now',
         \A s \in Sessions : /\ Starts(s)' \subseteq Starts(s) /\ Charges(s)' \subseteq Charges(s)
                             /\ rows'[s].end <= now',
         \A x \in Writers : writing'[x].end <= now'
  PROVE  ChargeInv'
<1>1. TypeOK /\ now \in Nat /\ now' \in Nat
  BY DEF IInv, BaseInv, TypeOK, RowsTypeOK
<1>2. ASSUME NEW s \in Sessions, NEW start \in Starts(s)'
      PROVE  start <= now' /\ start \in Nat /\ start \in Starts(s)
  <2>1. start \in Starts(s) /\ start \in Nat
    BY <1>1, ChargeTypes
  <2>2. start <= now
    BY <2>1 DEF ChargeInv
  <2> QED
    BY <1>1, <2>1, <2>2
<1>3. ASSUME NEW s \in Sessions, NEW start \in Starts(s)', NEW amount \in Charges(s)'
      PROVE  Elapsed(start, amount)'
  <2>1. start \in Nat /\ amount \in Nat /\ start \in Starts(s) /\ amount \in Charges(s)
    BY <1>1, <1>2, ChargeTypes
  <2>2. Elapsed(start, amount)
    BY <2>1 DEF ChargeInv
  <2> QED
    BY <1>1, <2>1, <2>2, ElapsedLater
<1>4. \A s \in Sessions : \A i, j \in Starts(s)' : i = j \/ i = 0 \/ j = 0
  BY DEF ChargeInv
<1> QED
  BY <1>2, <1>3, <1>4 DEF ChargeInv

\* The same for a step that changes no row and no bill and drops copies at most.
LEMMA KeepsChargesIdle ==
  ASSUME IInv, TypeOK', ChargeInv, UNCHANGED rows, bills' \subseteq bills, now <= now',
         \A x \in Writers : writing'[x] \in {writing[x], NotWriting}
  PROVE  ChargeInv'
<1>1. /\ now \in Nat /\ now' \in Nat /\ NotWriting.end = 0
      /\ \A x \in Writers : writing[x].end \in Nat /\ writing[x].end <= now
      /\ \A s \in Sessions : rows[s].end \in Nat /\ rows[s].end <= now
  BY DEF IInv, BaseInv, TypeOK, RowsTypeOK, RequestsTypeOK, Row, Copy, NotWriting, ChargeInv
<1>2. \A x \in Writers : writing'[x].end <= now'
  BY <1>1
<1>3. ASSUME NEW s \in Sessions
      PROVE  /\ Starts(s)' \subseteq Starts(s) /\ Charges(s)' \subseteq Charges(s)
             /\ rows'[s].end <= now'
  <2>1. Charges(s)' \subseteq Charges(s) /\ rows'[s].end <= now'
    BY <1>1 DEF Charges
  <2>2. \A x \in Writers : writing'[x].s = s => writing'[x] = writing[x]
    BY Constants DEF NotWriting
  <2>3. Starts(s)' \subseteq Starts(s)
    BY <2>2 DEF Starts
  <2> QED
    BY <2>1, <2>3
<1> QED
  BY <1>2, <1>3, KeepsCharges

\* A row that is loaded has one start, unless it has none yet, and then nobody is
\* charged for it.
LEMMA ChargesOnLoad ==
  ASSUME IInv, TypeOK', ChargeInv, NEW x \in Writers, NEW s \in Sessions,
         NEW to \in {"RUNNING", "STOPPED", "FAILED"}, LoadAndValidateTransition(x, s, to),
         to = "RUNNING" => x = WORKER, UNCHANGED <<now, rows, bills>>
  PROVE  ChargeInv'
<1>1. PICK c \in Copy :
        /\ writing' = [writing EXCEPT ![x] = c] /\ writing[x] = NotWriting /\ c.s = s /\ c.to = to
        /\ \/ rows[s].state = "PENDING" /\ to \in {"RUNNING", "FAILED"}
           \/ rows[s].state = "RUNNING" /\ to \in {"STOPPED", "FAILED"}
        /\ to # "RUNNING" => c.start = rows[s].start
        /\ c.start \in {rows[s].start} \cup 1..now /\ c.end \in {rows[s].end} \cup 1..now
  BY Loaded
<1>2. /\ writing \in [Writers -> Copy \cup {NotWriting}] /\ now \in Nat /\ now <= now'
      /\ \A r \in Sessions : rows[r].start \in Nat /\ rows[r].end \in Nat
  BY DEF IInv, BaseInv, TypeOK, RowsTypeOK, RequestsTypeOK, Row
<1>3. /\ \A r \in Sessions : rows[r].end <= now
      /\ \A y \in Writers : writing[y].end <= now
  BY DEF ChargeInv
<1>4. \A y \in Writers : writing'[y].end <= now'
  BY <1>1, <1>2, <1>3
<1>5. \A r \in Sessions : Charges(r)' = Charges(r)
  BY DEF Charges
<1>6. \A r \in Sessions : r # s => Starts(r)' \subseteq Starts(r)
  BY <1>1, <1>2 DEF Starts
<1>7. Starts(s)' \subseteq Starts(s) \cup {c.start}
  BY <1>1, <1>2 DEF Starts
<1>8. CASE to # "RUNNING"
  <2>1. Starts(s)' \subseteq Starts(s)
    BY <1>1, <1>7, <1>8 DEF Starts
  <2> QED
    BY <1>2, <1>3, <1>4, <1>5, <1>6, <2>1, KeepsCharges
<1>9. CASE to = "RUNNING"
  <2>1. Unstarted(s) /\ writing[WORKER] = NotWriting
    BY <1>1, <1>9 DEF IInv, StartInv
  <2>2. Starts(s) \subseteq {0} /\ Charges(s) = {}
    BY <2>1, Constants DEF Unstarted, Starts, Charges, NotWriting
  <2>3. c.start <= now
    BY <1>1, <1>2 DEF ChargeInv, Starts
  <2>4. ASSUME NEW r \in Sessions
        PROVE  /\ \A start \in Starts(r)' : start <= now
               /\ \A i, j \in Starts(r)' : i = j \/ i = 0 \/ j = 0
               /\ \A start \in Starts(r)', amount \in Charges(r)' : Elapsed(start, amount)
    <3>1. CASE r = s
      <4>1. Starts(s)' \subseteq {0, c.start} /\ Charges(s)' = {}
        BY <1>5, <1>7, <2>2
      <4> QED
        BY <1>2, <2>3, <3>1, <4>1
    <3>2. CASE r # s
      BY <1>5, <1>6, <3>2 DEF ChargeInv
    <3> QED
      BY <3>1, <3>2
  <2>5. \A start, amount : Elapsed(start, amount)' <=> Elapsed(start, amount)
    BY DEF Elapsed
  <2> QED
    BY <1>2, <1>3, <1>4, <2>4, <2>5 DEF ChargeInv
<1> QED
  BY <1>8, <1>9

\* A write puts a start into the row that was about to be there.
LEMMA ChargesOnUpdate ==
  ASSUME IInv, TypeOK', ChargeInv, NEW x \in Writers, Update(x)
  PROVE  ChargeInv'
<1> DEFINE c == writing[x]
<1>1. /\ c \in Copy /\ writing' = [writing EXCEPT ![x] = NotWriting]
      /\ UNCHANGED <<now, bills>>
  BY Updated
<1>2. \A t \in Sessions :
        /\ rows'[t].settled = rows[t].settled
        /\ rows'[t] = rows[t]
           \/ (t = c.s /\ rows'[t].start = c.start /\ rows'[t].end = c.end)
  BY Updated
<1>3. writing \in [Writers -> Copy \cup {NotWriting}] /\ now \in Nat
  BY DEF IInv, BaseInv, TypeOK, RowsTypeOK, RequestsTypeOK
<1>4. /\ \A r \in Sessions : rows[r].end <= now
      /\ \A y \in Writers : writing[y].end <= now
  BY DEF ChargeInv
<1>5. NotWriting.end = 0 /\ \A y \in Writers : writing'[y] \in {writing[y], NotWriting}
  BY <1>1, <1>3 DEF NotWriting
<1>6. \A y \in Writers : writing'[y].end <= now'
  BY <1>1, <1>3, <1>4, <1>5
<1>7. ASSUME NEW s \in Sessions
      PROVE  /\ Starts(s)' \subseteq Starts(s) /\ Charges(s)' \subseteq Charges(s)
             /\ rows'[s].end <= now'
  <2>1. rows'[s].start \in Starts(s)
    BY <1>2 DEF Starts
  <2>2. \A y \in Writers : writing'[y].s = s => writing'[y] = writing[y]
    BY <1>5, Constants DEF NotWriting
  <2>3. Starts(s)' \subseteq Starts(s)
    BY <2>1, <2>2 DEF Starts
  <2>4. Charges(s)' \subseteq Charges(s)
    BY <1>1, <1>2 DEF Charges
  <2> QED
    BY <1>1, <1>2, <1>4, <2>3, <2>4
<1> QED
  BY <1>1, <1>3, <1>6, <1>7, KeepsCharges

\* A session is created, or extended, without a change to its times.
LEMMA ChargesOfRequests ==
  ASSUME IInv, TypeOK', ChargeInv,
         \/ \E c \in Creators, s \in Sessions : CreateSession(c, s)
         \/ \E x \in Extenders : UpdateExtension(x)
  PROVE  ChargeInv'
<1>1. rows \in [Sessions -> Row] /\ now \in Nat
  BY DEF IInv, BaseInv, TypeOK, RowsTypeOK
<1>2. UNCHANGED <<now, bills, writing>>
  BY DEF CreateSession, UpdateExtension, batch
<1> DEFINE Same == \A r \in Sessions :
                     /\ rows'[r].settled = rows[r].settled
                     /\ rows'[r].start = rows[r].start /\ rows'[r].end = rows[r].end
<1>3. Same
  <2>1. ASSUME NEW c \in Creators, NEW s \in Sessions, CreateSession(c, s)
        PROVE  Same
    <3>1. CASE rows' = [rows EXCEPT ![s].state = "PENDING"]
      BY <1>1, <3>1 DEF Row
    <3> QED
      BY <2>1, <3>1 DEF CreateSession
  <2>2. ASSUME NEW x \in Extenders, UpdateExtension(x)
        PROVE  Same
    <3> DEFINE u == extending[x]
    <3>1. u.s \in Sessions /\ u.until \in Nat /\ u.minutes \in Nat
      BY <2>2, ExtenderType, Constants DEF IInv, BaseInv, TypeOK, RequestsTypeOK, UpdateExtension
    <3>2. UNCHANGED rows \/ rows' = [rows EXCEPT ![u.s] = Extended(rows[u.s], u)]
      BY <2>2 DEF UpdateExtension
    <3>3. LET e == Extended(rows[u.s], u)
          IN  /\ e.settled = rows[u.s].settled
              /\ e.start = rows[u.s].start /\ e.end = rows[u.s].end
      BY <1>1, <3>1 DEF Extended, Row
    <3> QED
      BY <1>1, <3>1, <3>2, <3>3
  <2> QED
    BY <2>1, <2>2
<1>4. \A r \in Sessions : Starts(r)' = Starts(r) /\ Charges(r)' = Charges(r)
  BY <1>2, <1>3 DEF Starts, Charges
<1>5. /\ \A r \in Sessions : rows'[r].end <= now'
      /\ \A x \in Writers : writing'[x].end <= now'
  BY <1>2, <1>3 DEF ChargeInv
<1> QED
  BY <1>1, <1>2, <1>4, <1>5, KeepsCharges

\* A bill is drawn up from a start and an end that have passed; every other start
\* the session may get back is that one or none.  It is recorded as it is.
LEMMA ChargesOfBatch ==
  ASSUME IInv, TypeOK', ChargeInv, Batch
  PROVE  ChargeInv'
<1>1. /\ rows \in [Sessions -> Row] /\ now \in Nat /\ bills \subseteq Bill /\ TypeOK
      /\ \A b \in Bill : b.s \in Sessions /\ b.amount \in Nat
  BY DEF IInv, BaseInv, TypeOK, RowsTypeOK, BatchTypeOK, Bill
<1>2. /\ \A r \in Sessions : rows[r].end <= now
      /\ \A x \in Writers : writing[x].end <= now
  BY DEF ChargeInv
<1>3. CASE ProcessBatch
  <2>1. UNCHANGED <<now, rows, writing>>
    BY <1>3 DEF ProcessBatch, requests
  <2>2. ASSUME NEW b \in bills', NEW start \in Starts(b.s)
        PROVE  Elapsed(start, b.amount)
    <3>1. PICK s \in FindAllPendingSettlement :
                 /\ b = [s |-> s, amount |-> CalculateCost(rows[s].start, rows[s].end)]
                 /\ rows[s].start # 0
      BY <1>3, <2>2 DEF ProcessBatch
    <3>2. s \in Sessions
      BY DEF FindAllPendingSettlement, In
    <3>3. rows[s].start \in Nat /\ rows[s].end \in Nat /\ rows[s].end <= now
      BY <1>1, <1>2, <3>2 DEF Row
    <3> DEFINE c == CalculateCost(rows[s].start, rows[s].end)
               m == (c - 1) * TicksPerMinute
    <3>4. c > 0 => m < rows[s].end - rows[s].start
      BY <3>3, CostRoundsUp
    <3>5. c \in Nat /\ TicksPerMinute \in Nat
      BY <3>3, CostType, Constants
    <3>6. m \in Int
      <4> HIDE DEF c
      <4> QED
        BY <3>5
    <3>7. c > 0 => m < now - rows[s].start /\ m < now - 0
      <4> HIDE DEF c, m
      <4> QED
        BY <1>1, <3>3, <3>4, <3>5, <3>6
    <3>8. b.s = s /\ b.amount = c
      BY <3>1
    <3>9. start = rows[s].start \/ start = 0
      BY <2>2, <3>1, <3>2, <3>8 DEF ChargeInv, Starts
    <3> QED
      BY <3>7, <3>8, <3>9 DEF Elapsed
  <2>3. ASSUME NEW s \in Sessions, NEW start \in Starts(s), NEW amount \in Charges(s)'
        PROVE  Elapsed(start, amount)
    <3>1. amount \in rows[s].settled \/ \E b \in bills' : b.s = s /\ b.amount = amount
      BY <2>1 DEF Charges
    <3>2. amount \in rows[s].settled => amount \in Charges(s)
      BY DEF Charges
    <3> QED
      BY <2>2, <3>1, <3>2 DEF ChargeInv
  <2>4. \A s \in Sessions : Starts(s)' = Starts(s)
    BY <2>1 DEF Starts
  <2>5. \A start, amount : Elapsed(start, amount)' <=> Elapsed(start, amount)
    BY <2>1 DEF Elapsed
  <2> QED
    BY <2>1, <2>3, <2>4, <2>5 DEF ChargeInv
<1>4. ASSUME NEW b \in bills, SettleSession(b) PROVE ChargeInv'
  <2>1. UNCHANGED <<now, writing>> /\ bills' \subseteq bills /\ b.s \in Sessions
    BY <1>1, <1>4 DEF SettleSession, requests
  <2>2. \A s \in Sessions :
          /\ rows'[s].start = rows[s].start /\ rows'[s].end = rows[s].end
          /\ rows'[s].settled = rows[s].settled \/ (s = b.s /\ rows'[s].settled = {b.amount})
    <3>1. CASE rows' = [rows EXCEPT ![b.s].settled = {b.amount}]
      BY <1>1, <2>1, <3>1 DEF Row
    <3>2. CASE UNCHANGED rows
      BY <3>2
    <3> QED
      BY <1>4, <3>1, <3>2 DEF SettleSession
  <2>3. \A s \in Sessions : Starts(s)' = Starts(s) /\ Charges(s)' \subseteq Charges(s)
    BY <2>1, <2>2 DEF Starts, Charges
  <2> QED
    BY <1>1, <1>2, <2>1, <2>2, <2>3, KeepsCharges
<1>5. CASE TransferSettlement
  BY <1>1, <1>5, KeepsChargesIdle DEF TransferSettlement, requests
<1> QED
  BY <1>3, <1>4, <1>5 DEF Batch

\* So the charges stay right, together with the inductive invariant.
LEMMA ChargeInvariance == Spec => []ChargeInv
<1>1. Init => ChargeInv
  <2> SUFFICES ASSUME Init PROVE ChargeInv
    OBVIOUS
  <2>1. NoRow.settled = {} /\ NoRow.start = 0 /\ NoRow.end = 0 /\ NotWriting.end = 0
        /\ NotWriting.s = NONE
    BY DEF NoRow, NotWriting
  <2>2. \A s \in Sessions : Starts(s) = {0} /\ Charges(s) = {}
    BY <2>1, Constants DEF Init, NoRequests, Starts, Charges
  <2> QED
    BY <2>1, <2>2 DEF Init, NoRequests, ChargeInv
<1>2. IInv /\ ChargeInv /\ [Next]_vars => ChargeInv'
  <2> SUFFICES ASSUME IInv, ChargeInv, [Next]_vars
               PROVE  ChargeInv'
    OBVIOUS
  <2>1. TypeOK' /\ now \in Nat
    BY NextIInv DEF IInv, BaseInv, TypeOK, RowsTypeOK
  <2>2. ASSUME UNCHANGED rows, bills' \subseteq bills, writing' = writing, now' \in {now, now + 1}
        PROVE  ChargeInv'
    BY <2>1, <2>2, KeepsChargesIdle
  <2>3. ASSUME NEW c, NEW i, QuotaCheck(c, i) \/ QuotaRefuse(c, i) PROVE ChargeInv'
    BY <2>2, <2>3 DEF QuotaCheck, QuotaRefuse, batch
  <2>4. ASSUME NEW x, NEW s, NEW e, ExtendSession(x, s, e) PROVE ChargeInv'
    BY <2>2, <2>4 DEF ExtendSession, batch
  <2>5. CASE BalanceRead1 \/ BalanceRead2 \/ BalanceReply \/ Tick \/ UNCHANGED vars
    BY <2>2, <2>5 DEF BalanceRead1, BalanceRead2, BalanceReply, Tick, batch, requests, vars
  <2>6. CASE Crash
    BY <2>1, <2>6, KeepsChargesIdle DEF Crash
  <2>7. ASSUME NEW x \in Stoppers \cup {WORKER}, NEW s \in Sessions,
               NEW to \in {"RUNNING", "STOPPED", "FAILED"}, Transition(x, s, to)
        PROVE  ChargeInv'
    BY <2>1, <2>7, ChargesOnLoad, Constants DEF Transition, batch
  <2>8. CASE Expirer
    <3>1. CASE FindExpiringSessions
      BY <2>2, <3>1 DEF FindExpiringSessions, requests, batch
    <3>2. ASSUME NEW s \in Sessions, ExpireSession(s) PROVE ChargeInv'
      BY <2>1, <2>2, <3>2, ChargesOnLoad, Constants DEF ExpireSession, batch
    <3> QED
      BY <2>8, <3>1, <3>2 DEF Expirer
  <2> QED
    BY <2>1, <2>3, <2>4, <2>5, <2>6, <2>7, <2>8, ChargesOnUpdate, ChargesOfRequests,
       ChargesOfBatch DEF Next
<1> QED
  BY <1>1, <1>2, Invariance, PTL DEF Spec

\* Nobody is charged for time that has not passed, for every clock resolution and
\* every number of concurrent stops and batches that race with them.
THEOREM ChargedOnlyForThePast == Spec => []ChargedTimeHasPassed
<1>1. ChargeInv => ChargedTimeHasPassed
  BY DEF ChargeInv, ChargedTimeHasPassed, Starts, Charges
<1> QED
  BY <1>1, ChargeInvariance, PTL

-----------------------------------------------------------------------------
\* A step that touches no bill leaves every settlement alone and changes at most
\* whether one session is stopped.
LEMMA RestOfLedger ==
  ASSUME IInv, [Next]_vars
  PROVE  \/ Batch \/ Crash
         \/ /\ bills' = bills /\ \A s \in Sessions : rows'[s].settled = rows[s].settled
            /\ \/ In("STOPPED")' = In("STOPPED")
               \/ \E s \in Sessions : In("STOPPED")' \in {In("STOPPED") \cup {s}, In("STOPPED") \ {s}}
<1> DEFINE Kept == bills' = bills /\ \A s \in Sessions : rows'[s].settled = rows[s].settled
           Moved == \/ In("STOPPED")' = In("STOPPED")
                    \/ \E s \in Sessions :
                         In("STOPPED")' \in {In("STOPPED") \cup {s}, In("STOPPED") \ {s}}
<1>1. rows \in [Sessions -> Row]
  BY DEF IInv, BaseInv, TypeOK, RowsTypeOK
<1>2. ASSUME UNCHANGED <<rows, bills>> PROVE Kept /\ Moved
  BY <1>2 DEF In
<1>s. ASSUME \A s \in Sessions : rows'[s].settled = rows[s].settled, bills' = bills,
             \A s \in Sessions : rows'[s].state = "STOPPED" <=> rows[s].state = "STOPPED"
      PROVE  Kept /\ Moved
  BY <1>s DEF In
<1>3. ASSUME NEW c, NEW s \in Sessions, CreateSession(c, s) PROVE Kept /\ Moved
  <2>1. rows[s].state # "STOPPED" /\ bills' = bills
    BY <1>3 DEF CreateSession, NoRow, NONE, batch
  <2>2. CASE rows' = [rows EXCEPT ![s].state = "PENDING"]
    BY <1>1, <1>s, <2>1, <2>2 DEF Row
  <2> QED
    BY <1>2, <1>3, <2>1, <2>2 DEF CreateSession
<1>4. ASSUME NEW x \in Extenders, UpdateExtension(x) PROVE Kept /\ Moved
  <2> DEFINE u == extending[x]
  <2>1. u.s \in Sessions /\ u.until \in Nat /\ u.minutes \in Nat
    BY <1>4, ExtenderType, Constants DEF IInv, BaseInv, TypeOK, RequestsTypeOK, UpdateExtension
  <2>2. /\ UNCHANGED rows \/ rows' = [rows EXCEPT ![u.s] = Extended(rows[u.s], u)]
        /\ bills' = bills
    BY <1>4 DEF UpdateExtension, batch
  <2>3. /\ Extended(rows[u.s], u).settled = rows[u.s].settled
        /\ Extended(rows[u.s], u).state = rows[u.s].state
    BY <1>1, <2>1, ExtendedFields
  <2> QED
    BY <1>1, <1>s, <2>1, <2>2, <2>3
<1>5. ASSUME NEW x \in Writers, Update(x) PROVE Kept /\ Moved
  <2> DEFINE t == writing[x].s
  <2>1. t \in Sessions /\ bills' = bills
    BY <1>5, Updated DEF Copy
  <2>2. \A s \in Sessions : /\ rows'[s].settled = rows[s].settled
                            /\ s # t => rows'[s] = rows[s]
    BY <1>5, Updated
  <2>3. CASE rows'[t].state = "STOPPED"
    <3>1. In("STOPPED")' = In("STOPPED") \cup {t}
      BY <2>1, <2>2, <2>3 DEF In
    <3> QED
      BY <2>1, <2>2, <3>1
  <2>4. CASE rows'[t].state # "STOPPED"
    <3>1. In("STOPPED")' = In("STOPPED") \ {t}
      BY <2>1, <2>2, <2>4 DEF In
    <3> QED
      BY <2>1, <2>2, <3>1
  <2> QED
    BY <2>3, <2>4
<1>6. CASE Expirer
  BY <1>2, <1>6 DEF Expirer, FindExpiringSessions, ExpireSession, batch
<1>7. CASE BalanceRead1 \/ BalanceRead2 \/ BalanceReply \/ Tick \/ UNCHANGED vars
  BY <1>2, <1>7 DEF BalanceRead1, BalanceRead2, BalanceReply, Tick, batch, vars
<1>8. ASSUME NEW c, NEW i, QuotaCheck(c, i) \/ QuotaRefuse(c, i) PROVE Kept /\ Moved
  BY <1>2, <1>8 DEF QuotaCheck, QuotaRefuse, batch
<1>9. ASSUME NEW x, NEW t, NEW e, Transition(x, t, e) \/ ExtendSession(x, t, e)
      PROVE  Kept /\ Moved
  BY <1>2, <1>9 DEF Transition, ExtendSession, batch
<1> QED
  BY <1>3, <1>4, <1>5, <1>6, <1>7, <1>8, <1>9 DEF Next

\* The batch is where money moves; everything else leaves both accounts alone.
LEMMA WhoPays ==
  ASSUME [Next]_vars
  PROVE  UNCHANGED paid \/ TransferSettlement
BY DEF Next, vars, QuotaCheck, QuotaRefuse, CreateSession, UpdateExtension,
   ExtendSession, Update, Transition, Expirer, FindExpiringSessions, ExpireSession, Batch,
   ProcessBatch, SettleSession, BalanceRead1, BalanceRead2, BalanceReply, Tick, Crash

\* Settlement keeps a ledger: whatever fails, stops late or crashes, only what had
\* stopped is billed and only what is billed is charged, one amount for good, and
\* is paid for at most once and in that amount.
THEOREM LedgerKept == Spec => ImplementsLedger
<1> DEFINE stopped == In("STOPPED")
           billed == {b.s : b \in bills}
           recorded == [s \in Sessions |-> rows[s].settled]
           Step == Ledger!Next \/ UNCHANGED <<stopped, billed, recorded, paid>>
<1>1. Init => Ledger!Init
  <2>1. NoRow.settled = {} /\ NoRow.state = NONE
    BY DEF NoRow
  <2> QED
    BY <2>1 DEF Init, Ledger!Init, In, NONE
<1>2. IInv /\ [Next]_vars => [Ledger!Next]_<<stopped, billed, recorded, paid>>
  <2> SUFFICES ASSUME IInv, [Next]_vars PROVE Step
    OBVIOUS
  <2>1. rows \in [Sessions -> Row] /\ bills \subseteq Bill /\ paid \in [Sessions -> Nat]
    BY DEF IInv, BaseInv, TypeOK, RowsTypeOK, BatchTypeOK
  <2>2. ASSUME UNCHANGED <<rows, paid>>, bills' \subseteq bills PROVE Step
    <3>1. billed' \subseteq billed /\ UNCHANGED <<stopped, recorded, paid>>
      BY <2>2 DEF In
    <3>2. Ledger!LoseBills
      BY <3>1 DEF Ledger!LoseBills
    <3> QED
      BY <3>2 DEF Ledger!Next
  <2>3. CASE ProcessBatch
    <3>1. UNCHANGED <<stopped, recorded, paid>> /\ billed = {}
      BY <2>3 DEF ProcessBatch, In
    <3>2. billed' \subseteq {s \in stopped : recorded[s] = {}}
      <4> SUFFICES ASSUME NEW b \in bills' PROVE b.s \in stopped /\ recorded[b.s] = {}
        OBVIOUS
      <4>1. PICK s \in FindAllPendingSettlement :
                   b = [s |-> s, amount |-> CalculateCost(rows[s].start, rows[s].end)]
        BY <2>3 DEF ProcessBatch
      <4>2. b.s = s /\ s \in stopped /\ s \in Sessions /\ rows[s].settled = {}
        BY <4>1 DEF FindAllPendingSettlement, In
      <4> QED
        BY <4>2
    <3>3. Ledger!Bill
      BY <3>1, <3>2 DEF Ledger!Bill
    <3> QED
      BY <3>3 DEF Ledger!Next
  <2>4. ASSUME NEW b \in bills, SettleSession(b) PROVE Step
    <3>1. /\ b.s \in Sessions /\ rows[b.s].settled = {} /\ bills' = bills \ {b}
          /\ \A e \in bills : b.s = e.s => e = b
      BY <2>1, <2>4 DEF IInv, BaseInv, BillsInv, Bill, SettleSession
    <3>2. CASE UNCHANGED rows
      BY <2>2, <2>4, <3>1, <3>2 DEF SettleSession
    <3>3. CASE rows' = [rows EXCEPT ![b.s].settled = {b.amount}]
      <4>1. \A s \in Sessions :
              /\ rows'[s].state = rows[s].state
              /\ rows'[s].settled = IF s = b.s THEN {b.amount} ELSE rows[s].settled
        BY <2>1, <3>1, <3>3 DEF Row
      <4>2. recorded' = [recorded EXCEPT ![b.s] = {b.amount}]
        BY <3>1, <4>1
      <4>3. stopped' = stopped /\ recorded[b.s] = {} /\ b.amount \in recorded'[b.s]
        BY <3>1, <4>1 DEF In
      <4>4. b.s \in billed /\ billed' = billed \ {b.s}
        BY <3>1
      <4>5. Ledger!Record(b.s)
        BY <2>4, <3>1, <4>2, <4>3, <4>4 DEF Ledger!Record, SettleSession
      <4> QED
        BY <3>1, <4>5 DEF Ledger!Next
    <3> QED
      BY <2>4, <3>2, <3>3 DEF SettleSession
  <2>5. CASE TransferSettlement
    <3>1. stopped' = stopped /\ billed' = billed /\ recorded' = recorded
      BY <2>5 DEF TransferSettlement, In
    <3>2. /\ paying.s \in Sessions /\ rows[paying.s].settled = {paying.amount}
          /\ paid[paying.s] = 0 /\ paying.amount \in Nat
      BY <2>5 DEF TransferSettlement, IInv, BaseInv, TypeOK, BatchTypeOK, Bill, BillsInv
    <3>3. CASE paid' = [paid EXCEPT ![paying.s] = @ + paying.amount]
      <4>1. paid' = [paid EXCEPT ![paying.s] = paying.amount]
        <5>1. paid[paying.s] + paying.amount = paying.amount
          BY <3>2
        <5> QED
          BY <3>3, <5>1
      <4>2. Ledger!Transfer(paying.s)
        BY <3>1, <3>2, <4>1 DEF Ledger!Transfer
      <4> QED
        BY <3>2, <4>2 DEF Ledger!Next
    <3> QED
      BY <2>5, <3>1, <3>3 DEF TransferSettlement
  <2>6. CASE Crash
    BY <2>2, <2>6 DEF Crash
  <2>7. ASSUME bills' = bills, UNCHANGED paid, \A s \in Sessions : rows'[s].settled = rows[s].settled,
               \/ stopped' = stopped
               \/ \E s \in Sessions : stopped' \in {stopped \cup {s}, stopped \ {s}}
        PROVE  Step
    <3>1. recorded' = recorded /\ billed' = billed
      BY <2>7
    <3>2. ASSUME NEW s \in Sessions, stopped' \in {stopped \cup {s}, stopped \ {s}} PROVE Step
      <4>1. Ledger!StopOrFail(s)
        BY <2>7, <3>1, <3>2 DEF Ledger!StopOrFail
      <4> QED
        BY <4>1 DEF Ledger!Next
    <3> QED
      BY <2>7, <3>1, <3>2
  <2> QED
    BY <2>3, <2>4, <2>5, <2>6, <2>7, RestOfLedger, WhoPays DEF Batch
<1> QED
  BY <1>1, <1>2, Invariance, PTL DEF Spec, ImplementsLedger, Ledger!Spec
=============================================================================
