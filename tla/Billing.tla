------------------------------- MODULE Billing -------------------------------
(***************************************************************************)
(* What a user's rentals cost.  Requests to create a session check a quota *)
(* of one active session with two queries; requests to extend a running    *)
(* session check a limit and a deposit and then update the row; stop       *)
(* requests and the expiration worker end it; an hourly batch settles what *)
(* has ended and may transfer the amount on chain; a request for the       *)
(* balance adds up what is running and what has stopped with two queries.  *)
(* No two of these steps are in one transaction.                           *)
(*                                                                         *)
(* There is one user: users only meet in the unique indexes, which may     *)
(* refuse a stop.  Why a session is confirmed, stopped or failed is the    *)
(* subject of RentalSessions; here any transition may be asked for at any  *)
(* time, but it is made as the code makes it, with a copy of the row that  *)
(* is loaded and later written back.  FAILED stands for CANCELLED and for  *)
(* soft-deleted pending sessions too.  Prices are left out: an amount is a *)
(* number of minutes.                                                      *)
(***************************************************************************)
EXTENDS Naturals, FiniteSets

CONSTANTS
  Sessions,
  Creators,       \* requests to create a session at a time (a bound)
  Extenders,      \* requests to extend a session at a time (a bound)
  Stoppers,       \* requests and events that end a session at a time (a bound)
  Extensions,     \* the lengths of extensions that are asked for, in ticks
  MaxExtensions,
  TicksPerMinute, \* the resolution of the clock
  Deposit,        \* what the user has deposited, in ticks; beyond what can be used
                  \* up if the manager has no balance validator
  Asking,         \* whether the balance is asked for (a bound)
  Transferring,   \* whether the batch processor has a contract client
  MaxNow,         \* bound on the clock
  MaxFaults       \* bound on crashes and on failing queries and transfers

NONE == "none"
EXPIRER == "expirer"
WORKER == "worker"
Writers == Stoppers \cup {EXPIRER, WORKER}

ASSUME BillingAssumption ==
  /\ Extensions \subseteq Nat \ {0}
  /\ MaxExtensions \in Nat \ {0}
  /\ TicksPerMinute \in Nat \ {0}
  /\ Deposit \in Nat /\ MaxNow \in Nat /\ MaxFaults \in Nat
  /\ Transferring \in BOOLEAN /\ Asking \in BOOLEAN
  /\ IsFiniteSet(Sessions) /\ IsFiniteSet(Creators) /\ IsFiniteSet(Extenders)
  /\ NONE \notin Sessions /\ Stoppers \cap {EXPIRER, WORKER} = {}

VARIABLES
  now,        \* the clock
  rows,       \* the table rental_sessions
  creating,   \* per creator, how many of the two quota queries it has passed
  extending,  \* per extender, the update it is about to make
  writing,    \* per writer, the changed copy of a row it is about to write
  expiring,   \* the sessions the expiration worker has listed
  bills,      \* the batch: sessions still to settle, with their cost
  paying,     \* the bill whose transfer is next
  paid,       \* on chain: what has been transferred for each session
  balance,    \* a request for the balance
  unchecked,  \* history: quota queries that failed and counted as "none"
  faults

requests == <<creating, extending, writing, balance>>
batch == <<bills, paying>>
vars == <<now, rows, creating, extending, writing, expiring, bills, paying, paid,
          balance, unchecked, faults>>

\* A time that is NULL is 0 (the clock starts at 1); settled_amount is a set of
\* at most one amount, empty while settled_at is NULL.
Row == [state: {"PENDING", "RUNNING", "STOPPED", "FAILED", NONE},
        start: Nat, end: Nat, until: Nat, count: Nat, minutes: Nat,
        settled: SUBSET Nat]
NoRow == [state |-> NONE, start |-> 0, end |-> 0, until |-> 0, count |-> 0,
          minutes |-> 0, settled |-> {}]
Copy == [s: Sessions, to: {"RUNNING", "STOPPED", "FAILED"}, start: Nat, end: Nat]
Bill == [s: Sessions, amount: Nat]
NoBill == [s |-> NONE, amount |-> 0]
NotExtending == [s |-> NONE, until |-> 0, minutes |-> 0]
NotWriting == [s |-> NONE, to |-> NONE, start |-> 0, end |-> 0]
NoBalance == [pc |-> "idle", due |-> {}, counted |-> {}]

RowsTypeOK == now \in Nat /\ rows \in [Sessions -> Row]

RequestsTypeOK ==
  /\ creating \in [Creators -> 0..2]
  /\ extending \in [Extenders -> [s: Sessions, until: Nat, minutes: Extensions]
                                 \cup {NotExtending}]
  /\ writing \in [Writers -> Copy \cup {NotWriting}]
  /\ expiring \subseteq Sessions
  /\ balance \in [pc: {"idle", "running", "done"}, due: SUBSET Sessions,
                  counted: SUBSET Sessions]

BatchTypeOK ==
  /\ bills \subseteq Bill
  /\ paying \in Bill \cup {NoBill}
  /\ paid \in [Sessions -> Nat]

BoundsTypeOK ==
  /\ faults \in 0..MaxFaults
  /\ unchecked \in 0..faults

TypeOK == RowsTypeOK /\ RequestsTypeOK /\ BatchTypeOK /\ BoundsTypeOK

NoRequests ==
  /\ creating = [c \in Creators |-> 0]
  /\ extending = [x \in Extenders |-> NotExtending]
  /\ writing = [x \in Writers |-> NotWriting]
  /\ expiring = {}
  /\ balance = NoBalance

Init ==
  /\ now = 1
  /\ rows = [s \in Sessions |-> NoRow]
  /\ NoRequests
  /\ bills = {} /\ paying = NoBill
  /\ paid = [s \in Sessions |-> 0]
  /\ unchecked = 0 /\ faults = 0

Fault == faults < MaxFaults /\ faults' = faults + 1

In(state) == {s \in Sessions : rows[s].state = state}

-----------------------------------------------------------------------------
(* Creating a session: the quota.                                          *)

Asked == <<"RUNNING", "PENDING">>

\* Mutant: a session in the way is ignored by the second query.
QuotaCheckOnce(c, i) ==
  /\ creating[c] = i - 1
  /\ i = 1 => In(Asked[i]) = {}
  /\ creating' = [creating EXCEPT ![c] = i]
  /\ UNCHANGED <<now, rows, extending, writing, expiring, batch, paid, balance, unchecked, faults>>

\* The i-th query finds no session, or fails, which counts as finding none.
QuotaCheck(c, i) ==
  /\ creating[c] = i - 1
  /\ \/ In(Asked[i]) = {} /\ UNCHANGED <<unchecked, faults>>
     \/ Fault /\ unchecked' = unchecked + 1
  /\ creating' = [creating EXCEPT ![c] = i]
  /\ UNCHANGED <<now, rows, extending, writing, expiring, batch, paid, balance>>

\* The i-th query finds a session, and the request is refused.
QuotaRefuse(c, i) ==
  /\ creating[c] = i - 1 /\ In(Asked[i]) # {}
  /\ creating' = [creating EXCEPT ![c] = 0]
  /\ UNCHANGED <<now, rows, extending, writing, expiring, batch, paid, balance, unchecked, faults>>

\* The session is created, or one of the other checks refuses it.
CreateSession(c, s) ==
  /\ creating[c] = 2 /\ rows[s] = NoRow
  /\ creating' = [creating EXCEPT ![c] = 0]
  /\ \/ rows' = [rows EXCEPT ![s].state = "PENDING"]
     \/ UNCHANGED rows
  /\ UNCHANGED <<now, extending, writing, expiring, batch, paid, balance, unchecked, faults>>

-----------------------------------------------------------------------------
(* Extending a session.                                                    *)

\* Mutant: the limit is off by one.
MayExtendOnce(s, e) ==
  /\ rows[s].state = "RUNNING"
  /\ rows[s].count <= MaxExtensions
  /\ (now - rows[s].start) + e <= Deposit

\* The checks of ExtendSession.  The last is skipped without a validator.
MayExtend(s, e) ==
  /\ rows[s].state = "RUNNING"
  /\ rows[s].count < MaxExtensions
  /\ (now - rows[s].start) + e <= Deposit

\* The new end: from the end in the copy if that is in the future
NewExpiration(s, e) == (IF rows[s].until > now THEN rows[s].until ELSE now) + e

ExtendSession(x, s, e) ==
  /\ extending[x] = NotExtending
  /\ MayExtend(s, e)
  /\ extending' = [extending EXCEPT ![x] =
                     [s |-> s, until |-> NewExpiration(s, e), minutes |-> e]]
  /\ UNCHANGED <<now, rows, creating, writing, expiring, batch, paid, balance, unchecked, faults>>

\* Mutant: the minutes of the last extension replace the total.
ExtendedReplacing(r, u) ==
  [r EXCEPT !.until = u.until, !.count = @ + 1, !.minutes = u.minutes]

Extended(r, u) == [r EXCEPT !.until = u.until, !.count = @ + 1, !.minutes = @ + u.minutes]

\* UPDATE ... WHERE state = 'RUNNING'.  The audit record that follows is
\* never stored: its ON CONFLICT names no index of the table.
UpdateExtension(x) ==
  LET u == extending[x]
  IN  /\ u # NotExtending
      /\ extending' = [extending EXCEPT ![x] = NotExtending]
      /\ \/ /\ rows' = IF rows[u.s].state = "RUNNING"
                       THEN [rows EXCEPT ![u.s] = Extended(rows[u.s], u)] ELSE rows
            /\ UNCHANGED faults
         \/ Fault /\ UNCHANGED rows
      /\ UNCHANGED <<now, creating, writing, expiring, batch, paid, balance, unchecked>>

-----------------------------------------------------------------------------
(* The transitions of a session.                                           *)

CanTransitionTo(state, to) ==
  \/ state = "PENDING" /\ to \in {"RUNNING", "FAILED"}
  \/ state = "RUNNING" /\ to \in {"STOPPED", "FAILED"}

\* Mutant: a state the table does not know.
LoadAndValidateMisnamed(x, s, to) ==
  /\ writing[x] = NotWriting
  /\ CanTransitionTo(rows[s].state, to)
  /\ writing' = [writing EXCEPT ![x] =
                   [s |-> s, to |-> "CANCELLED", start |-> rows[s].start, end |-> now]]

\* loadAndValidateTransition and the changes to the copy.  A start, and the end
\* that comes with an event, is the time of a block.
LoadAndValidateTransition(x, s, to) ==
  /\ writing[x] = NotWriting
  /\ CanTransitionTo(rows[s].state, to)
  /\ \E time \in 1..now :
       /\ (x \notin Stoppers /\ to = "STOPPED") \/ to = "FAILED" => time = now
       /\ writing' = [writing EXCEPT ![x] =
            IF to = "RUNNING" THEN [s |-> s, to |-> to, start |-> time, end |-> rows[s].end]
            ELSE [s |-> s, to |-> to, start |-> rows[s].start, end |-> time]]

\* The confirmation worker starts or fails a session; stop and cancel requests,
\* RentalStopped events, the pod watcher and the timeouts stop or fail it.
Transition(x, s, to) ==
  /\ x = WORKER => to \in {"RUNNING", "FAILED"}
  /\ x \in Stoppers => to \in {"STOPPED", "FAILED"}
  /\ LoadAndValidateTransition(x, s, to)
  /\ UNCHANGED <<now, rows, creating, extending, expiring, batch, paid, balance, unchecked, faults>>

Written(r, c) == [r EXCEPT !.state = c.to, !.start = c.start, !.end = c.end]

\* Update writes the copy back, whatever has happened to the row since.  The
\* columns settled_* and extended_* are not among those written.  A stop without
\* a transaction hash may collide with another such session of any user
\* (RentalSessions says when).
Update(x) ==
  LET c == writing[x]
  IN  /\ c # NotWriting
      /\ writing' = [writing EXCEPT ![x] = NotWriting]
      /\ \/ rows' = [rows EXCEPT ![c.s] = Written(rows[c.s], c)] /\ UNCHANGED faults
         \/ c.to = "STOPPED" /\ UNCHANGED <<rows, faults>>
         \/ Fault /\ UNCHANGED rows
      /\ UNCHANGED <<now, creating, extending, expiring, batch, paid, balance, unchecked>>

\* processExpiredSessions: FindExpiringSessions, then one after the other
FindExpiringSessions ==
  /\ expiring = {} /\ writing[EXPIRER] = NotWriting
  /\ expiring' = {s \in In("RUNNING") : rows[s].until # 0 /\ rows[s].until <= now}
  /\ UNCHANGED <<now, rows, requests, batch, paid, unchecked, faults>>

ExpireSession(s) ==
  /\ s \in expiring
  /\ expiring' = expiring \ {s}
  /\ \/ LoadAndValidateTransition(EXPIRER, s, "STOPPED")
     \/ /\ writing[EXPIRER] = NotWriting /\ rows[s].state # "RUNNING"
        /\ UNCHANGED writing
  /\ UNCHANGED <<now, rows, creating, extending, batch, paid, balance, unchecked, faults>>

-----------------------------------------------------------------------------
(* The settlement batch.                                                   *)

\* Mutant: a minute is added instead of rounding up.
CalculateCostAddingOne(start, end) ==
  IF end <= start THEN 0 ELSE (end - start) \div TicksPerMinute + 1

\* CalculateCost: minutes, rounded up; nothing for a negative duration
CalculateCost(start, end) ==
  IF end <= start THEN 0 ELSE ((end - start) + (TicksPerMinute - 1)) \div TicksPerMinute

\* Mutant: sessions that were extended are left out.
FindPendingUnextended == {s \in In("STOPPED") : rows[s].settled = {} /\ rows[s].until = 0}

\* Mutant: the query without "state = 'STOPPED'".
FindPendingStarted == {s \in Sessions : rows[s].settled = {} /\ rows[s].start # 0}

FindAllPendingSettlement == {s \in In("STOPPED") : rows[s].settled = {}}

\* settleSession passes over a session without both times.  (It also passes over a
\* price that is not a number; the column is NUMERIC.)
ProcessBatch ==
  /\ bills = {} /\ paying = NoBill
  /\ bills' = {[s |-> s, amount |-> CalculateCost(rows[s].start, rows[s].end)] :
                 s \in {s \in FindAllPendingSettlement : rows[s].start # 0 /\ rows[s].end # 0}}
  /\ UNCHANGED <<now, rows, requests, expiring, paying, paid, unchecked, faults>>

\* settleSession: UpdateSettlement; the batch goes on after a failure.
SettleSession(b) ==
  /\ b \in bills /\ paying = NoBill
  /\ bills' = bills \ {b}
  /\ \/ /\ rows' = [rows EXCEPT ![b.s].settled = {b.amount}]
        /\ paying' = IF Transferring THEN b ELSE NoBill
        /\ UNCHANGED faults
     \/ Fault /\ UNCHANGED <<rows, paying>>
  /\ UNCHANGED <<now, requests, expiring, paid, unchecked>>

\* Mutant: a transfer is repeated after an error, though it may have been made.
TransferSettlementRepeating ==
  /\ paying # NoBill
  /\ paid' = [paid EXCEPT ![paying.s] = @ + paying.amount]
  /\ \/ paying' = NoBill /\ UNCHANGED faults
     \/ Fault /\ UNCHANGED paying
  /\ UNCHANGED <<now, rows, requests, expiring, bills, unchecked>>

\* TransferSettlement, whose failure is only logged
TransferSettlement ==
  /\ paying # NoBill
  /\ paying' = NoBill
  /\ \/ /\ paid' = [paid EXCEPT ![paying.s] = @ + paying.amount]
        /\ UNCHANGED faults
     \/ Fault /\ UNCHANGED paid
  /\ UNCHANGED <<now, rows, requests, expiring, bills, unchecked>>

-----------------------------------------------------------------------------
(* The balance: CalculatePendingSettlement.  It adds up what two queries   *)
(* find, "counted"; "due" is what should be in the sum.                    *)

\* What has not been settled: it runs, or has stopped without a settlement.
Due == In("RUNNING") \cup {s \in In("STOPPED") : rows[s].settled = {}}

\* Mutant: the stopped sessions are read first.
BalanceRead1Stopped ==
  /\ Asking /\ balance.pc = "idle"
  /\ balance' = [pc |-> "running", due |-> Due, counted |-> In("STOPPED")]
  /\ UNCHANGED <<now, rows, creating, extending, writing, expiring, batch, paid, unchecked, faults>>

\* FindByUserAndState(RUNNING)
BalanceRead1 ==
  /\ Asking /\ balance.pc = "idle"
  /\ balance' = [pc |-> "running", due |-> Due, counted |-> In("RUNNING")]
  /\ UNCHANGED <<now, rows, creating, extending, writing, expiring, batch, paid, unchecked, faults>>

\* FindPendingSettlement.  Its query does not look at settled_at.  What has failed
\* or has been settled since the first query is not due any more.
BalanceRead2 ==
  /\ balance.pc = "running"
  /\ balance' = [balance EXCEPT !.pc = "done", !.counted = @ \cup In("STOPPED"),
                                !.due = {s \in @ : rows[s].state # "FAILED" /\ rows[s].settled = {}}]
  /\ UNCHANGED <<now, rows, creating, extending, writing, expiring, batch, paid, unchecked, faults>>

\* The answer: the balance, or an error if the second query fails
BalanceReply ==
  /\ \/ balance.pc = "done" /\ UNCHANGED faults
     \/ balance.pc = "running" /\ Fault
  /\ balance' = NoBalance
  /\ UNCHANGED <<now, rows, creating, extending, writing, expiring, batch, paid, unchecked>>

-----------------------------------------------------------------------------
Tick ==
  /\ now < MaxNow /\ now' = now + 1
  /\ UNCHANGED <<rows, requests, expiring, batch, paid, unchecked, faults>>

\* The hub stops anywhere; the table and the chain stay.
Crash ==
  /\ Fault
  /\ creating' = [c \in Creators |-> 0]
  /\ extending' = [x \in Extenders |-> NotExtending]
  /\ writing' = [x \in Writers |-> NotWriting]
  /\ expiring' = {}
  /\ balance' = NoBalance
  /\ bills' = {} /\ paying' = NoBill
  /\ UNCHANGED <<now, rows, paid, unchecked>>

Batch == ProcessBatch \/ TransferSettlement \/ \E b \in bills : SettleSession(b)

Expirer == FindExpiringSessions \/ \E s \in Sessions : ExpireSession(s)

Next ==
  \/ \E c \in Creators : \/ \E i \in 1..2 : QuotaCheck(c, i) \/ QuotaRefuse(c, i)
                         \/ \E s \in Sessions : CreateSession(c, s)
  \/ \E x \in Extenders : \/ UpdateExtension(x)
                          \/ \E s \in Sessions, e \in Extensions : ExtendSession(x, s, e)
  \/ \E x \in Writers : Update(x)
  \/ \E x \in Stoppers \cup {WORKER}, s \in Sessions, to \in {"RUNNING", "STOPPED", "FAILED"} :
       Transition(x, s, to)
  \/ Expirer
  \/ Batch
  \/ BalanceRead1 \/ BalanceRead2 \/ BalanceReply
  \/ Tick
  \/ Crash

Spec == Init /\ [][Next]_vars

(***************************************************************************)
(* Fairness.  The ticker of the batch processor runs for as long as the    *)
(* hub does.  Nothing else is assumed to happen.                           *)
(***************************************************************************)
FairSpec == Spec /\ WF_vars(Batch)

-----------------------------------------------------------------------------
(* What holds.                                                             *)

Active == In("PENDING") \cup In("RUNNING")

\* The quota is checked with two queries before the insert, so it is not one
\* session: between the two queries a pending session may start to run.  But
\* a user never has more than two per concurrent request, plus one for every
\* quota query that failed, plus one that the confirmation worker starts from
\* an old copy although it has been cancelled.
QuotaIsBounded == Cardinality(Active) <= 2 * Cardinality(Creators) + 1 + unchecked

\* The extenders that are about to extend s
ExtendersOf(s) == {x \in Extenders : extending[x].s = s}

\* The limit on extensions is checked before the update, so each concurrent
\* request may add one, but no more than that.
ExtensionsAreBounded ==
  \A s \in Sessions : rows[s].count < MaxExtensions + Cardinality(Extenders)

\* Nobody is given more time than total_extended_minutes accounts for,
\* whatever old ends concurrent extensions start from.
ExtendedTimeIsCounted ==
  \A s \in Sessions : rows[s].until # 0 => rows[s].until <= now + rows[s].minutes

\* At most one transfer is made for a session, and of the recorded amount,
\* although recording and transferring are two steps and batches overlap
\* with late stop requests.
TransfersMatchRecord ==
  \A s \in Sessions : paid[s] # 0 => rows[s].settled = {paid[s]}

\* Nobody is charged for time that has not passed: the recorded minutes, but
\* for the last one begun, lie between the session's start and now, although a
\* batch works from old copies and old copies overwrite each other's times.
Elapsed(start, amount) == amount > 0 => (amount - 1) * TicksPerMinute < now - start
ChargedTimeHasPassed ==
  \A s \in Sessions : \A amount \in rows[s].settled : Elapsed(rows[s].start, amount)

\* A settlement is never changed again.
SettlementsAreFinal ==
  [][\A s \in Sessions : rows[s].settled # {} => rows'[s].settled = rows[s].settled]_vars

\* A session that runs, or has stopped without a settlement, when a balance is
\* asked for is in the sum, unless it fails or is settled before the second
\* query, even if it stops between the two.
BalanceMissesNothing == balance.pc = "done" => balance.due \subseteq balance.counted

\* What has stopped is settled in the end, unless a failure overwrites the stop.
StoppedIsSettled ==
  \A s \in Sessions :
    rows[s].state = "STOPPED" ~> (rows[s].settled # {} \/ rows[s].state = "FAILED")

\* Batches, late stops, stale failures, failed updates and transfers and crashes
\* together are an account: what had stopped is billed, what is billed may be
\* charged, once and for good, and is paid for at most once, in the recorded
\* amount.
Ledger == INSTANCE SettlementLedger
            WITH stopped <- In("STOPPED"), billed <- {b.s : b \in bills},
                 recorded <- [s \in Sessions |-> rows[s].settled]
ImplementsLedger == Ledger!Spec

-----------------------------------------------------------------------------
(* The inductive invariant.                                                *)

Passed(i) == {c \in Creators : creating[c] = i}

\* The session that the worker is about to start
ToRun == {s \in Sessions : writing[WORKER].s = s /\ writing[WORKER].to = "RUNNING"}

\* A request that has passed the second query saw no pending session, or a
\* query failed; one that has passed the first saw no running one.
QuotaInv ==
  LET n == Cardinality(Creators)
  IN  /\ Cardinality(In("PENDING")) + Cardinality(Passed(2)) <= n + unchecked
      /\ Cardinality(Active \cup ToRun) + Cardinality(Passed(1)) + Cardinality(Passed(2))
           <= 2 * n + 1 + unchecked

\* Every extender has seen a count below the limit.
LimitInv ==
  \A s \in Sessions :
    rows[s].count + Cardinality(ExtendersOf(s)) < MaxExtensions + Cardinality(Extenders)

\* An end that is about to be written is accounted for together with its minutes.
TimeInv ==
  /\ ExtendedTimeIsCounted
  /\ \A x \in Extenders : extending[x].s # NONE =>
       extending[x].until <= now + rows[extending[x].s].minutes + extending[x].minutes

\* A bill is for a session without a settlement, and the only one for it; a
\* transfer that is about to be made is of the recorded amount.
BillsInv ==
  /\ TransfersMatchRecord
  /\ \A b \in bills : rows[b.s].settled = {} /\ \A c \in bills : b.s = c.s => b = c
  /\ paying # NoBill => rows[paying.s].settled = {paying.amount} /\ paid[paying.s] = 0

\* Only the worker starts a session, and it does so once: nothing that a session
\* gets from running is there while one is pending or about to be started.
Unstarted(s) ==
  /\ rows[s].state \in {NONE, "PENDING", "FAILED"} /\ rows[s].start = 0
  /\ rows[s].settled = {} /\ \A b \in bills : b.s # s
  /\ \A x \in Writers : writing[x].s = s =>
       \/ writing[x].to = "FAILED" /\ writing[x].start = 0
       \/ x = WORKER /\ writing[x].to = "RUNNING"
StartInv ==
  /\ \A x \in Writers : writing[x].to = "RUNNING" => x = WORKER
  /\ \A s \in Sessions : rows[s].state \in {NONE, "PENDING"} \/ s \in ToRun => Unstarted(s)

\* What the first query did not count has stopped or failed, and does not
\* run again.
BalanceInv ==
  /\ BalanceMissesNothing
  /\ balance.pc = "running" =>
       \A s \in balance.due \ balance.counted :
         rows[s].state \in {"STOPPED", "FAILED"} /\ s \notin ToRun

\* Behind ChargedTimeHasPassed: no start or end lies in the future; the starts
\* that are, or are about to be, in a row agree, but for those that were loaded
\* before the session ran; and what is billed or settled has passed since each.
Starts(s) == {rows[s].start} \cup {writing[x].start : x \in {x \in Writers : writing[x].s = s}}
Charges(s) == rows[s].settled \cup {b.amount : b \in {b \in bills : b.s = s}}
ChargeInv ==
  /\ \A s \in Sessions : /\ rows[s].end <= now
                        /\ \A start \in Starts(s) : start <= now
  /\ \A x \in Writers : writing[x].end <= now
  /\ \A s \in Sessions : \A i, j \in Starts(s) : i = j \/ i = 0 \/ j = 0
  /\ \A s \in Sessions : \A start \in Starts(s), amount \in Charges(s) : Elapsed(start, amount)

\* What the steps keep together: the start times are used to prove the rest, and need none of it.
BaseInv == TypeOK /\ QuotaInv /\ LimitInv /\ TimeInv /\ BillsInv /\ BalanceInv
IInv == StartInv /\ BaseInv

-----------------------------------------------------------------------------
(* What the repository's comments say, and some behaviour breaks.          *)

\* rental_handler.go: "reject if user already has a RUNNING or PENDING session"
QuotaIsOne == Cardinality(Active) <= 1

\* migrations/008: extended_until "tracks cumulative extensions".  Of two
\* concurrent extensions both are counted and one is given.
ExtensionsAccumulate ==
  \A s \in Sessions : rows[s].until # 0 => rows[s].until >= rows[s].start + rows[s].minutes

\* sessions/manager.go: MaxExtensions is "the maximum number of times a session can
\* be extended".  Concurrent requests see the same count, and each adds one.
ExtensionsWithinLimit == \A s \in Sessions : rows[s].count <= MaxExtensions

\* calculator.go: the balance includes "STOPPED sessions without settled_at".  It
\* includes those with one too.
BalanceIsUnsettled ==
  [][balance.pc = "running" /\ balance'.pc = "done" =>
       \A s \in balance'.counted \ balance.counted : rows[s].settled = {}]_vars

\* calculator.go: a running session at its "cost from startTime to now", a stopped
\* one at its "full session cost".  One that stops between the queries is charged
\* both.
BalanceCountsOnce ==
  [][balance.pc = "running" /\ balance'.pc = "done" =>
       balance.counted \cap In("STOPPED") = {}]_vars

\* migrations/006: settled_amount is the "Calculated rental cost".  A stop
\* that had loaded the running row moves end_time after the settlement.
SettledIsTheCost ==
  \A s \in Sessions :
    rows[s].settled # {} => rows[s].settled = {CalculateCost(rows[s].start, rows[s].end)}

\* expiration_worker.go: "auto-terminates them at expiration".  A session that
\* is extended after it was listed is terminated all the same.
StopsAtExpiration ==
  [][\A s \in Sessions :
       (writing[EXPIRER].s = s /\ rows[s].state = "RUNNING" /\ rows'[s].state = "STOPPED"
         /\ writing'[EXPIRER] # writing[EXPIRER]) => rows[s].until <= now]_vars
=============================================================================
