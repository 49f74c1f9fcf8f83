--------------------------- MODULE RentalSessions ---------------------------
(***************************************************************************)
(* The life of a GPU rental session of the Worldland Hub: the rows of the  *)
(* table rental_sessions and everyone who writes them.  HTTP handlers,     *)
(* the confirmation worker, the pod watcher, the blockchain event          *)
(* processor, the timeout enforcer and the expiration worker all change a  *)
(* session with SessionManager.TransitionToX, which READS the row, checks  *)
(* the transition on that copy, and later WRITES the whole copy back:      *)
(*                                                                         *)
(*     loadAndValidateTransition   SELECT ... WHERE id                     *)
(*     sessionRepo.Update          UPDATE ... WHERE id   (no state guard)  *)
(*                                                                         *)
(* The read and the write are two steps here (LoadAndValidate, Update), so *)
(* every interleaving of two writers of a session is a behaviour.          *)
(*                                                                         *)
(* Time is abstracted: a row may become older than any cutoff between two  *)
(* steps, so "older than 10 minutes" and "no heartbeat for 24 hours" hold  *)
(* of any row at any time, and the heartbeat (which only writes            *)
(* updated_at) leaves the modelled columns alone.                          *)
(***************************************************************************)
EXTENDS Naturals

CONSTANTS
  Sessions,        \* ids of rental sessions
  InitialSessions, \* those already created (PENDING) at the start
  Users,           \* wallet addresses of renters
  UserOf,          \* [Sessions -> Users]: user_address of a session
  Rentals,         \* on-chain rental ids
  Txs,             \* transaction hashes a renter may submit to ConfirmRental
  RentalOf,        \* [Txs -> Rentals]: the rental the transaction starts
  Renter,          \* [Rentals -> SUBSET Sessions]: same user and provider
  Requests,        \* HTTP requests; each is served once (a bound)
  RequestKinds,    \* what clients ask for
  Background,      \* the background goroutines that run
  MaxCrashes       \* bound on hub crashes

NULL  == "NULL"
EMPTY == ""        \* the tx_hash written by a stop without a transaction

BackgroundNames == {"worker", "watcher", "listener", "enforcer", "expirer"}
Batchers == {"worker", "enforcer", "expirer"}
Procs == Requests \cup Background

ASSUME ConstantsAssumption ==
  /\ InitialSessions \subseteq Sessions
  /\ UserOf \in [Sessions -> Users]
  /\ RentalOf \in [Txs -> Rentals]
  /\ Renter \in [Rentals -> SUBSET Sessions]
  /\ NULL \notin Rentals \cup Txs \cup Sessions
  /\ EMPTY \notin Rentals \cup Txs
  /\ Rentals \cap Txs = {}
  /\ RequestKinds \subseteq {"create", "confirm", "cancel", "stop"}
  /\ Background \subseteq BackgroundNames
  /\ Requests \cap BackgroundNames = {}
  /\ MaxCrashes \in Nat

States == {"PENDING", "RUNNING", "STOPPED", "FAILED", "CANCELLED"}
Terminal == {"STOPPED", "FAILED", "CANCELLED"}

\* The tx_hash column.  The hash of the transaction that stopped rental r is
\* named r.
TxColumn == Txs \cup Rentals \cup {NULL, EMPTY}

\* A row of rental_sessions.  rental stands for rental_id, start_time and
\* block_number, which TransitionToRunning sets together; ended says that
\* end_time is set and deleted that deleted_at is.  "NONE": no row yet.  ran is
\* no column but history: the rental the session was last made RUNNING with.
Row == [state: States \cup {"NONE"}, tx: TxColumn, rental: Rentals \cup {NULL},
        ended: BOOLEAN, deleted: BOOLEAN, ran: Rentals \cup {NULL}]
NoRow == [state |-> "NONE", tx |-> NULL, rental |-> NULL,
          ended |-> FALSE, deleted |-> FALSE, ran |-> NULL]
NewRow == [NoRow EXCEPT !.state = "PENDING"]

\* What a goroutine is doing, and the local variables it holds meanwhile.
PCs == {"idle", "load", "write", "cleanup",                   \* SessionManager
        "provision",                                          \* the worker
        "quotaPending", "insert", "confirm", "setTx", "stopPod",
        "done"}                                               \* requests
Op == [pc: PCs, s: Sessions \cup {NULL}, target: States \cup {NULL}, snap: Row,
       tx: TxColumn, rental: Rentals \cup {NULL},
       onOk: {"idle", "cleanup"}, onErr: {"idle", "cleanup"}]
NoOp == [pc |-> "idle", s |-> NULL, target |-> NULL, snap |-> NoRow,
         tx |-> NULL, rental |-> NULL, onOk |-> "idle", onErr |-> "idle"]

ChainStatus == {"none", "active", "reverted", "stopped"}
PodPhase == {"none", "running", "failed", "succeeded"}

VARIABLES
  rows,         \* the table rental_sessions
  op,           \* what each request and goroutine is doing
  batch,        \* rows listed by a worker's tick and not yet processed
  pods,         \* phase of each session's pod in the provider's cluster
  terminating,  \* pods with a deletion timestamp
  podDeletions, \* pod deletions the informer has not delivered yet
  chain,        \* status of each rental in the contract
  stopEvents,   \* RentalStopped logs the listener has not finished with
  expired,      \* sessions whose extended_until has passed
  crashes

dbVars    == <<rows>>
podVars   == <<pods, terminating, podDeletions>>
chainVars == <<chain, stopEvents>>
vars == <<rows, op, batch, pods, terminating, podDeletions, chain, stopEvents,
          expired, crashes>>

TypeOK ==
  /\ rows \in [Sessions -> Row]
  /\ op \in [Procs -> Op]
  /\ batch \in [Batchers -> SUBSET (Sessions \X TxColumn)]
  /\ pods \in [Sessions -> PodPhase]
  /\ terminating \subseteq Sessions
  /\ podDeletions \subseteq Sessions
  /\ chain \in [Rentals -> ChainStatus]
  /\ stopEvents \subseteq Rentals
  /\ expired \subseteq Sessions
  /\ crashes \in 0..MaxCrashes

Init ==
  /\ rows = [s \in Sessions |-> IF s \in InitialSessions THEN NewRow ELSE NoRow]
  /\ op = [p \in Procs |-> NoOp]
  /\ batch = [p \in Batchers |-> {}]
  /\ pods = [s \in Sessions |-> "none"]
  /\ terminating = {} /\ podDeletions = {}
  /\ chain = [r \in Rentals |-> "none"]
  /\ stopEvents = {} /\ expired = {}
  /\ crashes = 0

-----------------------------------------------------------------------------
(* The domain model and the repository.                                    *)

allowedTransitions ==
  [st \in States |->
     CASE st = "PENDING" -> {"RUNNING", "FAILED", "CANCELLED"}
       [] st = "RUNNING" -> {"STOPPED", "FAILED"}
       [] OTHER          -> {}]

\* Mutant: the check only refuses a transition to the state the row is in.
CanTransitionToOther(row, target) == target # row.state

\* Mutant: any session that is not over may be given any other state.
CanTransitionToUnlessOver(row, target) ==
  row.state \notin Terminal /\ target # row.state

CanTransitionTo(row, target) == target \in allowedTransitions[row.state]

\* GetByID and every list query see a row that exists and is not soft-deleted.
Live(s) == rows[s].state # "NONE" /\ ~rows[s].deleted

\* The unique constraints on rental_id and (live rows only) tx_hash, for a
\* write of row to session s.
Unique(s, row) ==
  \A o \in Sessions \ {s} :
    /\ row.rental # NULL => rows[o].rental # row.rental
    /\ (row.tx # NULL /\ ~row.deleted)
         => (rows[o].deleted \/ rows[o].tx # row.tx)

ListPendingWithTxHash ==
  {s \in Sessions : Live(s) /\ rows[s].state = "PENDING" /\ rows[s].tx # NULL}

FindStaleRunning == {s \in Sessions : Live(s) /\ rows[s].state = "RUNNING"}

FindExpiringSessions == FindStaleRunning \cap expired

GetByRentalID(r) == {s \in Sessions : Live(s) /\ rows[s].rental = r}

FindByUserAndState(u, st) ==
  {s \in Sessions : Live(s) /\ UserOf[s] = u /\ rows[s].state = st}

-----------------------------------------------------------------------------
(* SessionManager: what each transition writes into the loaded copy.       *)

TransitionToRunning(snap, tx, rental) ==
  [snap EXCEPT !.state = "RUNNING", !.rental = rental, !.tx = tx]

\* Mutant: a state the database does not know.
TransitionToStoppedMisnamed(snap, tx) ==
  [snap EXCEPT !.state = "COMPLETED", !.ended = TRUE, !.tx = tx]

\* Mutant: the stopping transaction goes into the column rental_id as well.
TransitionToStoppedRenaming(snap, tx) ==
  [snap EXCEPT !.state = "STOPPED", !.ended = TRUE, !.tx = tx, !.rental = tx]

TransitionToStopped(snap, tx) ==
  [snap EXCEPT !.state = "STOPPED", !.ended = TRUE, !.tx = tx]

TransitionToFailed(snap) == [snap EXCEPT !.state = "FAILED", !.ended = TRUE]

TransitionToCancelled(snap) ==
  [snap EXCEPT !.state = "CANCELLED", !.ended = TRUE]

\* The row the operation o is about to write.  Update does not mention
\* deleted_at, which keeps the value it has in the table (as the history does).
Written(o) ==
  LET row == CASE o.target = "RUNNING" -> TransitionToRunning(o.snap, o.tx, o.rental)
               [] o.target = "STOPPED" -> TransitionToStopped(o.snap, o.tx)
               [] o.target = "FAILED"  -> TransitionToFailed(o.snap)
               [] OTHER                -> TransitionToCancelled(o.snap)
  IN  [row EXCEPT !.deleted = rows[o.s].deleted,
                  !.ran = IF o.target = "RUNNING" THEN o.rental ELSE rows[o.s].ran]

\* p's handler returns.  A request is over; the listener marks its event
\* processed (or stores it in failed_events) and does not see it again.
Return(p) ==
  /\ op' = [op EXCEPT ![p] =
              IF p \in Requests THEN [NoOp EXCEPT !.pc = "done"] ELSE NoOp]
  /\ stopEvents' = IF p = "listener" THEN stopEvents \ {op[p].rental}
                                     ELSE stopEvents

Continue(p, next) ==
  IF next = "cleanup" THEN /\ op' = [op EXCEPT ![p].pc = "cleanup"]
                           /\ UNCHANGED stopEvents
                      ELSE Return(p)

\* p calls SessionManager.TransitionTo<target>(s, ...).
Call(s, target, tx, rental, onOk, onErr) ==
  [NoOp EXCEPT !.pc = "load", !.s = s, !.target = target, !.tx = tx,
               !.rental = rental, !.onOk = onOk, !.onErr = onErr]

\* loadAndValidateTransition: the row is read and the transition checked.
LoadAndValidate(p) ==
  /\ op[p].pc = "load"
  /\ IF Live(op[p].s) /\ CanTransitionTo(rows[op[p].s], op[p].target)
       THEN /\ op' = [op EXCEPT ![p].pc = "write", ![p].snap = rows[op[p].s]]
            /\ UNCHANGED stopEvents
       ELSE Continue(p, op[p].onErr)
  /\ UNCHANGED <<rows, batch, podVars, chain, expired, crashes>>

\* RentalSessionRepository.Update: the changed copy overwrites the row.
Update(p) ==
  /\ op[p].pc = "write"
  /\ IF Unique(op[p].s, Written(op[p]))
       THEN /\ rows' = [rows EXCEPT ![op[p].s] = Written(op[p])]
            /\ Continue(p, op[p].onOk)
       ELSE /\ UNCHANGED rows
            /\ Continue(p, op[p].onErr)
  /\ UNCHANGED <<batch, podVars, chain, expired, crashes>>

-----------------------------------------------------------------------------
(* The cluster: K8sJobExecutor.DeleteGPUSession puts a pod into graceful   *)
(* termination; the pod is gone, and the informer told, some time later.   *)

DeleteGPUSession(s) ==
  terminating' = IF pods[s] = "none" THEN terminating ELSE terminating \cup {s}

\* The deletion after a transition; its error is only logged.
CleanUp(p) ==
  /\ op[p].pc = "cleanup"
  /\ DeleteGPUSession(op[p].s) \/ UNCHANGED terminating
  /\ Return(p)
  /\ UNCHANGED <<rows, batch, pods, podDeletions, chain, expired, crashes>>

\* A pod's containers exit (also while it is terminating).
PodExits(s, phase) ==
  /\ pods[s] = "running"
  /\ pods' = [pods EXCEPT ![s] = phase]
  /\ UNCHANGED <<rows, op, batch, terminating, podDeletions, chainVars, expired,
                 crashes>>

PodRemoved(s) ==
  /\ s \in terminating
  /\ pods' = [pods EXCEPT ![s] = "none"]
  /\ terminating' = terminating \ {s}
  /\ podDeletions' = podDeletions \cup {s}
  /\ UNCHANGED <<rows, op, batch, chainVars, expired, crashes>>

\* ExpirationMonitor.checkCluster deletes pods whose expires-at annotation has
\* passed and pods that failed or succeeded; it does not touch the session.
ReapPod(s) ==
  /\ pods[s] # "none" /\ s \notin terminating
  /\ DeleteGPUSession(s)
  /\ UNCHANGED <<rows, op, batch, pods, podDeletions, chainVars, expired, crashes>>

-----------------------------------------------------------------------------
(* The contract (external): start transactions are mined or revert, and a  *)
(* renter or provider stops an active rental.                              *)

MineStart(r) ==
  /\ chain[r] = "none"
  /\ \E st \in {"active", "reverted"} : chain' = [chain EXCEPT ![r] = st]
  /\ UNCHANGED <<rows, op, batch, podVars, stopEvents, expired, crashes>>

StopOnChain(r) ==
  /\ chain[r] = "active"
  /\ chain' = [chain EXCEPT ![r] = "stopped"]
  /\ stopEvents' = stopEvents \cup {r}
  /\ UNCHANGED <<rows, op, batch, podVars, expired, crashes>>

\* Mutants: a receipt that is not there yet counts as success; a reverted
\* transaction counts as success.
VerifyTransactionEarly(tx, s) ==
  CASE chain[RentalOf[tx]] = "reverted" -> "failed"
    [] OTHER -> IF s \in Renter[RentalOf[tx]] THEN "confirmed" ELSE "invalid"

VerifyTransactionIgnoringStatus(tx, s) ==
  CASE chain[RentalOf[tx]] = "none" -> "pending"
    [] OTHER -> IF s \in Renter[RentalOf[tx]] THEN "confirmed" ELSE "invalid"

\* TxVerifier.VerifyTransaction for a transaction and a session's parties.
VerifyTransaction(tx, s) ==
  LET r == RentalOf[tx] IN
  CASE chain[r] = "none"     -> "pending"
    [] chain[r] = "reverted" -> "failed"
    [] OTHER -> IF s \in Renter[r] THEN "confirmed" ELSE "invalid"

-----------------------------------------------------------------------------
(* HTTP requests.                                                          *)

Begin(kind, p, o) ==
  /\ kind \in RequestKinds
  /\ p \in Requests /\ op[p].pc = "idle"
  /\ op' = [op EXCEPT ![p] = o]

\* CreateSession: no RUNNING session, then no PENDING session, then INSERT.
CreateCheckRunning(p, s) ==
  /\ rows[s].state = "NONE"
  /\ \A q \in Requests : op[q].s # s \* a fresh uuid
  /\ FindByUserAndState(UserOf[s], "RUNNING") = {}
  /\ Begin("create", p, [NoOp EXCEPT !.pc = "quotaPending", !.s = s])
  /\ UNCHANGED <<rows, batch, podVars, chainVars, expired, crashes>>

CreateCheckPending(p) ==
  /\ op[p].pc = "quotaPending"
  /\ IF FindByUserAndState(UserOf[op[p].s], "PENDING") = {}
       THEN op' = [op EXCEPT ![p].pc = "insert"] /\ UNCHANGED stopEvents
       ELSE Return(p)
  /\ UNCHANGED <<rows, batch, podVars, chain, expired, crashes>>

CreateInsert(p) ==
  /\ op[p].pc = "insert"
  /\ rows' = [rows EXCEPT ![op[p].s] = NewRow]
  /\ Return(p)
  /\ UNCHANGED <<batch, podVars, chain, expired, crashes>>

\* CancelSession.
CancelSession(p, s) ==
  /\ Live(s)
  /\ Begin("cancel", p, Call(s, "CANCELLED", NULL, NULL, "idle", "idle"))
  /\ UNCHANGED <<rows, batch, podVars, chainVars, expired, crashes>>

\* ConfirmRental: the session is read, then GetByTxHash looks for a session
\* holding this hash (the handler returns if there is one, this session or
\* another), and only then SetTxHash runs: unguarded but for deleted_at.
ConfirmRead(p, s, tx) ==
  /\ Live(s) /\ rows[s].state = "PENDING"
  /\ Begin("confirm", p, [NoOp EXCEPT !.pc = "confirm", !.s = s, !.tx = tx])
  /\ UNCHANGED <<rows, batch, podVars, chainVars, expired, crashes>>

ConfirmGetByTxHash(p) ==
  /\ op[p].pc = "confirm"
  /\ IF \E o \in Sessions : Live(o) /\ rows[o].tx = op[p].tx
       THEN Return(p)
       ELSE op' = [op EXCEPT ![p].pc = "setTx"] /\ UNCHANGED stopEvents
  /\ UNCHANGED <<rows, batch, podVars, chain, expired, crashes>>

SetTxHash(p) ==
  /\ op[p].pc = "setTx"
  /\ LET row == [rows[op[p].s] EXCEPT !.tx = op[p].tx]
     IN  IF Live(op[p].s) /\ Unique(op[p].s, row)
           THEN rows' = [rows EXCEPT ![op[p].s] = row]
           ELSE UNCHANGED rows
  /\ Return(p)
  /\ UNCHANGED <<batch, podVars, chain, expired, crashes>>

\* HandleStopRental: the pod of a RUNNING session is deleted; the session is
\* left to the pod watcher and the RentalStopped event.
StopRead(p, s) ==
  /\ Live(s) /\ rows[s].state = "RUNNING"
  /\ Begin("stop", p, [NoOp EXCEPT !.pc = "stopPod", !.s = s])
  /\ UNCHANGED <<rows, batch, podVars, chainVars, expired, crashes>>

StopDeletePod(p) ==
  /\ op[p].pc = "stopPod"
  /\ DeleteGPUSession(op[p].s) \/ UNCHANGED terminating
  /\ Return(p)
  /\ UNCHANGED <<rows, batch, pods, podDeletions, chain, expired, crashes>>

-----------------------------------------------------------------------------
(* The background goroutines.  Ready(p): p runs and waits for its ticker   *)
(* or its next event.                                                      *)

Ready(p) == p \in Background /\ op[p].pc = "idle"

\* A worker's tick lists rows; the copies are used until the batch is done.
List(p, sessions) ==
  /\ Ready(p) /\ batch[p] = {} /\ sessions # {}
  /\ batch' = [batch EXCEPT ![p] = {<<s, rows[s].tx>> : s \in sessions}]
  /\ UNCHANGED <<rows, op, podVars, chainVars, expired, crashes>>

Take(p, s, tx) ==
  /\ Ready(p) /\ <<s, tx>> \in batch[p]
  /\ batch' = [batch EXCEPT ![p] = @ \ {<<s, tx>>}]

\* ConfirmationWorker.processPendingConfirmations.
WorkerList == List("worker", ListPendingWithTxHash)

\* Mutant: a transaction of other parties is left for the next tick.
ProcessSessionKeepingInvalid(s, tx) ==
  /\ Take("worker", s, tx)
  /\ LET result == VerifyTransaction(tx, s)
     IN  op' = [op EXCEPT !["worker"] =
                  CASE result \in {"pending", "invalid"} -> NoOp
                    [] result = "confirmed" ->
                         [NoOp EXCEPT !.pc = "provision", !.s = s, !.tx = tx,
                                      !.rental = RentalOf[tx]]
                    [] OTHER -> Call(s, "FAILED", NULL, NULL, "idle", "idle")]
  /\ UNCHANGED <<rows, podVars, chainVars, expired, crashes>>

\* processSession: verify the listed hash against the chain.
ProcessSession(s, tx) ==
  /\ Take("worker", s, tx)
  /\ LET result == VerifyTransaction(tx, s)
     IN  op' = [op EXCEPT !["worker"] =
                  CASE result = "pending" -> NoOp
                    [] result = "confirmed" ->
                         [NoOp EXCEPT !.pc = "provision", !.s = s, !.tx = tx,
                                      !.rental = RentalOf[tx]]
                    [] OTHER -> Call(s, "FAILED", NULL, NULL, "idle", "idle")]
  /\ UNCHANGED <<rows, podVars, chainVars, expired, crashes>>

\* handleConfirmedTransaction: the node is looked up and the pod created
\* (kept if it is there and not terminating).  A failure may come before the
\* pod exists, or after it (the SSH service), and leads to FAILED.
Provision ==
  LET o == op["worker"]
      run  == Call(o.s, "RUNNING", o.tx, o.rental, "idle", "cleanup")
      fail == Call(o.s, "FAILED", NULL, NULL, "idle", "idle")
      created == [pods EXCEPT ![o.s] = "running"]
  IN
  /\ "worker" \in Background /\ o.pc = "provision"
  /\ \/ /\ pods[o.s] # "none" /\ o.s \notin terminating
        /\ op' = [op EXCEPT !["worker"] = run]
        /\ UNCHANGED pods
     \/ /\ pods[o.s] = "none"
        /\ \E next \in {run, fail} : op' = [op EXCEPT !["worker"] = next]
        /\ pods' = created
     \/ /\ op' = [op EXCEPT !["worker"] = fail]
        /\ UNCHANGED pods
  /\ UNCHANGED <<rows, batch, terminating, podDeletions, chainVars, expired,
                 crashes>>

\* Mutant: the cleanup statement without "AND tx_hash IS NULL".
SoftDeletePendingBeforeAnyTx(old) ==
  /\ Ready("enforcer") /\ batch["enforcer"] = {} /\ old # {}
  /\ \A s \in old : Live(s) /\ rows[s].state = "PENDING"
  /\ rows' = [s \in Sessions |->
                IF s \in old THEN [rows[s] EXCEPT !.deleted = TRUE] ELSE rows[s]]
  /\ UNCHANGED <<op, batch, podVars, chainVars, expired, crashes>>

\* TimeoutEnforcer: the PENDING rows without a hash are soft-deleted in one
\* statement (those old enough: any subset), RUNNING rows are failed.
SoftDeletePendingBefore(old) ==
  /\ Ready("enforcer") /\ batch["enforcer"] = {} /\ old # {}
  /\ \A s \in old : Live(s) /\ rows[s].state = "PENDING" /\ rows[s].tx = NULL
  /\ rows' = [s \in Sessions |->
                IF s \in old THEN [rows[s] EXCEPT !.deleted = TRUE] ELSE rows[s]]
  /\ UNCHANGED <<op, batch, podVars, chainVars, expired, crashes>>

EnforcerList(stale) ==
  stale \subseteq FindStaleRunning /\ List("enforcer", stale)

EnforceRunningTimeout(s, tx) ==
  /\ Take("enforcer", s, tx)
  /\ op' = [op EXCEPT !["enforcer"] = Call(s, "FAILED", NULL, NULL, "idle", "idle")]
  /\ UNCHANGED <<rows, podVars, chainVars, expired, crashes>>

\* ExpirationWorker: the pod is deleted first (an error is only logged), then
\* the session is stopped with an empty hash.
TimeReachesExpiration(s) ==
  /\ s \notin expired /\ rows[s].state = "RUNNING"
  /\ expired' = expired \cup {s}
  /\ UNCHANGED <<rows, op, batch, podVars, chainVars, crashes>>

ExpirerList == List("expirer", FindExpiringSessions)

ExpireSession(s, tx) ==
  /\ Take("expirer", s, tx)
  /\ DeleteGPUSession(s) \/ UNCHANGED terminating
  /\ op' = [op EXCEPT !["expirer"] = Call(s, "STOPPED", EMPTY, NULL, "idle", "idle")]
  /\ UNCHANGED <<rows, pods, podDeletions, chainVars, expired, crashes>>

\* PodWatcher and K8sStateHandler.  Phases are level-driven (resync), so a
\* handler may run at any time while the pod is in the phase.  The handler's
\* own first read of the row is the guard here: it changes nothing else.
OnPodFailed(s) ==
  /\ Ready("watcher") /\ pods[s] = "failed"
  /\ Live(s) /\ rows[s].state \notin Terminal
  /\ op' = [op EXCEPT !["watcher"] = Call(s, "FAILED", NULL, NULL, "cleanup", "idle")]
  /\ UNCHANGED <<rows, batch, podVars, chainVars, expired, crashes>>

OnPodSucceeded(s) ==
  /\ Ready("watcher") /\ pods[s] = "succeeded"
  /\ Live(s) /\ rows[s].state \notin Terminal
  /\ op' = [op EXCEPT !["watcher"] = Call(s, "STOPPED", EMPTY, NULL, "idle", "idle")]
  /\ UNCHANGED <<rows, batch, podVars, chainVars, expired, crashes>>

\* A deletion is delivered once: a session that is not RUNNING then is not
\* looked at again.
OnPodDeleted(s) ==
  /\ Ready("watcher") /\ s \in podDeletions
  /\ podDeletions' = podDeletions \ {s}
  /\ op' = [op EXCEPT !["watcher"] =
              IF Live(s) /\ rows[s].state = "RUNNING"
                THEN Call(s, "STOPPED", EMPTY, NULL, "idle", "idle") ELSE NoOp]
  /\ UNCHANGED <<rows, batch, pods, terminating, chainVars, expired, crashes>>

\* EventProcessor.HandleRentalStopped.  No session with this rental_id: the
\* event counts as processed.
HandleRentalStopped(r) ==
  /\ Ready("listener") /\ r \in stopEvents
  /\ IF GetByRentalID(r) = {}
       THEN /\ stopEvents' = stopEvents \ {r}
            /\ UNCHANGED op
       ELSE /\ \E s \in GetByRentalID(r) :
                 op' = [op EXCEPT !["listener"] =
                          Call(s, "STOPPED", r, r, "cleanup", "idle")]
            /\ UNCHANGED stopEvents
  /\ UNCHANGED <<rows, batch, podVars, chain, expired, crashes>>

\* The hub dies and restarts: what goroutines hold in memory is lost, and so
\* are pod deletions that were not delivered (the restarted informer lists the
\* pods that exist).  An event that was being handled is read again.
Crash ==
  /\ crashes < MaxCrashes
  /\ crashes' = crashes + 1
  /\ op' = [p \in Procs |->
              IF p \in Requests /\ op[p].pc # "idle"
                THEN [NoOp EXCEPT !.pc = "done"] ELSE NoOp]
  /\ batch' = [p \in Batchers |-> {}]
  /\ podDeletions' = {}
  /\ UNCHANGED <<rows, pods, terminating, chainVars, expired>>

-----------------------------------------------------------------------------
Request(p) ==
  \/ \E s \in Sessions :
       \/ CreateCheckRunning(p, s) \/ CancelSession(p, s) \/ StopRead(p, s)
       \/ \E tx \in Txs : ConfirmRead(p, s, tx)
  \/ CreateCheckPending(p) \/ CreateInsert(p) \/ ConfirmGetByTxHash(p)
  \/ SetTxHash(p) \/ StopDeletePod(p)

Manager(p) == LoadAndValidate(p) \/ Update(p) \/ CleanUp(p)

Worker ==
  \/ WorkerList \/ Provision
  \/ \E s \in Sessions, tx \in Txs : ProcessSession(s, tx)

Enforcer ==
  \/ \E ss \in SUBSET Sessions : SoftDeletePendingBefore(ss) \/ EnforcerList(ss)
  \/ \E s \in Sessions, tx \in TxColumn : EnforceRunningTimeout(s, tx)

Expirer ==
  \/ ExpirerList
  \/ \E s \in Sessions, tx \in TxColumn : ExpireSession(s, tx)

Watcher == \E s \in Sessions : OnPodFailed(s) \/ OnPodSucceeded(s) \/ OnPodDeleted(s)

Listener == \E r \in Rentals : HandleRentalStopped(r)

Cluster ==
  \E s \in Sessions :
    \/ PodExits(s, "failed") \/ PodExits(s, "succeeded")
    \/ PodRemoved(s) \/ ReapPod(s)

Environment ==
  \/ \E r \in Rentals : MineStart(r) \/ StopOnChain(r)
  \/ \E s \in Sessions : TimeReachesExpiration(s)

Next ==
  \/ \E p \in Requests : Request(p)
  \/ \E p \in Procs : Manager(p)
  \/ Worker \/ Enforcer \/ Expirer \/ Watcher \/ Listener
  \/ Cluster \/ Environment \/ Crash

Spec == Init /\ [][Next]_vars

\* Every goroutine keeps running: handlers are not abandoned half-way and the
\* tickers of the workers keep firing.  Nothing is assumed of clients, the
\* chain or the cluster, and there are at most MaxCrashes crashes.
Fairness ==
  /\ \A p \in Procs : WF_vars(Manager(p))
  /\ \A p \in Requests :
       WF_vars(ConfirmGetByTxHash(p) \/ SetTxHash(p) \/ CreateCheckPending(p)
               \/ CreateInsert(p) \/ StopDeletePod(p))
  /\ WF_vars(Worker) /\ WF_vars(Expirer) /\ WF_vars(Listener)

FairSpec == Spec /\ Fairness

-----------------------------------------------------------------------------
(* What holds whatever the interleaving.                                   *)

\* A rental the contract knows to have started, by this session's parties.
Paid(s, r) == /\ r \in Rentals
              /\ chain[r] \in {"active", "stopped"}
              /\ s \in Renter[r]

\* TTL cleanup never takes a session whose renter has submitted a transaction:
\* a soft-deleted row has no hash, never ran, and has no pod, even when
\* ConfirmRental, a cancellation and the enforcer race.
CleanupSparesConfirmed ==
  \A s \in Sessions :
    rows[s].deleted => /\ rows[s].tx = NULL
                       /\ rows[s].state \in {"PENDING", "CANCELLED"}
                       /\ pods[s] = "none"

\* A session that runs or has run is one the contract was paid for, and the
\* settlement's inputs are there: rental_id and start_time always, end_time
\* exactly when it is over.  No stale copy written by Update can mix them.
RunsArePaid ==
  \A s \in Sessions :
    /\ rows[s].state \in {"RUNNING", "STOPPED"} => Paid(s, rows[s].rental)
    /\ rows[s].state \in States => (rows[s].ended <=> rows[s].state \in Terminal)

\* A pod only ever exists for a session whose payment was confirmed.
PodsArePaid ==
  \A s \in Sessions : pods[s] # "none" => \E r \in Rentals : Paid(s, r)

\* A session that was stopped (and will be billed) never runs again, and no
\* session ever goes back to PENDING, although Update does not check the state
\* it overwrites.
StoppedNeverRuns ==
  [][\A s \in Sessions :
       /\ rows[s].state = "STOPPED" => rows'[s].state # "RUNNING"
       /\ rows[s].state # "NONE" /\ rows'[s].state = "PENDING"
            => rows[s].state = "PENDING"]_vars

\* A session that runs never changes to another rental, although ConfirmRental
\* replaces its hash at any time, before, while and after the worker verifies it.
RentalIsForLife ==
  [][\A s \in Sessions :
       rows[s].rental # NULL => rows'[s].rental \in {rows[s].rental, NULL}]_vars

\* Whoever writes the rows, stale copies included, every step is one of the
\* life SessionLifecycle describes: a session is created once, runs at most once
\* and only on a mined rental of its own parties, is stopped only after that,
\* and never names another rental, not even after a FAILED or CANCELLED
\* written over its RUNNING row has cleared the column.
Lifecycle == INSTANCE SessionLifecycle
               WITH state  <- [s \in Sessions |-> rows[s].state],
                    ran    <- [s \in Sessions |-> rows[s].ran],
                    rental <- [s \in Sessions |-> rows[s].rental],
                    mined  <- {r \in Rentals : chain[r] \in {"active", "stopped"}}
ImplementsLifecycle == Lifecycle!Spec

\* No session stays PENDING for good with a transaction that has been mined or
\* has reverted: the confirmation worker's retries come to an end.
Decided(s) == /\ Live(s) /\ rows[s].state = "PENDING" /\ rows[s].tx \in Txs
              /\ chain[RentalOf[rows[s].tx]] # "none"
DecidedLeavesPending == \A s \in Sessions : []<>~Decided(s)

-----------------------------------------------------------------------------
(* The inductive invariant behind the first four properties.  Anchored is  *)
(* the stable fact everything hangs on: once a live row has a hash or has  *)
(* left PENDING, SoftDeletePendingBefore can never take it.                *)

Anchored(s) == Live(s) /\ ~(rows[s].state = "PENDING" /\ rows[s].tx = NULL)

RowOK(s, row) ==
  /\ row.state \in {"NONE", "PENDING"} => row.rental = NULL
  /\ row.state = "NONE" => row.tx = NULL /\ ~row.deleted
  /\ row.rental # NULL => Paid(s, row.rental)
  /\ row.state \in {"RUNNING", "STOPPED"} => row.rental # NULL
  /\ row.state \in Terminal => row.ended
  /\ row.state \notin Terminal => ~row.ended

DeletedOK(s) ==
  rows[s].deleted => /\ rows[s].tx = NULL
                     /\ rows[s].state \in {"PENDING", "CANCELLED"}

PodOK(s) == pods[s] # "none" => Anchored(s) /\ \E r \in Rentals : Paid(s, r)

BatchOK(p) == \A e \in batch[p] : Anchored(e[1])

\* Facts about an operation in flight: a FAILED or RUNNING transition concerns
\* an anchored session; a loaded copy is a row the session once had.
CallOK(o) ==
  /\ o.s \in Sessions
  /\ o.target \in {"RUNNING", "STOPPED", "FAILED", "CANCELLED"}
  /\ rows[o.s].state # "NONE"
  /\ o.target \in {"FAILED", "RUNNING"} => Anchored(o.s)
  /\ o.target = "RUNNING" => Paid(o.s, o.rental)

CopyOK(o) ==
  /\ RowOK(o.s, o.snap)
  /\ o.snap.state \in States
  /\ CanTransitionTo(o.snap, o.target)
  /\ (o.snap.tx # NULL \/ o.snap.state # "PENDING") => Anchored(o.s)
  /\ o.snap.state # "PENDING" => rows[o.s].state # "PENDING"

OpOK(p) ==
  /\ op[p].pc \in {"load", "write"} => CallOK(op[p])
  /\ op[p].pc = "write" => CopyOK(op[p])
  /\ op[p].pc = "provision" => /\ op[p].s \in Sessions /\ op[p].rental \in Rentals
                               /\ Anchored(op[p].s) /\ Paid(op[p].s, op[p].rental)
  /\ op[p].pc \in {"confirm", "setTx"} =>
       op[p].s \in Sessions /\ op[p].tx \in Txs /\ rows[op[p].s].state # "NONE"
  /\ op[p].pc \in {"stopPod", "cleanup"} =>
       op[p].s \in Sessions
  /\ op[p].pc \in {"quotaPending", "insert"} =>
       p \in Requests /\ op[p].s \in Sessions /\ rows[op[p].s].state = "NONE"

\* Only one CreateSession request inserts a given id.
FreshIds ==
  \A p, q \in Requests :
    (/\ p # q /\ op[p].s = op[q].s
     /\ op[p].pc \in {"quotaPending", "insert"})
       => op[q].pc \notin {"quotaPending", "insert"}

IInv ==
  /\ TypeOK
  /\ \A s \in Sessions : RowOK(s, rows[s]) /\ DeletedOK(s) /\ PodOK(s)
  /\ \A p \in Batchers : BatchOK(p)
  /\ \A p \in Procs : OpOK(p)
  /\ FreshIds
  /\ terminating \subseteq {s \in Sessions : pods[s] # "none"}

\* Behind StoppedNeverRuns: only the confirmation worker makes sessions RUNNING,
\* and while it is about to, nobody holds a RUNNING copy of the session.
OnlyWorkerRuns ==
  \A p \in Procs :
    (op[p].pc \in {"load", "write"} /\ op[p].target = "RUNNING") => p = "worker"

RunsFirst ==
  \A w, p \in Procs :
    (op[w].pc = "write" /\ op[w].target = "RUNNING") =>
      /\ rows[op[w].s].state \notin {"RUNNING", "STOPPED"}
      /\ (op[p].pc = "write" /\ op[p].s = op[w].s) => op[p].snap.state = "PENDING"

RunInv == IInv /\ OnlyWorkerRuns /\ RunsFirst

\* Behind RentalIsForLife and ImplementsLifecycle: a session's row and every
\* copy of it name the rental it ran with or none, and it has not run before
\* the worker writes RUNNING.
RanOnce ==
  /\ \A s \in Sessions :
       /\ rows[s].rental \in {NULL, rows[s].ran}
       /\ rows[s].state \in {"NONE", "PENDING"} => rows[s].ran = NULL
  /\ \A p \in Procs : op[p].pc = "write" =>
       /\ op[p].snap.rental \in {NULL, rows[op[p].s].ran}
       /\ op[p].target = "RUNNING" => rows[op[p].s].ran = NULL

RanInv == RunInv /\ RanOnce

-----------------------------------------------------------------------------
(* What the repository's comments say, and some interleaving breaks.       *)

\* domain/rental.go: terminal states have no outgoing transitions.
OnlyAllowedTransitions ==
  [][\A s \in Sessions :
       (rows[s].state \in States /\ rows'[s].state # rows[s].state)
         => rows'[s].state \in allowedTransitions[rows[s].state]]_vars

\* rental_repo.go, SetTxHash: an error if the hash is already set.
TxHashSetOnce ==
  [][\A s \in Sessions :
       (rows[s].tx # NULL /\ rows'[s].state = rows[s].state)
         => rows'[s].tx = rows[s].tx]_vars

\* confirmation_handler.go: a hash belongs to one session.
HashUsedOnce ==
  \A s, o \in Sessions :
    (s # o /\ rows[o].tx \in Txs) => rows[s].rental # RentalOf[rows[o].tx]

\* expiration_worker.go: the worker terminates sessions at expiration.
ExpiredAreStopped ==
  \A s \in Sessions :
    (s \in expired /\ rows[s].state = "RUNNING") ~> rows[s].state # "RUNNING"

\* domain/rental.go: RUNNING means the GPU is actively rented.  Once the
\* RentalStopped event has been dealt with, the session does not run.
RunningIsRented ==
  \A s \in Sessions :
    (Live(s) /\ rows[s].state = "RUNNING" /\ chain[rows[s].rental] = "stopped")
      => rows[s].rental \in stopEvents

\* rental_handler.go: no new session beside a RUNNING or PENDING one.
OneActivePerUser ==
  \A s, o \in Sessions :
    (/\ s # o /\ UserOf[s] = UserOf[o] /\ Live(s) /\ Live(o)
     /\ rows[s].state \in {"PENDING", "RUNNING"})
       => rows[o].state \in Terminal
=============================================================================
