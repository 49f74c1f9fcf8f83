# Worldland Hub: TLA+ models, model checking and proofs

The hub (`src/cmd/hub`) rents GPUs: a renter asks for a session, pays the rental
contract, submits the transaction hash, gets a pod with SSH access in the
provider's Kubernetes cluster, and is billed by the second until the session
stops.  One Go process runs the HTTP API and a dozen background goroutines; all
shared state is in PostgreSQL, in the clusters and on the chain.  Nothing locks
a session across those, so the correctness of the hub is a question of
interleavings, crashes and retries, which is what these models are about.

## 1. Inventory

| Component | State | Operations | Interacts with |
|---|---|---|---|
| Rental sessions (`domain/rental.go`, `sessions/manager.go`, `postgres/rental_repo.go`) | rows of `rental_sessions` | CreateSession, TransitionToRunning / Stopped / Failed / Cancelled, SetTxHash, SoftDeletePendingBefore, ExtendSession | every component below |
| HTTP handlers (`http/rental_handler.go`, `confirmation_handler.go`) | none | CreateSession (quota check), ConfirmRental, CancelSession, HandleStopRental, HandleExtendSession | manager, repository, executor |
| Confirmation worker (`sessions/confirmation_worker.go`, `blockchain/verifier.go`) | the batch of its tick | list, verify, provision, run or fail | chain, cluster, manager |
| Expiration worker, timeout enforcer | the batch of their tick | stop expired sessions; soft-delete or fail stale ones | cluster, manager |
| Pod watcher and K8s handler (`k8s/watcher.go`, `sessions/k8s_handler.go`) | informer cache | OnPodFailed, OnPodSucceeded, OnPodDeleted | manager, executor |
| Event listener, checkpoint, processor (`blockchain/`) | `event_checkpoint`, `processed_events`, `failed_events` | backfill, subscribe, deduplicate, handle, checkpoint | chain, manager |
| Executor and capacity (`k8s/job_executor.go`, `job.go`, `capacity.go`) | in-memory free GPU/CPU/memory per node, copies in `nodes` | create and delete a GPU session, allocate, release, rediscover, sync | cluster, database |
| Settlement (`settlement/`) | settlement columns | batch loop, calculator, transfer | repository, chain |
| Session extension (`sessions/manager.go`) | extension columns, `session_extensions` | ExtendSession | repository |
| Node registry (`services/node_service.go`, `k8s/node_sync.go`, `mtls/server.go`, `http/node_handler.go`, `cert_handler.go`) | rows of `nodes`, the map of connections | RegisterNode, UpdateNodePricing, AutoRegisterNode, ProcessHeartbeat, MarkNodeOffline, syncProviderNodes | clusters, nodes' SDK, capacity tracker |
| Providers and clusters (`http/provider_handler.go`, `k8s/external_cluster.go`, `multi_watcher.go`, `tenant.go`) | `providers`, registry of clients, watchers, tenant namespaces | RegisterK8sProvider, RegisterCluster, StartAll, EnsureTenant | table, clusters, node registry |
| Sign-in (`auth/`, `http/auth_handler.go`) | `nonces`, `sessions` | GetNonce, Login | providers |
| Balance (`http/balance_handler.go`, `settlement/calculator.go`) | none | GetBalance | repository, chain |
| Mining pool, matcher, monitoring, image validation | see PROJECT.json | | |

Hard behaviour: read-validate-write without a state guard (six writers of one
row); work lists read at the start of a tick and used later; side effects in the
cluster before or after the database write; events that arrive before the row
they refer to; a partial unique index that refuses some writes; crashes of the
hub between any two of these.  PROJECT.json lists the hazards with their lines.

What makes each component correct:

* sessions: a paid session is never lost; only paid sessions run, once and on one
  rental; a stopped session stays stopped; a decided transaction leads somewhere;
* listener: every relevant log is handled, ideally once, and the checkpoint never
  runs ahead of what was handled;
* capacity: nothing of the node is missing from the account, what is in use is
  needed by somebody, and rediscovery repairs the rest;
* settlement and extension: billed and paid at most once, settled in the end, no
  time given that is not counted, limits missed by no more than the requests
  under way, no time charged that has not passed;
* node registry: a row keeps its owner, a ready worker comes back, a gone one is
  withdrawn, the connection map names living connections;
* providers: no client without a provider, no stored cluster without a client
  after a restart, a nonce makes one session, and the sessions of a wallet belong
  to one provider.

## 2. Plan

1. `RentalSessions` with `SessionLifecycle` as its abstract specification, its
   TLC runs, and the proofs of its safety invariants (done).
2. `EventListener`: backfill, subscription, deduplication by transaction,
   checkpoint and dead letters, with crashes, its runs and its proofs (done).
3. `CapacityTracker`: reservation, release and rediscovery, with the rounding of
   the pods' requests and the asynchronous database sync, its runs and its proofs (done).
4. `Billing`: quota, extension limit, expiration, settlement and transfer with
   a crash between them, the balance's two queries, its runs and its proofs (done).
5. `NodeRegistry`: lost updates on `nodes` between heartbeats, disconnects, node
   sync, capacity tracker and requests, its runs and its proofs (done).
6. `ProviderClusters`: registration with compensation, sign-in with one-time
   nonces, tenant namespaces, restarts, its run and its proofs (done).
7. The indexer's tables (`rental_history`) on top of `EventListener`, and a
   composition of the listener with `RentalSessions` in which the checkpoint
   decides which stop events the hub sees (left).
8. The refinements: `SessionLifecycle` and `SettlementLedger`, for all writers
   (proved).

## 3. Modules

### `RentalSessions`

State: `rows` is the table (`Row` keeps the columns the properties tell apart:
state, tx_hash, rental_id with start_time, end_time as a flag, deleted_at as a
flag); `op[p]` is the program counter and the locals of request or goroutine
`p`; `batch[p]` the rows a worker listed at its tick; `pods`, `terminating`,
`podDeletions` the cluster as the executor and the informer see it; `chain`,
`stopEvents` the contract; `expired` the sessions past their end;
`crashes` a bounded counter.

One action per atomic step of the code:

| Code | Actions |
|---|---|
| `SessionManager.TransitionToX` | `Call`, `LoadAndValidate` (SELECT and check), `Update` (the whole copy is written back, the unique constraints may refuse it), then `Continue` to the caller's clean-up or `Return` |
| `RentalHandler.CreateSession` | `CreateCheckRunning`, `CreateCheckPending`, `CreateInsert` |
| `ConfirmRental` | `ConfirmRead`, `ConfirmGetByTxHash`, `SetTxHash` |
| `CancelSession`, `HandleStopRental` | `CancelSession`; `StopRead`, `StopDeletePod` |
| `ConfirmationWorker` | `WorkerList`, `ProcessSession` (with `VerifyTransaction`), `Provision` |
| `TimeoutEnforcer` | `SoftDeletePendingBefore`, `EnforcerList`, `EnforceRunningTimeout` |
| `ExpirationWorker` | `ExpirerList`, `ExpireSession` |
| `K8sStateHandler` | `OnPodFailed`, `OnPodSucceeded`, `OnPodDeleted` |
| `EventProcessor` | `HandleRentalStopped` |
| pods, contract, clock, process | `PodExits`, `PodRemoved`, `ReapPod`, `MineStart`, `StopOnChain`, `TimeReachesExpiration`, `Crash` |

Abstractions: ages of rows are nondeterministic (any row may be older than any
cutoff); the heartbeat, which only writes `updated_at`, is therefore invisible;
addresses are the relation `Renter`, the sessions whose user and provider are
those of the rental; two spellings of one hash (`0xAB..`, `0xab..`) are two
members of `Txs` with the same `RentalOf`, since the column is compared as text
and the chain as bytes.  Failing calls to the database are covered by refused
writes and by `Crash`; failing calls to the cluster are alternatives of the
action that makes them.

### `SessionLifecycle`

What the hub keeps of the lifecycle of `domain/rental.go` with all its writers.
The table of `allowedTransitions` itself it does not keep (section 5,
`OnlyAllowedTransitions`): a transition is checked on a copy, and the write puts
FAILED or CANCELLED over whatever the row has become, and STOPPED over those.  What
remains is what payment and settlement rely on: a session is created once, is
started at most once and only with a mined rental of its own parties, is STOPPED
only after it was started and with that rental, and no row, however often it is
overwritten, names another rental than the one it was started with.
`ImplementsLifecycle` is `RentalSessions => SessionLifecycle` with `state` and
`rental` mapped to the columns, `mined` to the rentals the contract has started and
`ran` to a history field of the row, set by the write of RUNNING: the column forgets
the rental when a copy from before the run is written over it, the session has run
all the same.

### `EventListener`

`EventListener.Start` of `blockchain/listener.go` with the tables of
`blockchain/checkpoint.go`, for any set of `Readers` that share a database (the
hub and the indexer).  `conn[p]` says where `subscribe` is, `lastBlock`,
`fromBlock` and `currentBlock` are the locals of `backfill`, `todo[p]` the logs
fetched or delivered and not yet taken, `pc[p]` and `cur[p]` the step of
`processLog`; `checkpoint`, `processed` and `failed` are the three tables.
`seen`, `handled` and `unmarked` are history for the properties.

| Code | Actions |
|---|---|
| `subscribe`, `backfill` | `StartBackfill`, `FetchBatch` (one FilterLogs call), `EndBackfill`, `Subscribe`, `Disconnect` |
| `processLog` | `IsProcessed`, `Handle`, `MarkProcessed`, `UpdateCheckpoint`, each with its failure |
| chain, process | `NewBlock`, `Crash` |

Abstractions: a log is a number in chain order with its block, its transaction
and whether its type is known; handlers succeed or fail; the chain does not
reorganise (the code does not handle it).  A dial that fails is a retry without
effect.  `Checkpointed` are the readers with a row in `event_checkpoint`: the
migrations create one for the hub only.

### `CapacityTracker`

The account of one node (`k8s/capacity.go`), its users in `k8s/job_executor.go`,
`k8s/job.go` and `k8s/expiration.go`, and the copy in `nodes.available_gpus`.
`avail` and `inUse` are the account, guarded by `t.mu` and so changed in one
step; `creating` is the one creation in progress, `releasing` the deletions
whose release is still to come, `listed` what the expiration monitor is about to
delete, `count` what `DiscoverCapacity` has counted and not yet stored, `sync`
the goroutines that copy to the database.

| Code | Actions |
|---|---|
| `CreateGPUSession` (executor and job manager) | `Create` (reserve), `CreateSecret`, `CreatePod`, `CreateUndo` |
| `DeleteGPUSession` | `Delete`, `DeleteRelease` |
| `checkCluster` | `CheckCluster` (list), `Reap` (release, then delete) |
| `DiscoverCapacity` | `Discover` (count without the lock), `StoreCapacity` |
| `syncSingleNodeToDB`, `syncCapacityToDB` | `SyncRead`, `SyncWrite` |
| cluster, process | `PodStarts`, `PodExits`, `PodRemoved`, `Crash` (with the rediscovery of `main`) |

Abstractions: nodes do not interact, so there is one, with one GPU model (any
other GPU type falls back to it); `RecoverAllocations` computes and drops its
result, so it is not an action; a copying goroutine that holds the account
replaced meanwhile writes what it held last, which is what a `SyncRead` before
`StoreCapacity` gives.  Quantities are the three the tracker reserves; storage is
not accounted.  A pending pod may or may not have a node.

The same session has four amounts.  `Asked` is what it asks for, and what
`DeleteGPUSession` releases; `Need` is that capped to the node, what the executor
reserves; `Requested` is what the pod requests (`job.go:96-107`: half a core and half
a GB less, so counted in halves), which the scheduler goes by; `Extracted` is what
`extractPodResources` makes of these requests (`capacity.go:549-562`: cores rounded
up, GB rounded down), what the expiration monitor releases and `DiscoverCapacity`
counts.  So a pod comes back, or is counted, with one GB less than was reserved, and
two pods that fit beside each other may count for more cores than there are.  The
node has what the scheduler may place on it.

`lost` is history for `NothingLeaks`: what was reserved and is not needed by a
session of `Held` any more, because a session reserved again, a pod's deletion was
answered by an error, its node could not be resolved (`job_executor.go:284-307`), the
monitor deleted it before it had a node, or the monitor's release was rounded.  A
count starts it again with the pods that were counted on their way out.

### `NodeRegistry`

The table `nodes` and its writers.  `rows` is the table: workers of clusters,
rows made over HTTP (`<<provider, gpu>>`) and rows `AutoRegisterNode` makes up
(`<<GHOST, name>>`).  Nobody locks it: every writer loads rows, edits a column in
memory and writes all columns back, so `writes[a]` holds the copies actor `a` has
still to write and `todo[a]` the workers it has listed and not looked at.
`conn` and `clients` are the mTLS server's handlers and its map from common name
to connection; `sync` is where the sync worker's round is; `known` are the workers in
the capacity tracker's map, which keeps those that left; `cluster` is the answer of
the Kubernetes API.

| Code | Actions |
|---|---|
| `handleConnection` with `AutoRegisterNode`, `ProcessHeartbeat`, `MarkNodeOffline` | `Accept`, `Heartbeat`, `Drop` (each stores or deletes its entry and loads), then `Save` per row |
| `RegisterNode`, `UpdateNodePricing`, `IssueCertificate` | actions of those names, then `Save` |
| `autoRegisterK8sGPUNodes` | `Discover` (list), `DiscoverWorker` (look up), `Save` |
| `syncAll`, `syncProviderNodes` | `SyncAll`, `SyncList`, `SyncWorker`, `SyncSweep`, `Save` |
| `CapacityTracker`: `DiscoverCapacity` with `syncCapacityToDB`, `syncSingleNodeToDB` | actions of those names (they load the rows), then `Save` |
| clusters, process | `ClusterChanges`, `Crash` |

Abstractions: of a row, owner, status, price and whether `api_endpoint` is set (the
sweep leaves such rows alone, `node_sync.go:218`); `Uuid` is the column `gpu_uuid`, by
which `RegisterNode` finds a row whoever made it; a price is the number of digits
before its point, which is what `NUMERIC(18, 8)` limits.  A row the sync worker
finds unchanged is not written; whether another column differs is
nondeterministic (`SyncEdits`).  The capacity columns are `CapacityTracker`'s;
here the tracker writes back the columns it has loaded.  The mock provider that
`RegisterNode` creates is in `ProviderClusters` (`ProviderOfNode`).

### `Billing`

What the rentals of one user cost (users only meet in the unique indexes).
`rows` has start, end,
extended_until, the two extension counters and the settlement; `creating`,
`extending` and `balance` are requests between two of their statements; `writing`
holds, for each request, event or worker that changes a session's state, the
changed copy it is about to write; `expiring` and `bills`, `paying` are what the expiration worker and
the settlement batch have listed; `paid` is the chain.

| Code | Actions |
|---|---|
| `CreateSession` | `QuotaCheck` and `QuotaRefuse` for each of the two queries, `CreateSession` |
| `ExtendSession`, `UpdateExtension` | `ExtendSession` (checks on a copy), `UpdateExtension` (guarded by the state only) |
| `TransitionToX` by the confirmation worker, requests, events, watcher and timeouts | `Transition` (load, validate, change the copy), `Update` (write it back) |
| `processExpiredSessions` | `FindExpiringSessions`, `ExpireSession`, `Update` |
| `ProcessBatch`, `settleSession` | `ProcessBatch`, `SettleSession`, `TransferSettlement` |
| `CalculatePendingSettlement` | `BalanceRead1`, `BalanceRead2`, `BalanceReply` |
| clock, process | `Tick`, `Crash` |

As in the code, a copy is written whatever has happened to the row since.  So a
failure loaded before a stop overwrites the stop, and a session that failed may
still be charged: it was listed while it was stopped, and `UpdateSettlement` has no
condition on the state; `StoppedIsSettled` therefore says "settled or failed".  And
a session that was cancelled while the worker was starting it runs after all,
next to one that was created meanwhile: the `+ 1` of `QuotaIsBounded`, which TLC
shows to be reached.

`balance` keeps, beside the sessions its two queries have found, what should be in
the sum: what is `Due`, running or stopped without a settlement, at the first query
and is neither failed nor settled at the second.  The second query itself returns
settled sessions too (section 5, `BalanceIsUnsettled`); with the condition its callers
expect, `BalanceMissesNothing` would hold as well.

Abstractions: any transition may be asked for at any time (why is the subject of
`RentalSessions`); FAILED stands for CANCELLED and for soft-deleted sessions; prices
are left out, so an amount is a number of minutes (a price that does not parse, which
`ProcessBatch` skips, cannot be in the NUMERIC column); the
clock has `TicksPerMinute` ticks so that rounding up is visible.  The manager
`main` builds has no balance validator, so `Deposit` is out of reach in the runs;
`contractTransferer` is nil there too, so `billing_quota` runs without transfers
and `billing_extend` with them, as the code intends.  The audit record of an
extension is never stored, because its `ON CONFLICT` names no unique index
(`migrations/008:32-33`), so the idempotency key has no effect and no state.

### `SettlementLedger`

What settlement promises: bills are for stopped sessions without a settlement, one
amount is recorded for a session and for good, and at most one transfer is made
for it, of that amount.  `ImplementsLedger` is `Billing => SettlementLedger` with
`stopped` mapped to the STOPPED rows, `billed` to the batch's list and `recorded` to
the settlement column.

### `ProviderClusters`

Providers and what the hub keeps about them.  `providers` is the table by
`wallet_address`, which is text: an address is hexadecimal, so a wallet has several
spellings (`Spellings`, `WalletOf`).  `RegisterK8sProvider` looks up and stores the one
it was sent, a login goes by the checksummed one (`Checksummed`, `siwe.go:80`).
`registry` is the map of cluster clients, `watchers` the pod watchers, `reqs` the
requests between two steps, `nonces` and `tokens` the tables of the sign-in,
`launches` the pod creations and `tenants` the parts of the tenant's namespace on
each cluster.

| Code | Actions |
|---|---|
| `RegisterK8sProvider` | `Lookup`, `RegisterCluster`, `UpdateProvider` or `CreateProvider`, `RemoveCluster` after a failure |
| `GetNonce`, `Login` with `Verify` and `ConsumeIfValid` | `GetNonce`, `NonceExpires`, `Login`, `LoginLookup`, `LoginInsert`, `CreateSession` |
| `CreateGPUSession` with `EnsureTenant` | `Launch`, `EnsureNamespace`, `EnsurePart` per object, `CreatePod` |
| `RegisterNode`, `AutoRegisterNode`: a provider for a node that has none | `ProviderOfNode` |
| start-up in `main`, `StartAll` | `Restart` |

Abstractions: a kubeconfig is the cluster it leads to, or one that does not
parse; there is one tenant; signatures are left out (a login signs for some
wallet or is refused after its nonce is consumed).

## 4. Runs

| Run | Result | Shows |
|---|---|---|
| `sessions_all_actors` | pass | one session, three requests (confirm, cancel, stop), all five goroutines, one crash: type invariant, `CleanupSparesConfirmed`, `RunsArePaid`, `PodsArePaid`, `StoppedNeverRuns` |
| `sessions_two_rentals` | pass | one session, two transactions with a rental each, two requests that confirm or cancel, all five goroutines: `RentalIsForLife`, and the table implements `SessionLifecycle` |
| `sessions_liveness` | pass | `DecidedLeavesPending` under fairness, with creations and cancellations |
| `listener_faults` | pass | hub and indexer, four logs in three blocks, two faults: type invariant, `HandledOncePerFault`, `RemembersOnlyHandled`, `BackfillHasNoGaps`, and `ListenerRecovers` under fairness |
| `capacity_reservations` | pass | two sessions whose reservations do not fit together, repeated creation and deletion, rediscovery, one failing call or crash: type invariant, `AccountBalances`, `NothingLeaks` |
| `capacity_converges` | pass | one session, repeated creation, two copies to the database at a time, two crashes or failing calls: `CapacityConverges` under fairness |
| `nodes_writers` | pass | two connections (a wallet's and a row's certificate) and a request of two providers, one fault: type invariant, `EntriesAreAlive`, `OwnersAreForever` |
| `nodes_recover` | pass | one worker, two connections of its provider, one request, the sync worker, the capacity tracker, one fault: `ReadyWorkersComeBack`, `GoneWorkersAreWithdrawn`, `HeartbeatsRevive` under fairness |
| `nodes_new_workers` | violation | a worker that joins never gets a row from the sync worker (`NewWorkersBecomeVisible`): its default price has 15 digits and the column ten |
| `billing_extend` | pass | one session, two extensions, a stop request, both workers and the batch with transfers, one fault: `ExtensionsAreBounded`, `ExtendedTimeIsCounted`, `TransfersMatchRecord`, `ChargedTimeHasPassed`, `ImplementsLedger`, and `StoppedIsSettled` under fairness |
| `billing_quota` | pass | four sessions of a user, one creating and one stopping request, the worker, the batch, a balance, one fault: type invariant, `QuotaIsBounded`, `BalanceMissesNothing` |
| `providers_clusters` | pass | two requests of one wallet with two spellings that register or sign in, providers of nodes, two pod creations, one fault, one restart: type invariant, `EntriesAreBacked`, `StoredConfigsLoad`, `ConfiguredAreServed`, `SessionsNameTheSigner`, `OneSessionPerNonce`, `TenantsAreComplete` |

The runs of a module use its MC module.  In all of them the bounds let everything
come to an end, or the system may stop where nobody sends a request, so deadlock
checking is off.

Bounds.  One session is enough for the races of six writers on one row: the rows
only interact through the unique constraints, which refuse writes, and
`sessions_liveness` has two sessions that submit each other's hashes.  Three requests
let two requests and a goroutine be half-way at once; two confirm requests with two
transactions replace each other's hash while the worker verifies one of them; one
crash reaches every point between two steps, and the restarted hub is again an
arbitrary state.

Listener: a batch of two blocks over three makes one full and one short batch;
two faults let a crash meet a second failure; four logs give two transactions in
one block and an unknown event.  Capacity: two GPUs, three cores and two GB; of
the two sessions of `capacity_reservations` one fails at the cores and one, when it
reserves again, at the memory, although their pods run beside each other, so that a
count of both exceeds the cores.  One of them is created and deleted twice, which is
enough for a release that comes late or twice.  The copies to the database do not
change the account and are in `capacity_converges` only (`Syncs`): two at a time are
enough to be written in the wrong order.

Nodes: two connections of one wallet are the late disconnect; a third only adds
another copy to write.  A request with a price that fits the column and one that
does not reach both outcomes of a write; one fault is one failing call or a crash
at any step.  Rows of workers and rows made over HTTP are in different runs: they
are written by the same steps, and the sync worker and the capacity tracker touch
the former only.  One goroutine of the tracker holds one old copy, and it starts
again at once.
Billing: two extenders with a limit of two extensions are the race at the limit
(the third extension happens); three ticks of half a minute make rounding and an
end that passes while a request is under way; four sessions reach the quota's
bound of two, one for the failed query and one for the late start.  The balance
is asked for in one of the two runs only (`Asking`): it changes no row.  Providers: one wallet, since
wallets only share what ids and nonces name, with two spellings, one of which is the
checksummed one; three ids, one for each request and the row; two requests of either kind; two pod creations, of which one finds the
namespace of the other.  Symmetry is used for sets whose members are alike and
only where no liveness property is checked.

Fairness (`FairSpec` of `RentalSessions`).  Weak fairness of every goroutine's own steps: a handler
that has started goes on (Go schedules every runnable goroutine), and the
tickers of the confirmation and expiration workers and the listener's loop fire
again and again.  Nothing is assumed of clients, pods, the chain or the clock,
and crashes are finitely many.  `DecidedLeavesPending` is not claimed where two
sessions submit the same rental: there the unique `rental_id` refuses the
second session for ever and its pod is created and deleted at every tick.

`EventListener`: each reader's goroutine keeps taking steps (the retry loop has
no limit, `MaxElapsedTime = 0`); faults are finitely many, the chain owes nothing.
`CapacityTracker`: the ticker of `StartPeriodicSync` fires again and again, and
started creations, releases and copies go on (the copies have a timeout of five
seconds); nothing is assumed of the cluster.
`NodeRegistry`: the ticker of the sync worker runs for as long as the hub, a
goroutine that has loaded rows writes them or a listing it has taken is worked
off, and a connected node sends heartbeats (its SDK, outside this repository,
does, `README.md:44`; the server itself sets no read deadline).  Nothing makes a node connect or a worker stay.  `Billing`: only the
settlement batch (`WF_vars(Batch)`): its ticker runs for as long as the hub;
faults are finitely many.

## 5. Further disagreements between code and comments

The modules also state, in their last section, what comments of the repository
promise and the code does not keep.  One is a run of section 4; TLC finds each
of the others on the instance given here (the constants not named are as in the
module's runs).

| Property | Instance | What happens |
|---|---|---|
| `OnlyAllowedTransitions` (`domain/rental.go:24`) | one session, one confirm and one cancel request, worker | `manager.go:286-287`: a cancellation that loaded the PENDING row overwrites RUNNING |
| `ExpiredAreStopped` (`expiration_worker.go:152`) | two sessions, no hash collision but the empty one, `FairSpec` | stopping with an empty hash collides with the first stopped session in the unique index; the second expired session is never stopped |
| `CheckpointCovers` (`listener.go:131`) | the hub, two logs, no fault | a block mined between backfill and subscription is lost for good |
| `AvailableIsTheRest` (`capacity.go:19,35`) | as `capacity_reservations` | rediscovery rounds each pod's half cores up: two pods that fit beside each other count for more cores than the node has, and available stays 0 |
| `IdleIsFree` (`job_executor.go:165`) | as `capacity_reservations` | the monitor releases a pod's rounded requests, one GB less than was reserved; a repeated reservation or a deletion that does not reach the release leaves more behind, until the next rediscovery |
| `TxHashSetOnce` (`rental_repo.go:372`) | one session, two confirm requests, two hashes | the second ConfirmRental replaces the hash |
| `HashUsedOnce` (`confirmation_handler.go:154`) | sessions {s1, s2} of one renter, s1 at the start, three create or confirm requests, worker and listener | a stopped session's start transaction is accepted again, since stopping overwrote `tx_hash` |
| `RunningIsRented` (`domain/rental.go:11`) | one session, one confirm request, worker and listener | RentalStopped handled before the session has its rental id is dropped, then the session becomes RUNNING |
| `OneActivePerUser` (`rental_handler.go:202`) | no session at the start, two create requests of one user | both pass the quota check |
| `HandledOnce` (`migrations/004:17`) | the hub, two logs, one fault | the process dies between handler and MarkProcessed |
| `SkipsOnlyDuplicates` (`listener.go:230`) | the hub, `OneTx`, no fault | the second event of a transaction is skipped |
| `SkipsOnlyDuplicates` (`checkpoint.go:20`) | hub and indexer, two logs, no fault | each skips what the other has handled: `processed_events` has no reader column |
| `HistoryIsIndexed` (`indexer/config.go:23`) | the indexer alone, not `Checkpointed`, `FairSpec` | no row of `event_checkpoint`, so backfill fails on every connection |
| `RentedIsInUse` (`capacity.go:31`) | as `capacity_reservations`, no fault | rediscovery counts running pods only: a pending pod's GPUs are offered again; also, the second deletion of a session releases another session's share |
| `SyncedIsCurrent` (`capacity.go:310`) | as `capacity_converges`, `Once` for both bounds, no fault | two copies to the database overlap, the older one is written last |
| `CreateIsIdempotent` (`job.go:131`) | as `capacity_converges`, no fault | the reservation comes before the check for the pod |
| `RestartResumes` (`job.go:136`) | as `capacity_converges`, one fault | the secret left by a restart makes the retry fail |
| `OnlyRequestsSetPrices` (`node_handler.go:124`) | as `nodes_writers`, prices {8, 9} | a heartbeat that loaded the row before writes the old price back |
| `OneRowPerGpu` (`node_service.go:79`) | as `nodes_writers`, two requests | two registrations of one GPU by two providers both find no row |
| `NoGhostsOfProviders` (`node_service.go:215`) | as `nodes_writers` | a failing `GetByWallet` counts as no provider and a ghost row is made |
| `OpenConnectionsAreKnown` (`server.go:152`) | as `nodes_writers` | the deferred Delete of an earlier connection (`server.go:125`) removes the entry of the later one |
| `GoneWorkersStayOffline` (`node_sync.go:213`) | as `nodes_recover`, one connection, no fault | the capacity tracker keeps the worker in its map, loads its row before the sweep and writes it after, round after round: the row of a worker that left is active again and again, with no connection and no request at all |
| `QuotaIsOne` (`rental_handler.go:202`) | as `billing_quota` | a pending session starts between the two queries, or a query fails |
| `ExtensionsAccumulate` (`migrations/008`, "tracks cumulative extensions") | as `billing_extend` | two extensions start from the same end (`manager.go:369-374`): both are counted, one is given |
| `ExtensionsWithinLimit` (`manager.go:50-51`, "the maximum number of times a session can be extended") | as `billing_extend` | the limit is checked on a copy and not by the UPDATE: each concurrent request may add one |
| `BalanceIsUnsettled` (`calculator.go:52`, `interfaces.go:58`, `balance_handler.go:28`) | as `billing_quota`, one session | `FindPendingSettlement` does not look at `settled_at` (`rental_repo.go:278-279`): settled sessions are in the balance |
| `BalanceCountsOnce` (`calculator.go:51-52`) | as `billing_quota`, one session | a session that stops between the two queries is in both sums |
| `SettledIsTheCost` (`migrations/006:19`) | as `billing_extend` | a late stop moves `end_time` after the settlement |
| `StopsAtExpiration` (`expiration_worker.go:29`) | as `billing_extend` | a session extended after it was listed is stopped all the same |
| `RegisteredAreWatched` (`multi_watcher.go:10`) | as `providers_clusters` | watchers are started at start-up only (`StartWatcher` has no other caller) |
| `PodsAreIsolated` (`tenant.go:46`) | as `providers_clusters` | `EnsureTenant` returns at once when another call has only just created the namespace, or has failed after it |
| `OneProviderPerWallet` (`migrations/001:4,7`) | as `providers_clusters` | a registration is stored as it was typed (`provider_handler.go:70`), a sign-in under the checksummed spelling (`siwe.go:80`), and the column tells them apart: the wallet has two providers, and its sessions belong to the one without the cluster |
| `RegistryFollowsTable` (`external_cluster.go:19-21`) | as `providers_clusters` | an `Update` that fails removes the client of the kubeconfig that is still stored |

Seen while modelling and without a property of their own: `manager.go:254` says
"Save settlement cost from blockchain event", but `Update` does not write
`settled_amount`; `Logout` answers without ending the session.

## 6. Proofs

`RentalSessions_proofs` proves, for any sets of sessions, users, rentals,
transactions and requests and any number of crashes (only
`ConstantsAssumption`, the types of the constants, is assumed):
`TypeCorrect`, `CleanupIsSafe`, `RunningIsPaid`, `PodsOnlyForPaid`,
`StoppedIsFinal`, `RentalKept` and `LifecycleImplemented`.

The properties are not inductive: they say nothing of the copies operations
hold.  `IInv` adds what those copies may contain.  Its heart is `Anchored(s)`, a
stable fact: once a live row has a hash or has left PENDING, no step
makes it soft-deletable again.  Batches and failing or running transitions only concern
anchored sessions (`BatchOK`, `CallOK`); a loaded copy is a row the session once
had, for which the transition is allowed, and if the copy shows an anchored row
the row still is (`CopyOK`); a session being provisioned is paid for.
`StoppedIsFinal` needs `RunInv` in addition: only the worker writes RUNNING, and while it
is about to, every other copy of the session is still PENDING (`RunsFirst`), so
no copy can have led to STOPPED.  The proof has one lemma per action or group
of actions and per conjunct.

`RentalKept` (`RentalIsForLife`) and `LifecycleImplemented`, the refinement of
`SessionLifecycle`, hold for every set of requests and goroutines, with no hypothesis
on who writes.  They rest on `RanInv`, which is `RunInv` and `RanOnce`: the row
and every copy somebody is about to write name the rental the session was started
with or none, and while the worker is about to write RUNNING the session has not
been started.  The second part is why it is started once: a RUNNING that is written
over a late FAILED or CANCELLED is the first, since `RunsFirst` makes all other
copies PENDING ones.  Then each step is one of the lifecycle (`LifeStep`): only
`CreateInsert` and `Update` change state or rental, the target of the transition
says which action of the lifecycle it is, and a write may take the rental away but
never puts another in its place, although `SetTxHash` may have replaced the hash
meanwhile.

`EventListener_proofs` proves `TypeCorrect`, `Deduplication`, `TablesAreEarned`
and `BackfillIsComplete` for any readers, logs, batch size and number of faults,
from `LogsAssumption` (logs are numbered in the order of their blocks, a
transaction is in one block).  `IInv` adds what `processLog` knows at each of
its steps (`StepOK`: before the handler every earlier handling was one whose
mark was lost, after it the log has been handled), that nothing in hand is ahead
of the chain (`FetchedOK`), and that a log handled more often than it was
forgotten is marked or about to be (`CountOK`).  That last conjunct is why
`IsProcessed` may skip: with one reader per log in hand, the mark of the
transaction is missing only if every handling so far was forgotten.

`CapacityTracker_proofs` proves `TypeCorrect`, `Balance` and `NoLeak` for any node,
sessions and number of repetitions and faults, with rediscovery at any time.
`AccountBalances` is inductive together with `RunningFits` and `CountFits`: what is
counted, now or earlier, fits the node by its requests, because the scheduler starts
only what fits.  By `SchedulableFits` the counted GPUs and GB then fit too, since GPUs
are not rounded and GB are rounded down; cores may exceed the node, which is why the
property has an equation for the former and an inequality for the latter.  The
rollback of a reservation cancels out; a clamp of `ReleaseResources` never loses a
unit because the account covers the node before.  A sum over sessions is the number
of its `Units`, pairs of a session and a number up to its amount, so that what the
proofs use of sums (type, monotonicity, one session more or less) are facts about
cardinalities of finite sets.  Assumed are the types of the constants, that the node
has cores and memory and that a session asks for at least one unit of each kind (zero
is replaced by a default before).

`NoLeak` (`NothingLeaks`) has no hypothesis on what happens.  `LeakInv` adds only that
a terminating pod exists, so that a pod's end takes nobody out of `Held`.  Each step
then changes `inUse`, `Held` and `lost` together: a reservation adds the session to
`Held`, or to `lost` if it was there (`LeakCreate`); a step that takes a session out of
`Held` releases its share or adds what it does not release (`HeldReleased`,
`HeldLost`); a count is the sum over pods that are in `Held` or in the new `lost`
(`LeakCounted`).

`NodeRegistry_proofs` proves `TypeCorrect`, `Alive` (`EntriesAreAlive`) and
`Owned` (`OwnersAreForever`) for any providers, workers, connections, requests
and faults.  `EntriesAreAlive` and the types are inductive together; the owner
of a row, also after the capacity tracker's copies, needs only that a copy to be inserted meets no row (`Accepted`) and that
`Stored` keeps the owner of a row that exists.

`Billing_proofs` proves `TypeCorrect`, `Quota`, `Limited`, `Counted`,
`Transferred`, `Balanced`, `Final`, `ChargedOnlyForThePast` and `LedgerKept`.
`QuotaInv` counts: pending
sessions and requests past the second query are together at most the requests,
since that query found nothing pending, and running and pending sessions with all
requests past a query are at most twice that; a failed query adds one
(`unchecked`), and the session the worker is about to start (`ToRun`) is counted
whether or not its row is still pending.  `LimitInv` adds the
extenders under way to the counter, `TimeInv` says that an update under way is no
further from now than the time already counted plus its own.  `BillsInv` says that
a listed bill is for an unsettled session, one bill per session, and that the bill
being paid is recorded and not yet transferred: this is why a batch cannot pay
twice, since the batch is the only one that settles.  `BalanceInv` says that what
is due and the first query missed has stopped or failed and does not run again, so
that the second query finds it unless it is not due any more.  These need
`StartInv`: only the worker starts sessions, and while one is pending or about to
be started nothing it gets from running is there (`Unstarted`), neither in the row
nor in a copy nor in a bill.

`ChargedOnlyForThePast` (`ChargedTimeHasPassed`) rests on `ChargeInv`.  A late stop
moves `end_time` after a settlement, so the amount cannot be compared with the
row's end; it is compared with the clock.  The start times in the row and in all
copies agree, but for those loaded before the session ran, none is in the future,
and each amount billed or recorded has passed since each of them.

`LedgerKept` shows `Billing` to implement `SettlementLedger`, for every value of the
constants: a transition is a step of the ledger for one session, the batch's list
is `Bill`, its two statements are `Record` and `Transfer`, failures and crashes are
`LoseBills`, and all else stutters.  `BillsInv` says that `Record` and `Transfer` meet
their guards.  `Final` (`SettlementsAreFinal`), which the ledger implies, is also
proved by itself.

`ProviderClusters_proofs` proves `TypeCorrect`, `Backed`, `Loadable`, `Served`,
`Signed`, `NonceOnce` and `Complete` for any wallets and spellings, ids, kubeconfigs,
nonces and requests; of spellings it is assumed that the checksummed one of a wallet
names that wallet.  `RequestsInv` is what a request knows at each step (in particular,
whether its id is that of a row, and that a login goes by a checksummed spelling), `IdsInv` that an id belongs to one provider or
one request, `ServingInv` that without a failed call only clients of ids without a
row are removed, `NoncesInv` that a consumed nonce is in one request or one
session, `TenantsInv` that one call at a time completes a namespace part by part.

The invariants of these proofs are defined in the models and were checked by TLC
before they were proved.  Every proof assumes only the named assumption on the
constants of its module, which TLC evaluates in the module's runs.

Left to TLC: the liveness properties, `DecidedLeavesPending`, `ListenerRecovers`,
`CapacityConverges`, `ReadyWorkersComeBack`, `GoneWorkersAreWithdrawn`,
`HeartbeatsRevive` and `StoppedIsSettled`, whose fairness and ENABLED are out of
the prover's reach.  Every invariant and every action property of the passing
runs, and both refinements, are theorems.

## 7. Not modelled

PROJECT.json lists every component with its status.  Left out:

* code without a caller in the program: `CleanupExpired`, `DeleteExpired`,
  `DeleteTenant`, `UpdateTenantQuota`, `StopWatcher`, `StopAll`, the commands to
  nodes, `AllocateRental` and `ReleaseRental` of the mining pool.  Without the
  latter two the pool's counters only mirror which nodes exist, under one mutex,
  and deploying a mining pod is one idempotent call;
* stateless code: the matcher (a filter and a ranking behind one query), image
  name validation, request parsing and rendering, ABI decoding and the contract
  bindings, the history and mining handlers, reading the environment;
* I/O of which the models use the result: Kubernetes manifests and client
  construction, certificates and signatures, join tokens, Prometheus queries and
  metrics;
* the indexer's own tables, which `EventListener` treats as the effect of a
  handler, and reorganisations of the chain, which the code does not handle.
