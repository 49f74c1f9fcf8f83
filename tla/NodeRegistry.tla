---------------------------- MODULE NodeRegistry ----------------------------
(***************************************************************************)
(* The table nodes and everything that writes to it: the mTLS server's     *)
(* connection handlers (NodeService), the worker that follows the          *)
(* Kubernetes clusters (NodeSyncWorker), the capacity tracker, which       *)
(* stores its counts (CapacityTracker), and the requests of providers      *)
(* (NodeHandler, CertHandler, the discovery of RegisterK8sProvider).  None *)
(* of them takes a lock.  Each loads rows, edits them in memory and writes *)
(* every column back, so any two may overwrite each other.                 *)
(*                                                                         *)
(* A row is what the properties tell apart: its owner, its status, its     *)
(* price and whether it has an API endpoint (for its capacity see the      *)
(* module CapacityTracker).  A price is the number of digits before its    *)
(* decimal point, which is what the column limits.                         *)
(***************************************************************************)
EXTENDS Naturals

CONSTANTS
  Providers,  \* providers with a row in the table providers; also their wallets
  Workers,    \* Kubernetes worker nodes; also the ids of their rows
  ClusterOf,  \* [Workers -> Providers]: whose registered cluster has the worker
  Gpus,       \* GPU UUIDs that providers register over HTTP, theirs or not
  Conns,      \* handlers of mTLS connections (a bound)
  Cns,        \* common names on certificates: wallets and ids of rows
  Requests,   \* HTTP requests at a time (a bound)
  Trackers,   \* goroutines of the capacity tracker at a time (a bound)
  Prices,     \* prices that providers ask for
  MaxFaults,  \* bound on crashes and on failing calls to the database or a cluster
  NONE        \* no row, no owner, no connection

GHOST == "ghost"  \* a provider that AutoRegisterNode invented
SYNC == "sync"    \* the goroutine of the NodeSyncWorker

Clustered == {ClusterOf[w] : w \in Workers}

\* UNIQUE (provider_id, gpu_uuid) identifies a row made over HTTP.
HttpRows == Providers \X Gpus
Ghosts == {GHOST} \X Cns
RowIds == Workers \cup HttpRows \cup Ghosts
Owners == Providers \cup {GHOST}
Actors == Conns \cup Requests \cup Trackers \cup {SYNC}

\* The column gpu_uuid: the sync worker, discovery and AutoRegisterNode make
\* one up from the name of the row.
Uuid(i) == IF i \in HttpRows THEN i[2] ELSE i

ASSUME RegistryAssumption ==
  /\ ClusterOf \in [Workers -> Providers]
  /\ Cns \subseteq Providers \cup Workers \cup HttpRows
  /\ Prices \subseteq Nat
  /\ MaxFaults \in Nat
  /\ NONE \notin Conns /\ NONE \notin Owners /\ NONE \notin Cns
  /\ GHOST \notin Providers
  /\ SYNC \notin Conns \cup Requests \cup Trackers
  /\ Conns \cap Requests = {} /\ Trackers \cap (Conns \cup Requests) = {}
  /\ Workers \cap HttpRows = {} /\ Workers \cap Ghosts = {} /\ HttpRows \cap Ghosts = {}
  /\ Workers \cap Providers = {} /\ Providers \cap HttpRows = {}

\* "1000000000", which discovery and auto-registration use
K8sDefault == 10
\* "277777777777777", which the sync worker uses
SyncDefault == 15
\* NUMERIC(18, 8) has ten digits before the decimal point
Storable(price) == price <= 18 - 8

VARIABLES
  cluster,  \* what the Kubernetes API says of each worker
  rows,     \* the table nodes
  writes,   \* per actor, the edited rows it has still to write
  todo,     \* per actor, the listed workers it has still to look up
  conn,     \* per connection handler, the peer's common name while it reads
  clients,  \* the server's map from common name to connection
  sync,     \* the sync worker: clusters left in this round, and the current one
  known,    \* workers in the capacity tracker's map
  faults

vars == <<cluster, rows, writes, todo, conn, clients, sync, known, faults>>

AnyPrice == Prices \cup {K8sDefault, SyncDefault}
Row == [owner: Owners, status: {"active", "offline"}, price: AnyPrice,
        endpoint: {"unset", "set"}]
NoRow == [owner |-> NONE, status |-> NONE, price |-> 0, endpoint |-> NONE]
Writes == [id: RowIds, new: BOOLEAN, row: Row]

TableTypeOK ==
  /\ rows \in [RowIds -> Row \cup {NoRow}]
  /\ writes \in [Actors -> SUBSET Writes]

WorkersTypeOK ==
  /\ cluster \in [Workers -> {"ready", "notReady", "absent"}]
  /\ todo \in [Actors -> SUBSET Workers]
  /\ sync \in [left: SUBSET Clustered, p: Clustered \cup {NONE}, seen: SUBSET Workers]
  /\ known \subseteq Workers

ServerTypeOK ==
  /\ conn \in [Conns -> Cns \cup {NONE}]
  /\ clients \in [Cns -> Conns \cup {NONE}]

BoundsTypeOK == faults \in 0..MaxFaults

TypeOK == TableTypeOK /\ WorkersTypeOK /\ ServerTypeOK /\ BoundsTypeOK

SyncIdle == [left |-> {}, p |-> NONE, seen |-> {}]

Init ==
  /\ cluster \in [Workers -> {"ready", "absent"}]
  /\ rows = [i \in RowIds |-> NoRow]
  /\ writes = [a \in Actors |-> {}]
  /\ todo = [a \in Actors |-> {}]
  /\ conn = [c \in Conns |-> NONE]
  /\ clients = [n \in Cns |-> NONE]
  /\ sync = SyncIdle
  /\ known = {}
  /\ faults = 0

Fault == faults < MaxFaults /\ faults' = faults + 1

-----------------------------------------------------------------------------
(* The repository.                                                         *)

Exists(i) == rows[i] # NoRow

\* GetByProvider
RowsOf(p) == {i \in RowIds : Exists(i) /\ rows[i].owner = p}

NewRow(i, p, price) ==
  [id |-> i, new |-> TRUE,
   row |-> [owner |-> p, status |-> "active", price |-> price,
            endpoint |-> IF i \in HttpRows THEN "set" ELSE "unset"]]
Edited(i, row) == [id |-> i, new |-> FALSE, row |-> row]

\* Each row of I with another status
WithStatus(I, s) == {Edited(i, [rows[i] EXCEPT !.status = s]) : i \in I}

\* INSERT fails on a duplicate id or (provider_id, gpu_uuid); INSERT and
\* UPDATE fail when the price does not fit.
Accepted(x) ==
  /\ Storable(x.row.price)
  /\ x.new <=> ~Exists(x.id)
  /\ x.new => \A i \in RowsOf(x.row.owner) : Uuid(i) # Uuid(x.id)

\* Mutant: UPDATE writes provider_id too.
StoredWhole(x) == x.row

\* UPDATE writes every column but provider_id.
Stored(x) == IF x.new THEN x.row ELSE [x.row EXCEPT !.owner = rows[x.id].owner]

\* One Create or Update.  No caller tries a failed one again.
Write(a, x) ==
  /\ x \in writes[a]
  /\ writes' = [writes EXCEPT ![a] = @ \ {x}]
  /\ \/ /\ rows' = IF Accepted(x) THEN [rows EXCEPT ![x.id] = Stored(x)] ELSE rows
        /\ UNCHANGED faults
     \/ Fault /\ UNCHANGED rows
  /\ UNCHANGED <<cluster, todo, conn, clients, sync, known>>

Save(a) == \E x \in writes[a] : Write(a, x)

\* Loading rows and editing them in memory; W is what will be written.
Load(a, W) ==
  /\ writes[a] = {}
  /\ writes' = [writes EXCEPT ![a] = W]
  /\ UNCHANGED <<cluster, rows>>

-----------------------------------------------------------------------------
(* mTLS connections.  The common name of a bootstrap certificate is a      *)
(* wallet, that of a node certificate the id of a row.  A handler runs     *)
(* one callback at a time: Load waits until the previous one has written   *)
(* all its rows.                                                           *)

\* AutoRegisterNode without a provider of that wallet: the row is named
\* after the common name, and its provider as well if there is none.
RegisterGhost(n) ==
  LET i == <<GHOST, n>>
  IN  IF Exists(i) THEN WithStatus({i}, "active")
      ELSE {NewRow(i, IF n \in Providers THEN n ELSE GHOST, K8sDefault)}

\* AutoRegisterNode: what it writes, with and without a failing query.
\* When GetByWallet fails it goes on as if there were no provider.
AutoRegister(n) == IF n \in Providers THEN WithStatus(RowsOf(n), "active")
                   ELSE RegisterGhost(n)
AutoRegisterFailing(n) == {{}, RegisterGhost(n)}

\* handleConnection: Store, then OnNodeConnected
Accept(c, n) ==
  /\ conn[c] = NONE
  /\ conn' = [conn EXCEPT ![c] = n]
  /\ clients' = [clients EXCEPT ![n] = c]
  /\ \/ Load(c, AutoRegister(n)) /\ UNCHANGED faults
     \/ Fault /\ \E W \in AutoRegisterFailing(n) : Load(c, W)
  /\ UNCHANGED <<todo, sync, known>>

\* Mutant: a heartbeat refreshes updated_at only.
BeatsKeepingStatus(n) ==
  IF n \in Providers THEN {Edited(i, rows[i]) : i \in RowsOf(n)} ELSE {}

\* ProcessHeartbeat: nothing for a common name that is not a wallet
Beats(n) == IF n \in Providers THEN WithStatus(RowsOf(n), "active") ELSE {}

Heartbeat(c) ==
  /\ conn[c] # NONE
  /\ \/ Load(c, Beats(conn[c])) /\ UNCHANGED faults
     \/ Fault /\ Load(c, {})
  /\ UNCHANGED <<todo, conn, clients, sync, known>>

\* Mutant: a status the table does not know.
OfflineMisnamed(n) == WithStatus(IF n \in Providers THEN RowsOf(n) ELSE {}, "inactive")

\* MarkNodeOffline: the row with that id, else the rows of that wallet
Offline(n) ==
  LET I == IF n \in Providers THEN RowsOf(n) ELSE {i \in {n} : Exists(i)}
  IN  WithStatus(I, "offline")

\* Mutant: the entry stays in the map.
DropKeepingEntry(c) ==
  /\ conn[c] # NONE
  /\ conn' = [conn EXCEPT ![c] = NONE]
  /\ Load(c, Offline(conn[c]))
  /\ UNCHANGED <<todo, clients, sync, known, faults>>

\* The deferred function: Delete by name, then OnNodeDisconnected
Drop(c) ==
  /\ conn[c] # NONE
  /\ conn' = [conn EXCEPT ![c] = NONE]
  /\ clients' = [clients EXCEPT ![conn[c]] = NONE]
  /\ \/ Load(c, Offline(conn[c])) /\ UNCHANGED faults
     \/ Fault /\ Load(c, {})
  /\ UNCHANGED <<todo, sync, known>>

-----------------------------------------------------------------------------
(* Requests of providers.                                                  *)

Idle(a) == writes[a] = {} /\ todo[a] = {}

\* RegisterNode: reactivate any row of that GPU, whoever made it, or create
\* one.  A failing lookup counts as no row.
RegisterNode(r, p, g, price) ==
  LET same == {i \in RowIds : Exists(i) /\ Uuid(i) = g} \* GetByGPUUUID
      new == {NewRow(<<p, g>>, p, price)}
  IN  /\ Idle(r)
      /\ \/ /\ \/ \E i \in same :
                    Load(r, {Edited(i, [rows[i] EXCEPT !.owner = p, !.price = price,
                                                       !.status = "active",
                                                       !.endpoint = "set"])})
               \/ same = {} /\ Load(r, new)
            /\ UNCHANGED faults
         \/ Fault /\ Load(r, new)
      /\ UNCHANGED <<todo, conn, clients, sync, known>>

\* The guard of UpdateNodePricing and IssueCertificate
Owns(p, i) == Exists(i) /\ rows[i].owner = p

UpdateNodePricing(r, p, i, price) ==
  /\ Idle(r) /\ Owns(p, i)
  /\ Load(r, {Edited(i, [rows[i] EXCEPT !.price = price])})
  /\ UNCHANGED <<todo, conn, clients, sync, known, faults>>

IssueCertificate(r, p, i) ==
  /\ Idle(r) /\ Owns(p, i)
  /\ Load(r, WithStatus({i}, "active"))
  /\ UNCHANGED <<todo, conn, clients, sync, known, faults>>

Listed(p, states) == {w \in Workers : ClusterOf[w] = p /\ cluster[w] \in states}

\* autoRegisterK8sGPUNodes lists the cluster ...
Discover(r, p) ==
  /\ Idle(r)
  /\ todo' = [todo EXCEPT ![r] = Listed(p, {"ready"})]
  /\ UNCHANGED <<cluster, rows, writes, conn, clients, sync, known, faults>>

\* ... and registers each worker.
DiscoverWorker(r, w) ==
  /\ w \in todo[r]
  /\ todo' = [todo EXCEPT ![r] = @ \ {w}]
  /\ Load(r, IF Exists(w) THEN WithStatus({w}, "active")
             ELSE {NewRow(w, ClusterOf[w], K8sDefault)})
  /\ UNCHANGED <<conn, clients, sync, known, faults>>

-----------------------------------------------------------------------------
(* The node sync worker.                                                   *)

\* A round: syncAll takes the ids of the registered clusters.
SyncAll ==
  /\ sync.p = NONE /\ sync.left = {} /\ Idle(SYNC)
  /\ sync' = [sync EXCEPT !.left = Clustered]
  /\ UNCHANGED <<cluster, rows, writes, todo, conn, clients, known, faults>>

\* syncProviderNodes lists the nodes, or gives up on the cluster.
SyncList(p) ==
  /\ sync.p = NONE /\ p \in sync.left /\ Idle(SYNC)
  /\ \/ /\ sync' = [left |-> sync.left \ {p}, p |-> p,
                    seen |-> Listed(p, {"ready", "notReady"})]
        /\ todo' = [todo EXCEPT ![SYNC] = Listed(p, {"ready"})]
        /\ UNCHANGED faults
     \/ Fault /\ sync' = [sync EXCEPT !.left = @ \ {p}] /\ UNCHANGED todo
  /\ UNCHANGED <<cluster, rows, writes, conn, clients, known>>

\* Mutant: a different status alone is not a change.
SyncEditsIgnoringStatus(w) == {{}, WithStatus({w}, "active")}

\* What it may write for a row it found: nothing if no column differs
SyncEdits(w) ==
  {WithStatus({w}, "active")} \cup (IF rows[w].status = "active" THEN {{}} ELSE {})

SyncWorker(w) ==
  /\ w \in todo[SYNC]
  /\ todo' = [todo EXCEPT ![SYNC] = @ \ {w}]
  /\ IF Exists(w) THEN \E W \in SyncEdits(w) : Load(SYNC, W)
     ELSE Load(SYNC, {NewRow(w, ClusterOf[w], SyncDefault)})
  /\ UNCHANGED <<conn, clients, sync, known, faults>>

\* Mutant: the test of seenNodes is inverted.
VanishedInverted == {w \in RowsOf(sync.p) \cap Workers :
                       /\ rows[w].endpoint = "unset" /\ w \in sync.seen
                       /\ rows[w].status = "active"}

\* The rows without an endpoint of workers that the listing did not have
Vanished == {w \in RowsOf(sync.p) \cap Workers :
               /\ rows[w].endpoint = "unset" /\ w \notin sync.seen
               /\ rows[w].status = "active"}

SyncSweep ==
  /\ sync.p # NONE /\ Idle(SYNC)
  /\ sync' = [SyncIdle EXCEPT !.left = sync.left]
  /\ \/ Load(SYNC, WithStatus(Vanished, "offline")) /\ UNCHANGED faults
     \/ Fault /\ Load(SYNC, {})
  /\ UNCHANGED <<todo, conn, clients, known>>

-----------------------------------------------------------------------------
(* The capacity tracker writes its counts into rows it has just loaded,    *)
(* and with them the status, the price and the endpoint they had then.     *)

Copies(I) == {Edited(i, rows[i]) : i \in I}

\* DiscoverCapacity puts the ready workers into the map, which keeps those
\* that left, and syncCapacityToDB stores every row that is in it.
DiscoverCapacity(k, p) ==
  /\ Idle(k)
  /\ known' = known \cup Listed(p, {"ready"})
  /\ \/ Load(k, Copies(RowsOf(p) \cap known')) /\ UNCHANGED faults
     \/ Fault /\ Load(k, {})
  /\ UNCHANGED <<todo, conn, clients, sync>>

\* syncSingleNodeToDB, started by a reservation or a release on worker w
SyncSingleNodeToDB(k, w) ==
  /\ Idle(k) /\ w \in known
  /\ Load(k, Copies(RowsOf(ClusterOf[w]) \cap {w}))
  /\ UNCHANGED <<todo, conn, clients, sync, known, faults>>

-----------------------------------------------------------------------------
(* The clusters and the hub process.                                       *)

\* Workers join, fail and leave.
ClusterChanges(w, state) ==
  /\ cluster' = [cluster EXCEPT ![w] = state]
  /\ UNCHANGED <<rows, writes, todo, conn, clients, sync, known, faults>>

\* The hub stops anywhere; the table and the clusters stay.
Crash ==
  /\ Fault
  /\ writes' = [a \in Actors |-> {}]
  /\ todo' = [a \in Actors |-> {}]
  /\ conn' = [c \in Conns |-> NONE]
  /\ clients' = [n \in Cns |-> NONE]
  /\ sync' = SyncIdle
  /\ known' = {}
  /\ UNCHANGED <<cluster, rows>>

Request(r) ==
  \/ \E p \in Providers :
       \/ \E price \in Prices :
            \/ \E g \in Gpus : RegisterNode(r, p, g, price)
            \/ \E i \in RowIds : UpdateNodePricing(r, p, i, price)
       \/ \E i \in RowIds : IssueCertificate(r, p, i)
  \/ \E p \in Clustered : Discover(r, p)

SyncStep ==
  \/ SyncAll \/ SyncSweep
  \/ \E p \in Clustered : SyncList(p)
  \/ \E w \in Workers : SyncWorker(w)

Tracker(k) ==
  \/ \E p \in Clustered : DiscoverCapacity(k, p)
  \/ \E w \in Workers : SyncSingleNodeToDB(k, w)

Next ==
  \/ \E a \in Actors : Save(a)
  \/ \E c \in Conns : Heartbeat(c) \/ Drop(c) \/ \E n \in Cns : Accept(c, n)
  \/ \E r \in Requests : Request(r) \/ \E w \in Workers : DiscoverWorker(r, w)
  \/ SyncStep
  \/ \E k \in Trackers : Tracker(k)
  \/ \E w \in Workers, s \in {"ready", "notReady", "absent"} : ClusterChanges(w, s)
  \/ Crash

Spec == Init /\ [][Next]_vars

(***************************************************************************)
(* Fairness.  The ticker of the sync worker runs for as long as the hub    *)
(* does; a goroutine that has loaded rows writes them; the SDK sends       *)
(* heartbeats while it is connected.  Nothing makes a node connect or a    *)
(* provider send a request.                                                *)
(***************************************************************************)
Fairness ==
  /\ WF_vars(SyncStep)
  /\ \A a \in Actors : WF_vars(Save(a))
  /\ \A c \in Conns : WF_vars(Heartbeat(c))
  /\ \A r \in Requests : WF_vars(\E w \in Workers : DiscoverWorker(r, w))

FairSpec == Spec /\ Fairness

-----------------------------------------------------------------------------
(* What holds.                                                             *)

\* SendCommand looks a connection up in clients: an entry always belongs to
\* a handler with that common name, which still reads.
EntriesAreAlive ==
  \A n \in Cns : clients[n] # NONE => conn[clients[n]] = n

\* A row never changes hands and never goes away, whoever writes it and
\* however old the copy is, although RegisterNode assigns ProviderID.
OwnersAreForever ==
  [][\A i \in RowIds : Exists(i) => rows'[i].owner = rows[i].owner]_vars

\* A registered worker that stays ready is offered again and again, whatever
\* disconnects and stale copies do in between: the sync worker repairs it.
ReadyWorkersComeBack ==
  \A w \in Workers :
    <>[](Exists(w) /\ cluster[w] = "ready") => []<>(rows[w].status = "active")

\* A worker that left its cluster is withdrawn again and again, whatever
\* heartbeats, requests and the capacity tracker's old copies write in between:
\* each of the sync worker's rounds finds its row offline or takes it offline.
GoneWorkersAreWithdrawn ==
  \A w \in Workers :
    <>[](Exists(w) /\ rows[w].endpoint = "unset" /\ cluster[w] = "absent")
      => []<>(rows[w].status = "offline")

\* While a provider's connection stays open, heartbeats bring each of its
\* rows back, even after the handler of an earlier connection of the same
\* wallet has marked them offline late.
HeartbeatsRevive ==
  \A i \in RowIds, c \in Conns :
    <>[](Exists(i) /\ conn[c] = rows[i].owner)
      => []<>(rows[i].status = "active")

-----------------------------------------------------------------------------
(* What the repository's comments say, and some behaviour breaks.          *)

\* node_sync.go: "This ensures newly joined workers are automatically
\* visible."  The default price does not fit the column.
NewWorkersBecomeVisible ==
  \A w \in Workers : <>[](cluster[w] = "ready") => <>Exists(w)

\* node_sync.go: "Mark nodes that disappeared from K8s as offline".  The
\* capacity tracker loads the row before and writes it after, in every round,
\* even when there is no connection and no request.
Quiet ==
  /\ \A c \in Conns : conn[c] = NONE /\ Idle(c)
  /\ \A r \in Requests : Idle(r)
GoneWorkersStayOffline ==
  \A w \in Workers :
    <>[](Exists(w) /\ cluster[w] = "absent" /\ Quiet)
      => <>[](rows[w].status = "offline")

\* node_handler.go: "Price updated. New rentals will use updated price."  A
\* heartbeat that had loaded the row before writes the old price back.
OnlyRequestsSetPrices ==
  [][\A i \in RowIds :
       Exists(i) /\ rows'[i].price # rows[i].price =>
         \E r \in Requests : writes'[r] # writes[r]]_vars

\* node_service.go: "Check for existing node with same GPU UUID (duplicate
\* prevention)".  Two registrations may both find none.
OneRowPerGpu ==
  \A i, j \in HttpRows : Exists(i) /\ Exists(j) /\ i[2] = j[2] => i = j

\* node_service.go: "Don't create a ghost node".  A failing GetByWallet does.
NoGhostsOfProviders == \A n \in Cns \cap Providers : ~Exists(<<GHOST, n>>)

\* server.go: "SendCommand sends a command to a specific node".  The handler
\* of an earlier connection deletes the entry of the later one.
OpenConnectionsAreKnown ==
  \A c \in Conns : conn[c] # NONE => clients[conn[c]] # NONE
=============================================================================
