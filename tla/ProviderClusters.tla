-------------------------- MODULE ProviderClusters --------------------------
(***************************************************************************)
(* Providers, the Kubernetes clusters they bring and what the hub keeps    *)
(* about both: the table providers, the in-memory registry of cluster      *)
(* clients, the pod watchers that are started from it, the namespaces of   *)
(* tenants on the clusters, and the sign-in of wallets, which also creates *)
(* providers.  A request changes the registry and the table in separate    *)
(* steps and compensates when the second one fails; a restart rebuilds the *)
(* registry and the watchers from the table.                               *)
(*                                                                         *)
(* A wallet is named by text.  Addresses are hexadecimal, so a wallet has  *)
(* several spellings, and the table tells them apart: a registration is    *)
(* stored as it was typed, a sign-in under the spelling with the checksum  *)
(* in its case (EIP-55).                                                   *)
(*                                                                         *)
(* A kubeconfig stands for the cluster it leads to.  There is one tenant.  *)
(* What RegisterK8sProvider does to the table nodes is in NodeRegistry,    *)
(* what happens to pods in CapacityTracker and RentalSessions.             *)
(***************************************************************************)
EXTENDS Naturals, FiniteSets

CONSTANTS
  Wallets,
  Spellings,    \* the texts that name them, ...
  WalletOf,     \* ... the wallet that each names
  Checksummed,  \* ... and the spelling of a wallet that String() of its address gives
  Ids,          \* the ids that providers get
  Kubeconfigs,  \* what providers send ...
  Clusters,     \* ... and those among them that parse
  Nonces,
  Requests,     \* requests that register or sign in at a time (a bound)
  Launches,     \* creations of rental pods at a time (a bound)
  MaxFaults,    \* bound on failing calls to the database or a cluster
  MaxRestarts   \* bound on restarts of the hub

NONE == "none"

ASSUME ProvidersAssumption ==
  /\ Clusters \subseteq Kubeconfigs
  /\ WalletOf \in [Spellings -> Wallets] /\ Checksummed \in [Wallets -> Spellings]
  /\ \A w \in Wallets : WalletOf[Checksummed[w]] = w
  /\ NONE \notin Spellings \cup Ids \cup Kubeconfigs \cup Nonces
  /\ MaxFaults \in Nat /\ MaxRestarts \in Nat

VARIABLES
  providers,  \* the table providers, by wallet_address (a text; UNIQUE)
  registry,   \* ExternalClusterRegistry.clusters
  watchers,   \* MultiClusterWatcher.watchers, and the cluster each one watches
  reqs,       \* requests under way
  nonces,     \* the table nonces
  tokens,     \* the table sessions, and the request that created each
  launches,   \* calls of CreateGPUSession: where and how far they are
  tenants,    \* per cluster, which parts of the tenant's namespace exist
  pods,       \* the clusters on which a rental pod was created
  faults,
  restarts

hub == <<registry, watchers>>
signin == <<nonces, tokens>>
rentals == <<launches, tenants, pods>>
vars == <<providers, registry, watchers, reqs, nonces, tokens, launches, tenants,
          pods, faults, restarts>>

NoProvider == [id |-> NONE, config |-> NONE]
NoRequest == [pc |-> "idle", a |-> NONE, i |-> NONE, k |-> NONE, n |-> NONE]
Pcs == {"register", "update", "create", "remove",  \* RegisterK8sProvider
        "lookup", "insert", "session"}             \* Login

\* The parts of a tenant's namespace, in the order of their creation: the
\* namespace, its quota, and the policies allow-internal, -dns, -egress
Parts == 1..5
\* Every part is there as far as EnsureTenant can tell.
ENSURED == 6
NotLaunching == [at |-> NONE, next |-> 1]

TablesTypeOK ==
  /\ providers \in [Spellings -> [id: Ids, config: Kubeconfigs \cup {NONE}] \cup {NoProvider}]
  /\ nonces \in [Nonces -> {"new", "live", "gone"}]
  /\ tokens \subseteq [n: Nonces, w: Wallets, i: Ids, by: Requests]

HubTypeOK ==
  /\ registry \in [Ids -> Clusters \cup {NONE}]
  /\ watchers \in [Ids -> Clusters \cup {NONE}]
  /\ reqs \in [Requests -> [pc: Pcs, a: Spellings, i: Ids \cup {NONE},
                            k: Kubeconfigs \cup {NONE}, n: Nonces \cup {NONE}]
                           \cup {NoRequest}]

RentalsTypeOK ==
  /\ launches \in [Launches -> [at: Clusters \cup {NONE}, next: Parts \cup {ENSURED}]]
  /\ tenants \in [Clusters -> SUBSET Parts]
  /\ pods \subseteq Clusters

BoundsTypeOK == faults \in 0..MaxFaults /\ restarts \in 0..MaxRestarts

TypeOK == TablesTypeOK /\ HubTypeOK /\ RentalsTypeOK /\ BoundsTypeOK

Init ==
  /\ providers = [a \in Spellings |-> NoProvider]
  /\ registry = [i \in Ids |-> NONE] /\ watchers = [i \in Ids |-> NONE]
  /\ reqs = [r \in Requests |-> NoRequest]
  /\ nonces = [n \in Nonces |-> "new"] /\ tokens = {}
  /\ launches = [l \in Launches |-> NotLaunching]
  /\ tenants = [k \in Clusters |-> {}] /\ pods = {}
  /\ faults = 0 /\ restarts = 0

Fault == faults < MaxFaults /\ faults' = faults + 1

-----------------------------------------------------------------------------
Known(a) == providers[a] # NoProvider

\* uuid.New and generateID
Fresh(i) ==
  /\ \A a \in Spellings : providers[a].id # i
  /\ \A r \in Requests : reqs[r].i # i
  /\ registry[i] = NONE

Begin(r, q) == reqs' = [reqs EXCEPT ![r] = q]
Goto(r, pc) == reqs' = [reqs EXCEPT ![r].pc = pc]
Return(r) == reqs' = [reqs EXCEPT ![r] = NoRequest]

-----------------------------------------------------------------------------
(* RegisterK8sProvider.  A provider is looked up, the kubeconfig is put    *)
(* in the registry, the row is written, and if that fails the registry     *)
(* entry is removed.                                                       *)

\* GetByWallet; an error counts as "no such provider".
Lookup(r, a, k) ==
  /\ reqs[r] = NoRequest
  /\ \/ Known(a) /\ UNCHANGED faults
        /\ Begin(r, [pc |-> "register", a |-> a, i |-> providers[a].id, k |-> k, n |-> NONE])
     \/ (IF Known(a) THEN Fault ELSE UNCHANGED faults)
        /\ \E i \in {j \in Ids : Fresh(j)} :
             Begin(r, [pc |-> "register", a |-> a, i |-> i, k |-> k, n |-> NONE])
  /\ UNCHANGED <<providers, hub, signin, rentals, restarts>>

\* Mutant: what RegisterCluster cannot parse is stored all the same.
RegisterClusterUnchecked(r) ==
  LET q == reqs[r]
  IN  /\ q.pc = "register"
      /\ registry' = IF q.k \in Clusters THEN [registry EXCEPT ![q.i] = q.k] ELSE registry
      /\ Goto(r, IF Known(q.a) /\ providers[q.a].id = q.i THEN "update" ELSE "create")
      /\ UNCHANGED <<providers, watchers, signin, rentals, faults, restarts>>

\* Mutant: a kubeconfig that does not parse gets an entry.
RegisterClusterUnparsed(r) ==
  /\ reqs[r].pc = "register"
  /\ registry' = [registry EXCEPT ![reqs[r].i] = reqs[r].k]
  /\ Goto(r, "create")
  /\ UNCHANGED <<providers, watchers, signin, rentals, faults, restarts>>

\* Mutant: the entry is also removed when the kubeconfig does not parse.
RegisterClusterRemoving(r) ==
  LET q == reqs[r]
  IN  /\ q.pc = "register"
      /\ \/ /\ q.k \in Clusters
            /\ registry' = [registry EXCEPT ![q.i] = q.k]
            /\ Goto(r, IF Known(q.a) /\ providers[q.a].id = q.i THEN "update" ELSE "create")
         \/ /\ q.k \notin Clusters
            /\ registry' = [registry EXCEPT ![q.i] = NONE]
            /\ Return(r)
      /\ UNCHANGED <<providers, watchers, signin, rentals, faults, restarts>>

\* RegisterCluster, which replaces an earlier client.  Only a row that the
\* lookup found has its id.
RegisterCluster(r) ==
  LET q == reqs[r]
  IN  /\ q.pc = "register"
      /\ \/ /\ q.k \in Clusters
            /\ registry' = [registry EXCEPT ![q.i] = q.k]
            /\ Goto(r, IF Known(q.a) /\ providers[q.a].id = q.i THEN "update" ELSE "create")
         \/ q.k \notin Clusters /\ Return(r) /\ UNCHANGED registry
      /\ UNCHANGED <<providers, watchers, signin, rentals, faults, restarts>>

\* Update
UpdateProvider(r) ==
  LET q == reqs[r]
  IN  /\ q.pc = "update"
      /\ \/ providers' = [providers EXCEPT ![q.a].config = q.k] /\ Return(r) /\ UNCHANGED faults
         \/ Fault /\ Goto(r, "remove") /\ UNCHANGED providers
      /\ UNCHANGED <<hub, signin, rentals, restarts>>

\* Mutant: Create's failure is not compensated.
CreateProviderLeaving(r) ==
  LET q == reqs[r]
  IN  /\ q.pc = "create"
      /\ \/ /\ ~Known(q.a)
            /\ providers' = [providers EXCEPT ![q.a] = [id |-> q.i, config |-> q.k]]
            /\ Return(r) /\ UNCHANGED faults
         \/ /\ IF Known(q.a) THEN UNCHANGED faults ELSE Fault
            /\ Return(r) /\ UNCHANGED providers
      /\ UNCHANGED <<hub, signin, rentals, restarts>>

\* Create, which fails if the wallet has got a provider since the lookup
CreateProvider(r) ==
  LET q == reqs[r]
  IN  /\ q.pc = "create"
      /\ \/ /\ ~Known(q.a)
            /\ providers' = [providers EXCEPT ![q.a] = [id |-> q.i, config |-> q.k]]
            /\ Return(r) /\ UNCHANGED faults
         \/ /\ IF Known(q.a) THEN UNCHANGED faults ELSE Fault
            /\ Goto(r, "remove") /\ UNCHANGED providers
      /\ UNCHANGED <<hub, signin, rentals, restarts>>

RemoveCluster(r) ==
  /\ reqs[r].pc = "remove"
  /\ registry' = [registry EXCEPT ![reqs[r].i] = NONE]
  /\ Return(r)
  /\ UNCHANGED <<providers, watchers, signin, rentals, faults, restarts>>

-----------------------------------------------------------------------------
(* Signing in.                                                             *)

GetNonce(n) ==
  /\ nonces[n] = "new"
  /\ nonces' = [nonces EXCEPT ![n] = "live"]
  /\ UNCHANGED <<providers, hub, reqs, tokens, rentals, faults, restarts>>

NonceExpires(n) ==
  /\ nonces[n] = "live"
  /\ nonces' = [nonces EXCEPT ![n] = "gone"]
  /\ UNCHANGED <<providers, hub, reqs, tokens, rentals, faults, restarts>>

\* Mutant: SELECT instead of DELETE ... RETURNING.
ConsumeKeeping(n) == nonces[n] = "live" /\ UNCHANGED nonces

\* ConsumeIfValid
Consume(n) == nonces[n] = "live" /\ nonces' = [nonces EXCEPT ![n] = "gone"]

\* Verify consumes the nonce of the message before it checks the signature; then
\* the wallet goes by its checksummed spelling, however the message spells it.
Login(r, n, w) ==
  /\ reqs[r] = NoRequest
  /\ Consume(n)
  /\ \/ Begin(r, [pc |-> "lookup", a |-> Checksummed[w], i |-> NONE, k |-> NONE, n |-> n])
     \/ UNCHANGED reqs
  /\ UNCHANGED <<providers, hub, tokens, rentals, faults, restarts>>

\* GetByWallet; here too an error counts as "no such provider".
LoginLookup(r) ==
  LET q == reqs[r]
  IN  /\ q.pc = "lookup"
      /\ \/ /\ Known(q.a) /\ UNCHANGED faults
            /\ reqs' = [reqs EXCEPT ![r].pc = "session", ![r].i = providers[q.a].id]
         \/ /\ IF Known(q.a) THEN Fault ELSE UNCHANGED faults
            /\ \E i \in {j \in Ids : Fresh(j)} :
                 reqs' = [reqs EXCEPT ![r].pc = "insert", ![r].i = i]
      /\ UNCHANGED <<providers, hub, signin, rentals, restarts>>

\* Mutant: a duplicate wallet is not an error of Create.
LoginInsertAnyway(r) ==
  LET q == reqs[r]
  IN  /\ q.pc = "insert"
      /\ providers' = IF Known(q.a) THEN providers
                      ELSE [providers EXCEPT ![q.a] = [id |-> q.i, config |-> NONE]]
      /\ Goto(r, "session")
      /\ UNCHANGED <<hub, signin, rentals, faults, restarts>>

\* The first login of a wallet
LoginInsert(r) ==
  LET q == reqs[r]
  IN  /\ q.pc = "insert"
      /\ \/ /\ ~Known(q.a)
            /\ providers' = [providers EXCEPT ![q.a] = [id |-> q.i, config |-> NONE]]
            /\ Goto(r, "session") /\ UNCHANGED faults
         \/ /\ IF Known(q.a) THEN UNCHANGED faults ELSE Fault
            /\ Return(r) /\ UNCHANGED providers
      /\ UNCHANGED <<hub, signin, rentals, restarts>>

\* SessionManager.Create
CreateSession(r) ==
  LET q == reqs[r]
  IN  /\ q.pc = "session"
      /\ \/ tokens' = tokens \cup {[n |-> q.n, w |-> WalletOf[q.a], i |-> q.i, by |-> r]} /\ UNCHANGED faults
         \/ Fault /\ UNCHANGED tokens
      /\ Return(r)
      /\ UNCHANGED <<providers, hub, nonces, rentals, restarts>>

\* RegisterNode and AutoRegisterNode store a provider for a node that names none:
\* the id is the node's own, the address that of its certificate or a made-up one.
\* A row that is in the way is used as it is, or refuses the node.
ProviderOfNode(a, i) ==
  /\ ~Known(a) /\ Fresh(i)
  /\ providers' = [providers EXCEPT ![a] = [id |-> i, config |-> NONE]]
  /\ UNCHANGED <<hub, reqs, signin, rentals, faults, restarts>>

-----------------------------------------------------------------------------
(* Creating a pod: CreateGPUSession calls EnsureTenant first.              *)

\* GetClient: what happens to the registry later does not matter.
Launch(l, i) ==
  /\ launches[l] = NotLaunching /\ registry[i] # NONE
  /\ launches' = [launches EXCEPT ![l].at = registry[i]]
  /\ UNCHANGED <<providers, hub, reqs, signin, tenants, pods, faults, restarts>>

\* The namespace: if it exists already, EnsureTenant returns at once.
EnsureNamespace(l) ==
  LET k == launches[l].at
  IN  /\ k # NONE /\ launches[l].next = 1
      /\ \/ /\ launches' = [launches EXCEPT ![l].next = IF tenants[k] = {} THEN 2 ELSE ENSURED]
            /\ tenants' = [tenants EXCEPT ![k] = @ \cup {1}]
            /\ UNCHANGED faults
         \/ Fault /\ launches' = [launches EXCEPT ![l] = NotLaunching] /\ UNCHANGED tenants
      /\ UNCHANGED <<providers, hub, reqs, signin, pods, restarts>>

\* Mutant: the last policy is forgotten.
EnsurePartButLast(l) ==
  LET k == launches[l].at
      p == launches[l].next
  IN  /\ k # NONE /\ p \in 2..5
      /\ launches' = [launches EXCEPT ![l].next = IF p = 4 THEN ENSURED ELSE p + 1]
      /\ tenants' = [tenants EXCEPT ![k] = @ \cup {p}]
      /\ UNCHANGED <<providers, hub, reqs, signin, pods, faults, restarts>>

\* createResourceQuota and createNetworkPolicies.  A failure ends the request.
EnsurePart(l) ==
  LET k == launches[l].at
      p == launches[l].next
  IN  /\ k # NONE /\ p \in 2..5
      /\ \/ /\ launches' = [launches EXCEPT ![l].next = p + 1]
            /\ tenants' = [tenants EXCEPT ![k] = @ \cup {p}]
            /\ UNCHANGED faults
         \/ Fault /\ launches' = [launches EXCEPT ![l] = NotLaunching] /\ UNCHANGED tenants
      /\ UNCHANGED <<providers, hub, reqs, signin, pods, restarts>>

CreatePod(l) ==
  /\ launches[l].at # NONE /\ launches[l].next = ENSURED
  /\ pods' = pods \cup {launches[l].at}
  /\ launches' = [launches EXCEPT ![l] = NotLaunching]
  /\ UNCHANGED <<providers, hub, reqs, signin, tenants, faults, restarts>>

-----------------------------------------------------------------------------
(* The hub process.                                                        *)

\* What start-up puts in the registry: the stored kubeconfigs that parse
Loaded(i) ==
  LET A == {a \in Spellings : providers[a].id = i /\ providers[a].config \in Clusters}
  IN  IF A = {} THEN NONE ELSE providers[CHOOSE a \in A : TRUE].config

\* StartAll starts a watcher for what is registered by then; it runs until the
\* hub stops.
StartWatchers == watchers' = registry'

\* The hub stops anywhere and starts again.  ListByType may fail, which is
\* logged.
Restart ==
  /\ restarts < MaxRestarts /\ restarts' = restarts + 1
  /\ \/ registry' = [i \in Ids |-> Loaded(i)] /\ UNCHANGED faults
     \/ Fault /\ registry' = [i \in Ids |-> NONE]
  /\ StartWatchers
  /\ reqs' = [r \in Requests |-> NoRequest]
  /\ launches' = [l \in Launches |-> NotLaunching]
  /\ UNCHANGED <<providers, signin, tenants, pods>>

Register(r) ==
  \/ \E a \in Spellings, k \in Kubeconfigs : Lookup(r, a, k)
  \/ RegisterCluster(r) \/ UpdateProvider(r) \/ CreateProvider(r) \/ RemoveCluster(r)

SignIn(r) ==
  \/ \E n \in Nonces, w \in Wallets : Login(r, n, w)
  \/ LoginLookup(r) \/ LoginInsert(r) \/ CreateSession(r)

StartPod(l) ==
  \/ \E i \in Ids : Launch(l, i)
  \/ EnsureNamespace(l) \/ EnsurePart(l) \/ CreatePod(l)

Next ==
  \/ \E r \in Requests : Register(r) \/ SignIn(r)
  \/ \E n \in Nonces : GetNonce(n) \/ NonceExpires(n)
  \/ \E a \in Spellings, i \in Ids : ProviderOfNode(a, i)
  \/ \E l \in Launches : StartPod(l)
  \/ Restart

Spec == Init /\ [][Next]_vars

-----------------------------------------------------------------------------
(* What holds.                                                             *)

\* No client is left behind: an entry of the registry belongs to a provider
\* in the table, or to a request that will create it or remove the entry.
EntriesAreBacked ==
  \A i \in Ids : registry[i] # NONE =>
    \/ \E a \in Spellings : providers[a].id = i
    \/ \E r \in Requests : reqs[r].i = i /\ reqs[r].pc \in {"create", "remove"}

\* Only kubeconfigs that parse are stored, so a restart loads all of them.
StoredConfigsLoad ==
  \A a \in Spellings : providers[a].config \in Clusters \cup {NONE}

\* As long as no call has failed, every provider with a stored kubeconfig has
\* a client, through restarts and through the refused requests of others.
ConfiguredAreServed ==
  faults = 0 => \A a \in Spellings :
                  providers[a].config # NONE => registry[providers[a].id] # NONE

\* However logins and registrations of a wallet overlap, and whatever spellings
\* of it are registered, its sessions all belong to one provider, the one stored
\* under the checksummed spelling of the wallet that signed, ...
SessionsNameTheSigner ==
  \A t \in tokens : providers[Checksummed[t.w]].id = t.i

\* ... and a nonce makes at most one session.
OneSessionPerNonce ==
  \A t, u \in tokens : t.n = u.n => t = u

\* Unless a call failed or the hub stopped, a namespace is complete as soon
\* as the call that created it is done.
TenantsAreComplete ==
  (faults = 0 /\ restarts = 0) =>
    \A k \in Clusters :
      \/ tenants[k] \in {{}, Parts}
      \/ \E l \in Launches : launches[l].at = k /\ launches[l].next \in 2..5

-----------------------------------------------------------------------------
(* The inductive invariant.                                                *)

\* What a request knows at each of its steps
RequestsInv ==
  \A r \in Requests :
    LET q == reqs[r]
    IN  /\ q.pc \notin {"idle", "lookup"} => q.i \in Ids
        /\ q.pc \in {"idle", "lookup"} => q.i = NONE
        /\ q.pc = "register" => q.k \in Kubeconfigs
        /\ q.pc \in {"update", "create", "remove"} => q.k \in Clusters
        /\ q.pc \in {"lookup", "insert", "session"} =>
             q.n \in Nonces /\ q.a = Checksummed[WalletOf[q.a]]
        /\ q.pc \in {"update", "session"} => providers[q.a].id = q.i
        /\ q.pc \in {"create", "insert"} => \A b \in Spellings : providers[b].id # q.i
        /\ q.pc \in {"register", "remove"} =>
             \/ providers[q.a].id = q.i
             \/ \A b \in Spellings : providers[b].id # q.i

\* An id belongs to one provider, or to one request.
IdsInv ==
  /\ \A a, b \in Spellings : Known(a) /\ providers[a].id = providers[b].id => a = b
  /\ \A r, s \in Requests :
       reqs[r].i \in Ids /\ reqs[r].i = reqs[s].i =>
         r = s \/ \E a \in Spellings : providers[a].id = reqs[r].i

\* Without a failed call: what has been registered is there until it is
\* stored, and only ids without a row are removed.
ServingInv ==
  faults = 0 =>
    /\ ConfiguredAreServed
    /\ \A r \in Requests :
         /\ reqs[r].pc \in {"update", "create"} => registry[reqs[r].i] # NONE
         /\ reqs[r].pc = "remove" => \A b \in Spellings : providers[b].id # reqs[r].i

SigningIn(r) == reqs[r].pc \in {"lookup", "insert", "session"}

\* A nonce that was consumed is in one request or in one session.
NoncesInv ==
  /\ OneSessionPerNonce
  /\ \A t \in tokens : nonces[t.n] = "gone"
  /\ \A r \in Requests : SigningIn(r) =>
       /\ nonces[reqs[r].n] = "gone"
       /\ \A t \in tokens : t.n # reqs[r].n
       /\ \A s \in Requests : SigningIn(s) /\ reqs[s].n = reqs[r].n => s = r

\* Without a failed call or a restart: one call at a time completes a
\* namespace, part by part.
TenantsInv ==
  /\ \A l \in Launches : launches[l].next # 1 => launches[l].at # NONE
  /\ (faults = 0 /\ restarts = 0) =>
       /\ TenantsAreComplete
       /\ \A l \in Launches : launches[l].next \in 2..5 =>
            /\ tenants[launches[l].at] = 1..(launches[l].next - 1)
            /\ \A m \in Launches :
                 launches[m].at = launches[l].at /\ launches[m].next \in 2..5 => m = l

IInv ==
  /\ TypeOK /\ RequestsInv /\ IdsInv /\ EntriesAreBacked /\ StoredConfigsLoad
  /\ ServingInv /\ SessionsNameTheSigner /\ NoncesInv /\ TenantsInv

-----------------------------------------------------------------------------
(* What the repository's comments say, and some behaviour breaks.          *)

\* multi_watcher.go: "Each registered provider gets its own PodWatcher that
\* monitors GPU rental Pods."  Watchers are started at start-up only.
RegisteredAreWatched ==
  \A i \in Ids : registry[i] # NONE => watchers[i] = registry[i]

\* tenant.go: "EnsureTenant creates a tenant namespace with resource quotas and
\* network policies."  It returns at once when another call has only just
\* created the namespace, or has failed after it.
PodsAreIsolated == \A k \in pods : tenants[k] = Parts

\* external_cluster.go: "Each K8s provider registers their kubeconfig, and the
\* registry maintains a providerID -> ClusterClient map".  Two registrations
\* of one provider may reach the registry and the table in different orders,
\* and an Update that fails removes the client of the kubeconfig still stored.
RegistryFollowsTable ==
  \A a \in Spellings :
    (Known(a) /\ \A r \in Requests : reqs[r] = NoRequest) =>
      registry[providers[a].id] = providers[a].config

\* migrations/001: "wallet-based onboarding", wallet_address UNIQUE.  A wallet that
\* is registered as typed and signs in later has two providers, and the one of
\* its sessions is not the one with its cluster.
OneProviderPerWallet ==
  \A a, b \in Spellings : Known(a) /\ Known(b) /\ WalletOf[a] = WalletOf[b] => a = b
=============================================================================
