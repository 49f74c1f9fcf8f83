----------------------- MODULE ProviderClusters_proofs -----------------------
(***************************************************************************)
(* Proofs about ProviderClusters, for any wallets, kubeconfigs and nonces  *)
(* and any number of requests, launches, faults and restarts.              *)
(***************************************************************************)
EXTENDS ProviderClusters, TLAPS

\* The facts about the constants that the steps need.
LEMMA Constants ==
  /\ \A k \in Clusters : k \in Kubeconfigs /\ k # NONE
  /\ \A i \in Ids : i # NONE
  /\ NONE \notin Spellings /\ NONE \notin Nonces /\ NONE \notin Kubeconfigs
  /\ MaxFaults \in Nat /\ MaxRestarts \in Nat
  BY ProvidersAssumption

\* Every wallet has its checksummed spelling.
LEMMA Spelled ==
  /\ \A a \in Spellings : WalletOf[a] \in Wallets
  /\ \A w \in Wallets : Checksummed[w] \in Spellings /\ WalletOf[Checksummed[w]] = w
  BY ProvidersAssumption

\* After a failed call TenantsInv says nothing of namespaces.
LEMMA FaultEnds ==
  ASSUME IInv, NEW l \in Launches, Fault,
         launches' = launches \/ launches' = [launches EXCEPT ![l] = NotLaunching]
  PROVE  TenantsInv'
<1>1. faults' # 0
  BY DEF IInv, TypeOK, BoundsTypeOK, Fault
<1>2. \A m \in Launches : launches'[m].next # 1 => launches'[m].at # NONE
  BY DEF IInv, TypeOK, RentalsTypeOK, TenantsInv, NotLaunching
<1> QED
  BY <1>1, <1>2 DEF TenantsInv

\* A row that is there keeps its id, and with it the provider of its sessions.
LEMMA KeepsSigner ==
  ASSUME IInv, tokens' = tokens,
         \A a \in Spellings, i \in Ids : providers[a].id = i => providers'[a].id = i
  PROVE  SessionsNameTheSigner'
<1> SUFFICES ASSUME NEW t \in tokens PROVE providers'[Checksummed[t.w]].id = t.i
  BY DEF SessionsNameTheSigner
<1>1. t.w \in Wallets /\ t.i \in Ids
  BY DEF IInv, TypeOK, TablesTypeOK
<1>2. Checksummed[t.w] \in Spellings
  BY <1>1, Spelled
<1>3. providers[Checksummed[t.w]].id = t.i
  BY DEF IInv, SessionsNameTheSigner
<1> QED
  BY <1>1, <1>2, <1>3

-----------------------------------------------------------------------------
\* A registration begins with the id of the row or with a fresh one.
LEMMA StepLookup ==
  ASSUME IInv, NEW r \in Requests, NEW a \in Spellings, NEW k \in Kubeconfigs, Lookup(r, a, k)
  PROVE  IInv'
<1>1. TablesTypeOK' /\ RentalsTypeOK' /\ StoredConfigsLoad' /\ SessionsNameTheSigner'
  BY DEF IInv, TypeOK, Lookup, TablesTypeOK, RentalsTypeOK, StoredConfigsLoad,
     SessionsNameTheSigner, hub, signin, rentals, Fault
<1>2. HubTypeOK'
  BY Constants DEF IInv, TypeOK, Lookup, Known, Fresh, Begin, NoRequest, NoProvider,
     Fault, TablesTypeOK, HubTypeOK, RequestsInv, Pcs, hub
<1>3. BoundsTypeOK'
  BY Constants DEF IInv, TypeOK, Lookup, Known, Fresh, Begin, NoRequest, NoProvider,
     Fault, BoundsTypeOK
<1>4. RequestsInv'
  BY Constants DEF IInv, TypeOK, Lookup, Known, Fresh, Begin, NoRequest, NoProvider,
     Fault, TablesTypeOK, HubTypeOK, RequestsInv, IdsInv
<1>5. IdsInv'
  BY Constants DEF IInv, TypeOK, Lookup, Known, Fresh, Begin, NoRequest, NoProvider,
     Fault, TablesTypeOK, HubTypeOK, RequestsInv, IdsInv
<1>6. EntriesAreBacked'
  BY Constants DEF IInv, TypeOK, Lookup, Known, Fresh, Begin, NoRequest, NoProvider,
     Fault, TablesTypeOK, HubTypeOK, RequestsInv, EntriesAreBacked, hub
<1>7. ServingInv'
  BY Constants DEF IInv, TypeOK, Lookup, Known, Fresh, Begin, NoRequest, NoProvider,
     Fault, TablesTypeOK, HubTypeOK, BoundsTypeOK, RequestsInv, IdsInv,
     StoredConfigsLoad, ServingInv, ConfiguredAreServed, hub
<1>8. NoncesInv'
  BY Constants DEF IInv, TypeOK, Lookup, Known, Fresh, Begin, NoRequest, NoProvider,
     Fault, TablesTypeOK, HubTypeOK, RequestsInv, NoncesInv, OneSessionPerNonce,
     SigningIn, signin
<1>9. TenantsInv'
  BY Constants DEF IInv, TypeOK, Lookup, Known, Fresh, Begin, NoRequest, NoProvider,
     Fault, RentalsTypeOK, BoundsTypeOK, TenantsInv, TenantsAreComplete, Parts,
     ENSURED, rentals
<1> QED
  BY <1>1, <1>2, <1>3, <1>4, <1>5, <1>6, <1>7, <1>8, <1>9 DEF IInv, TypeOK

\* An entry appears together with the step that stores or removes it.
LEMMA StepRegisterCluster ==
  ASSUME IInv, NEW r \in Requests, RegisterCluster(r)
  PROVE  IInv'
<1>1. TablesTypeOK' /\ RentalsTypeOK' /\ BoundsTypeOK' /\ StoredConfigsLoad' /\
      SessionsNameTheSigner' /\ TenantsInv'
  BY DEF IInv, TypeOK, RegisterCluster, TablesTypeOK, RentalsTypeOK, BoundsTypeOK,
     StoredConfigsLoad, SessionsNameTheSigner, TenantsInv, TenantsAreComplete, hub,
     signin, rentals
<1>2. HubTypeOK'
  BY Constants DEF IInv, TypeOK, RegisterCluster, Known, Goto, Return, NoRequest,
     NoProvider, TablesTypeOK, HubTypeOK, RequestsInv, Pcs, hub
<1>3. RequestsInv'
  BY Constants DEF IInv, TypeOK, RegisterCluster, Known, Goto, Return, NoRequest,
     NoProvider, TablesTypeOK, HubTypeOK, RequestsInv, IdsInv
<1>4. IdsInv'
  BY Constants DEF IInv, TypeOK, RegisterCluster, Known, Goto, Return, NoRequest,
     NoProvider, TablesTypeOK, HubTypeOK, RequestsInv, IdsInv
<1>5. EntriesAreBacked'
  BY Constants DEF IInv, TypeOK, RegisterCluster, Known, Goto, Return, NoRequest,
     NoProvider, TablesTypeOK, HubTypeOK, RequestsInv, EntriesAreBacked, hub
<1>6. ServingInv'
  BY Constants DEF IInv, TypeOK, RegisterCluster, Known, Goto, Return, NoRequest,
     NoProvider, TablesTypeOK, HubTypeOK, BoundsTypeOK, RequestsInv, IdsInv,
     StoredConfigsLoad, ServingInv, ConfiguredAreServed, hub
<1>7. NoncesInv'
  BY Constants DEF IInv, TypeOK, RegisterCluster, Known, Goto, Return, NoRequest,
     NoProvider, TablesTypeOK, HubTypeOK, RequestsInv, NoncesInv,
     OneSessionPerNonce, SigningIn, signin
<1> QED
  BY <1>1, <1>2, <1>3, <1>4, <1>5, <1>6, <1>7 DEF IInv, TypeOK

\* Update stores the kubeconfig that was registered.
LEMMA StepUpdateProvider ==
  ASSUME IInv, NEW r \in Requests, UpdateProvider(r)
  PROVE  IInv'
<1>1. RentalsTypeOK'
  BY DEF IInv, TypeOK, UpdateProvider, RentalsTypeOK, hub, signin, rentals, Fault
<1>2. TablesTypeOK'
  <2>1. reqs[r].a \in Spellings /\ reqs[r].i \in Ids /\ reqs[r].k \in Kubeconfigs
        /\ providers[reqs[r].a].id = reqs[r].i
    BY Constants DEF IInv, TypeOK, HubTypeOK, RequestsInv, UpdateProvider, NoRequest
  <2>2. providers[reqs[r].a] \in [id: Ids, config: Kubeconfigs \cup {NONE}]
    BY <2>1, Constants DEF IInv, TypeOK, TablesTypeOK, NoProvider
  <2> QED
    BY <2>1, <2>2 DEF IInv, TypeOK, TablesTypeOK, UpdateProvider, signin
<1>3. HubTypeOK'
  BY Constants DEF IInv, TypeOK, UpdateProvider, Goto, Return, NoRequest, Fault,
     TablesTypeOK, HubTypeOK, RequestsInv, Pcs, hub
<1>4. BoundsTypeOK'
  BY Constants DEF IInv, TypeOK, UpdateProvider, Goto, Return, NoRequest, Fault,
     BoundsTypeOK
<1>5. RequestsInv'
  BY Constants DEF IInv, TypeOK, UpdateProvider, Goto, Return, NoRequest, Fault,
     TablesTypeOK, HubTypeOK, RequestsInv, IdsInv, NoProvider
<1>p. \A a \in Spellings : providers'[a].id = providers[a].id /\ (Known(a)' => Known(a))
  <2>1. reqs[r].a \in Spellings /\ reqs[r].i \in Ids /\ providers[reqs[r].a].id = reqs[r].i
    BY Constants DEF IInv, TypeOK, HubTypeOK, RequestsInv, UpdateProvider, NoRequest
  <2>2. Known(reqs[r].a)
    BY <2>1, Constants DEF Known, NoProvider
  <2> QED
    BY <2>1, <2>2 DEF IInv, TypeOK, TablesTypeOK, UpdateProvider, Known
<1>i. \A s \in Requests : reqs'[s].i \in {reqs[s].i, NONE}
  BY DEF IInv, TypeOK, HubTypeOK, UpdateProvider, Goto, Return, NoRequest
<1>6. IdsInv'
  BY <1>p, <1>i, Constants DEF IInv, IdsInv
<1>7. EntriesAreBacked'
  BY Constants DEF IInv, TypeOK, UpdateProvider, Goto, Return, NoRequest, Fault,
     TablesTypeOK, HubTypeOK, RequestsInv, EntriesAreBacked, NoProvider, hub
<1>8. StoredConfigsLoad'
  BY Constants DEF IInv, TypeOK, UpdateProvider, Goto, Return, NoRequest, Fault,
     TablesTypeOK, HubTypeOK, RequestsInv, StoredConfigsLoad, NoProvider
<1>9. ServingInv'
  BY Constants DEF IInv, TypeOK, UpdateProvider, Goto, Return, NoRequest, Fault,
     TablesTypeOK, HubTypeOK, BoundsTypeOK, RequestsInv, IdsInv, StoredConfigsLoad,
     ServingInv, ConfiguredAreServed, NoProvider, hub
<1>10. SessionsNameTheSigner'
  BY <1>p, KeepsSigner DEF UpdateProvider, signin
<1>11. NoncesInv'
  BY Constants DEF IInv, TypeOK, UpdateProvider, Goto, Return, NoRequest, Fault,
     TablesTypeOK, HubTypeOK, RequestsInv, NoncesInv, OneSessionPerNonce, SigningIn,
     signin
<1>12. TenantsInv'
  BY Constants DEF IInv, TypeOK, UpdateProvider, Goto, Return, NoRequest, Fault,
     RentalsTypeOK, BoundsTypeOK, TenantsInv, TenantsAreComplete, Parts, ENSURED,
     rentals
<1> QED
  BY <1>1, <1>2, <1>3, <1>4, <1>5, <1>6, <1>7, <1>8, <1>9, <1>10, <1>11, <1>12 DEF IInv, TypeOK

\* Create gives a fresh id to a wallet without a row, or fails.
LEMMA StepCreateProvider ==
  ASSUME IInv, NEW r \in Requests, CreateProvider(r)
  PROVE  IInv'
<1>1. RentalsTypeOK'
  BY DEF IInv, TypeOK, CreateProvider, RentalsTypeOK, hub, signin, rentals, Fault
<1>2. TablesTypeOK'
  BY Constants DEF IInv, TypeOK, CreateProvider, Known, Goto, Return, NoRequest,
     NoProvider, Fault, TablesTypeOK, HubTypeOK, RequestsInv, signin
<1>3. HubTypeOK'
  BY Constants DEF IInv, TypeOK, CreateProvider, Known, Goto, Return, NoRequest,
     NoProvider, Fault, TablesTypeOK, HubTypeOK, RequestsInv, Pcs, hub
<1>4. BoundsTypeOK'
  BY Constants DEF IInv, TypeOK, CreateProvider, Known, Goto, Return, NoRequest,
     NoProvider, Fault, BoundsTypeOK
<1>5. RequestsInv'
  BY Constants DEF IInv, TypeOK, CreateProvider, Known, Goto, Return, NoRequest,
     NoProvider, Fault, TablesTypeOK, HubTypeOK, RequestsInv, IdsInv
<1>6. IdsInv'
  BY Constants DEF IInv, TypeOK, CreateProvider, Known, Goto, Return, NoRequest,
     NoProvider, Fault, TablesTypeOK, HubTypeOK, RequestsInv, IdsInv
<1>7. EntriesAreBacked'
  BY Constants DEF IInv, TypeOK, CreateProvider, Known, Goto, Return, NoRequest,
     NoProvider, Fault, TablesTypeOK, HubTypeOK, RequestsInv, EntriesAreBacked, hub
<1>8. StoredConfigsLoad'
  BY Constants DEF IInv, TypeOK, CreateProvider, Known, Goto, Return, NoRequest,
     NoProvider, Fault, TablesTypeOK, HubTypeOK, RequestsInv, StoredConfigsLoad
<1>9. ServingInv'
  BY Constants DEF IInv, TypeOK, CreateProvider, Known, Goto, Return, NoRequest,
     NoProvider, Fault, TablesTypeOK, HubTypeOK, BoundsTypeOK, RequestsInv, IdsInv,
     StoredConfigsLoad, ServingInv, ConfiguredAreServed, hub
<1>10. SessionsNameTheSigner'
  <2>1. reqs[r].a \in Spellings /\ tokens' = tokens
    BY DEF IInv, TypeOK, HubTypeOK, CreateProvider, NoRequest, signin
  <2>2. Known(reqs[r].a) => UNCHANGED providers
    BY DEF CreateProvider
  <2>3. \A a \in Spellings, i \in Ids : providers[a].id = i => providers'[a].id = i
    BY <2>1, <2>2, Constants DEF IInv, TypeOK, TablesTypeOK, CreateProvider, Known, NoProvider
  <2> QED
    BY <2>1, <2>3, KeepsSigner
<1>11. NoncesInv'
  BY Constants DEF IInv, TypeOK, CreateProvider, Known, Goto, Return, NoRequest,
     NoProvider, Fault, TablesTypeOK, HubTypeOK, RequestsInv, NoncesInv,
     OneSessionPerNonce, SigningIn, signin
<1>12. TenantsInv'
  BY Constants DEF IInv, TypeOK, CreateProvider, Known, Goto, Return, NoRequest,
     NoProvider, Fault, RentalsTypeOK, BoundsTypeOK, TenantsInv, TenantsAreComplete,
     Parts, ENSURED, rentals
<1> QED
  BY <1>1, <1>2, <1>3, <1>4, <1>5, <1>6, <1>7, <1>8, <1>9, <1>10, <1>11, <1>12 DEF IInv, TypeOK

\* RemoveCluster clears an entry; no row has its id unless a call failed.
LEMMA StepRemoveCluster ==
  ASSUME IInv, NEW r \in Requests, RemoveCluster(r)
  PROVE  IInv'
<1>1. TablesTypeOK' /\ RentalsTypeOK' /\ BoundsTypeOK' /\ StoredConfigsLoad' /\
      SessionsNameTheSigner' /\ TenantsInv'
  BY DEF IInv, TypeOK, RemoveCluster, TablesTypeOK, RentalsTypeOK, BoundsTypeOK,
     StoredConfigsLoad, SessionsNameTheSigner, TenantsInv, TenantsAreComplete, hub,
     signin, rentals
<1>2. HubTypeOK'
  BY Constants DEF IInv, TypeOK, RemoveCluster, Return, NoRequest, TablesTypeOK,
     HubTypeOK, RequestsInv, Pcs, hub
<1>3. RequestsInv'
  BY Constants DEF IInv, TypeOK, RemoveCluster, Return, NoRequest, TablesTypeOK,
     HubTypeOK, RequestsInv, IdsInv, NoProvider
<1>4. IdsInv'
  BY Constants DEF IInv, TypeOK, RemoveCluster, Return, NoRequest, TablesTypeOK,
     HubTypeOK, RequestsInv, IdsInv, Known, NoProvider
<1>5. EntriesAreBacked'
  BY Constants DEF IInv, TypeOK, RemoveCluster, Return, NoRequest, TablesTypeOK,
     HubTypeOK, RequestsInv, EntriesAreBacked, NoProvider, hub
<1>6. ServingInv'
  BY Constants DEF IInv, TypeOK, RemoveCluster, Return, NoRequest, TablesTypeOK,
     HubTypeOK, BoundsTypeOK, RequestsInv, IdsInv, StoredConfigsLoad, ServingInv,
     ConfiguredAreServed, NoProvider, hub
<1>7. NoncesInv'
  BY Constants DEF IInv, TypeOK, RemoveCluster, Return, NoRequest, TablesTypeOK,
     HubTypeOK, RequestsInv, NoncesInv, OneSessionPerNonce, SigningIn, signin
<1> QED
  BY <1>1, <1>2, <1>3, <1>4, <1>5, <1>6, <1>7 DEF IInv, TypeOK

\* A new nonce is in no request and in no session.
LEMMA StepGetNonce ==
  ASSUME IInv, NEW n \in Nonces, GetNonce(n)
  PROVE  IInv'
<1>1. HubTypeOK' /\ RentalsTypeOK' /\ BoundsTypeOK' /\ RequestsInv' /\ IdsInv' /\
      EntriesAreBacked' /\ StoredConfigsLoad' /\ ServingInv' /\ SessionsNameTheSigner'
      /\ TenantsInv'
  BY DEF IInv, TypeOK, GetNonce, HubTypeOK, RentalsTypeOK, BoundsTypeOK,
     RequestsInv, IdsInv, EntriesAreBacked, StoredConfigsLoad, ServingInv,
     SessionsNameTheSigner, TenantsInv, Known, ConfiguredAreServed,
     TenantsAreComplete, hub, signin, rentals
<1>2. TablesTypeOK'
  BY Constants DEF IInv, TypeOK, GetNonce, TablesTypeOK, HubTypeOK, RequestsInv,
     signin
<1>3. NoncesInv'
  BY Constants DEF IInv, TypeOK, GetNonce, TablesTypeOK, HubTypeOK, RequestsInv,
     NoncesInv, OneSessionPerNonce, SigningIn, signin
<1> QED
  BY <1>1, <1>2, <1>3 DEF IInv, TypeOK

\* A nonce that expires was never consumed.
LEMMA StepNonceExpires ==
  ASSUME IInv, NEW n \in Nonces, NonceExpires(n)
  PROVE  IInv'
<1>1. HubTypeOK' /\ RentalsTypeOK' /\ BoundsTypeOK' /\ RequestsInv' /\ IdsInv' /\
      EntriesAreBacked' /\ StoredConfigsLoad' /\ ServingInv' /\ SessionsNameTheSigner'
      /\ TenantsInv'
  BY DEF IInv, TypeOK, NonceExpires, HubTypeOK, RentalsTypeOK, BoundsTypeOK,
     RequestsInv, IdsInv, EntriesAreBacked, StoredConfigsLoad, ServingInv,
     SessionsNameTheSigner, TenantsInv, Known, ConfiguredAreServed,
     TenantsAreComplete, hub, signin, rentals
<1>2. TablesTypeOK'
  BY Constants DEF IInv, TypeOK, NonceExpires, TablesTypeOK, HubTypeOK, RequestsInv,
     signin
<1>3. NoncesInv'
  BY Constants DEF IInv, TypeOK, NonceExpires, TablesTypeOK, HubTypeOK, RequestsInv,
     NoncesInv, OneSessionPerNonce, SigningIn, signin
<1> QED
  BY <1>1, <1>2, <1>3 DEF IInv, TypeOK

\* Only one login gets past ConsumeIfValid.
LEMMA StepLogin ==
  ASSUME IInv, NEW r \in Requests, NEW n \in Nonces, NEW w \in Wallets, Login(r, n, w)
  PROVE  IInv'
<1>1. RentalsTypeOK' /\ BoundsTypeOK' /\ StoredConfigsLoad' /\ SessionsNameTheSigner' /\
      TenantsInv'
  BY DEF IInv, TypeOK, Login, RentalsTypeOK, BoundsTypeOK, StoredConfigsLoad,
     SessionsNameTheSigner, TenantsInv, TenantsAreComplete, hub, signin, rentals
<1>2. TablesTypeOK'
  BY Constants DEF IInv, TypeOK, Login, Consume, Begin, NoRequest, TablesTypeOK,
     HubTypeOK, RequestsInv, signin
<1>a. Checksummed[w] \in Spellings /\ WalletOf[Checksummed[w]] = w
  BY Spelled
<1>3. HubTypeOK'
  BY <1>a, Constants DEF IInv, TypeOK, Login, Consume, Begin, NoRequest, TablesTypeOK,
     HubTypeOK, RequestsInv, Pcs, hub
<1>4. RequestsInv'
  BY <1>a, Constants DEF IInv, TypeOK, Login, Consume, Begin, NoRequest, TablesTypeOK,
     HubTypeOK, RequestsInv, IdsInv, NoProvider
<1>5. IdsInv'
  BY Constants DEF IInv, TypeOK, Login, Consume, Begin, NoRequest, TablesTypeOK,
     HubTypeOK, RequestsInv, IdsInv, Known, NoProvider
<1>6. EntriesAreBacked'
  BY Constants DEF IInv, TypeOK, Login, Consume, Begin, NoRequest, TablesTypeOK,
     HubTypeOK, RequestsInv, EntriesAreBacked, NoProvider, hub
<1>7. ServingInv'
  BY Constants DEF IInv, TypeOK, Login, Consume, Begin, NoRequest, TablesTypeOK,
     HubTypeOK, BoundsTypeOK, RequestsInv, IdsInv, StoredConfigsLoad, ServingInv,
     ConfiguredAreServed, NoProvider, hub
<1>8. NoncesInv'
  BY Constants DEF IInv, TypeOK, Login, Consume, Begin, NoRequest, TablesTypeOK,
     HubTypeOK, RequestsInv, NoncesInv, OneSessionPerNonce, SigningIn, signin
<1> QED
  BY <1>1, <1>2, <1>3, <1>4, <1>5, <1>6, <1>7, <1>8 DEF IInv, TypeOK

\* A login goes on with the id of the row or with a fresh one.
LEMMA StepLoginLookup ==
  ASSUME IInv, NEW r \in Requests, LoginLookup(r)
  PROVE  IInv'
<1>1. TablesTypeOK' /\ RentalsTypeOK' /\ StoredConfigsLoad' /\ SessionsNameTheSigner'
  BY DEF IInv, TypeOK, LoginLookup, TablesTypeOK, RentalsTypeOK, StoredConfigsLoad,
     SessionsNameTheSigner, hub, signin, rentals, Fault
<1>2. HubTypeOK'
  BY Constants DEF IInv, TypeOK, LoginLookup, Known, Fresh, NoProvider, NoRequest,
     Fault, TablesTypeOK, HubTypeOK, RequestsInv, Pcs, hub
<1>3. BoundsTypeOK'
  BY Constants DEF IInv, TypeOK, LoginLookup, Known, Fresh, NoProvider, NoRequest,
     Fault, BoundsTypeOK
<1>4. RequestsInv'
  BY Constants DEF IInv, TypeOK, LoginLookup, Known, Fresh, NoProvider, NoRequest,
     Fault, TablesTypeOK, HubTypeOK, RequestsInv, IdsInv
<1>5. IdsInv'
  BY Constants DEF IInv, TypeOK, LoginLookup, Known, Fresh, NoProvider, NoRequest,
     Fault, TablesTypeOK, HubTypeOK, RequestsInv, IdsInv
<1>6. EntriesAreBacked'
  BY Constants DEF IInv, TypeOK, LoginLookup, Known, Fresh, NoProvider, NoRequest,
     Fault, TablesTypeOK, HubTypeOK, RequestsInv, EntriesAreBacked, hub
<1>7. ServingInv'
  BY Constants DEF IInv, TypeOK, LoginLookup, Known, Fresh, NoProvider, NoRequest,
     Fault, TablesTypeOK, HubTypeOK, BoundsTypeOK, RequestsInv, IdsInv,
     StoredConfigsLoad, ServingInv, ConfiguredAreServed, hub
<1>8. NoncesInv'
  BY Constants DEF IInv, TypeOK, LoginLookup, Known, Fresh, NoProvider, NoRequest,
     Fault, TablesTypeOK, HubTypeOK, RequestsInv, NoncesInv, OneSessionPerNonce,
     SigningIn, signin
<1>9. TenantsInv'
  BY Constants DEF IInv, TypeOK, LoginLookup, Known, Fresh, NoProvider, NoRequest,
     Fault, RentalsTypeOK, BoundsTypeOK, TenantsInv, TenantsAreComplete, Parts,
     ENSURED, rentals
<1> QED
  BY <1>1, <1>2, <1>3, <1>4, <1>5, <1>6, <1>7, <1>8, <1>9 DEF IInv, TypeOK

\* A first login gives a fresh id to a wallet without a row, or fails.
LEMMA StepLoginInsert ==
  ASSUME IInv, NEW r \in Requests, LoginInsert(r)
  PROVE  IInv'
<1>1. RentalsTypeOK'
  BY DEF IInv, TypeOK, LoginInsert, RentalsTypeOK, hub, signin, rentals, Fault
<1>2. TablesTypeOK'
  BY Constants DEF IInv, TypeOK, LoginInsert, Known, Goto, Return, NoRequest,
     NoProvider, Fault, TablesTypeOK, HubTypeOK, RequestsInv, signin
<1>3. HubTypeOK'
  BY Constants DEF IInv, TypeOK, LoginInsert, Known, Goto, Return, NoRequest,
     NoProvider, Fault, TablesTypeOK, HubTypeOK, RequestsInv, Pcs, hub
<1>4. BoundsTypeOK'
  BY Constants DEF IInv, TypeOK, LoginInsert, Known, Goto, Return, NoRequest,
     NoProvider, Fault, BoundsTypeOK
<1>5. RequestsInv'
  BY Constants DEF IInv, TypeOK, LoginInsert, Known, Goto, Return, NoRequest,
     NoProvider, Fault, TablesTypeOK, HubTypeOK, RequestsInv, IdsInv
<1>6. IdsInv'
  <2> DEFINE q == reqs[r]
  <2>1. q.a \in Spellings /\ q.i \in Ids /\ \A v \in Spellings : providers[v].id # q.i
    BY DEF IInv, TypeOK, HubTypeOK, RequestsInv, LoginInsert, NoRequest
  <2>2. \A s \in Requests : s # r => reqs[s].i # q.i
    BY <2>1 DEF IInv, IdsInv
  <2>3. CASE /\ providers' = [providers EXCEPT ![q.a] = [id |-> q.i, config |-> NONE]]
             /\ reqs' = [reqs EXCEPT ![r].pc = "session"] /\ ~Known(q.a)
    <3>1. \A v \in Spellings : providers'[v].id = IF v = q.a THEN q.i ELSE providers[v].id
      BY <2>1, <2>3 DEF IInv, TypeOK, TablesTypeOK
    <3>2. \A s \in Requests : reqs'[s].i = reqs[s].i
      BY <2>3 DEF IInv, TypeOK, HubTypeOK
    <3>3. \A v \in Spellings : Known(v)' => v = q.a \/ Known(v)
      BY <2>1, <2>3 DEF IInv, TypeOK, TablesTypeOK, Known
    <3>4. \A v, w \in Spellings : Known(v)' /\ providers'[v].id = providers'[w].id => v = w
      BY <2>1, <3>1, <3>3 DEF IInv, IdsInv
    <3>5. \A p, s \in Requests :
            reqs'[p].i \in Ids /\ reqs'[p].i = reqs'[s].i =>
              p = s \/ \E w \in Spellings : providers'[w].id = reqs'[p].i
      <4>1. providers[q.a].id \notin Ids
        BY <2>3, Constants DEF Known, NoProvider
      <4>2. \A s \in Requests : s # r => reqs[s].i # reqs[r].i
        BY <2>2
      <4>3. \A v \in Spellings, i \in Ids : providers[v].id = i => providers'[v].id = i
        BY <3>1, <4>1
      <4> QED
        BY <3>2, <4>3 DEF IInv, IdsInv
    <3> QED
      BY <3>4, <3>5 DEF IdsInv
  <2>4. CASE UNCHANGED providers /\ reqs' = [reqs EXCEPT ![r] = NoRequest]
    BY <2>4, Constants DEF IInv, TypeOK, HubTypeOK, IdsInv, Known, NoRequest
  <2> QED
    BY <2>3, <2>4 DEF LoginInsert, Goto, Return
<1>7. EntriesAreBacked'
  <2>1. reqs[r].a \in Spellings /\ reqs[r].pc = "insert"
    BY DEF IInv, TypeOK, HubTypeOK, LoginInsert, NoRequest
  <2>2. \A s \in Requests : s # r => reqs'[s] = reqs[s]
    BY DEF IInv, TypeOK, HubTypeOK, LoginInsert, Goto, Return
  <2>3. \A v \in Spellings, i \in Ids : providers[v].id = i => providers'[v].id = i
    <3>1. CASE UNCHANGED providers
      BY <3>1
    <3>2. CASE /\ providers[reqs[r].a] = NoProvider
               /\ \E p : providers' = [providers EXCEPT ![reqs[r].a] = p]
      BY <3>2, <2>1, Constants DEF IInv, TypeOK, TablesTypeOK, NoProvider
    <3> QED
      BY <3>1, <3>2 DEF LoginInsert, Known
  <2>4. UNCHANGED registry
    BY DEF LoginInsert, hub
  <2> QED
    BY <2>1, <2>2, <2>3, <2>4 DEF IInv, EntriesAreBacked
<1>8. StoredConfigsLoad'
  BY Constants DEF IInv, TypeOK, LoginInsert, Known, Goto, Return, NoRequest,
     NoProvider, Fault, TablesTypeOK, HubTypeOK, RequestsInv, StoredConfigsLoad
<1>9. ServingInv'
  BY Constants DEF IInv, TypeOK, LoginInsert, Known, Goto, Return, NoRequest,
     NoProvider, Fault, TablesTypeOK, HubTypeOK, BoundsTypeOK, RequestsInv, IdsInv,
     StoredConfigsLoad, ServingInv, ConfiguredAreServed, hub
<1>10. SessionsNameTheSigner'
  <2>1. reqs[r].a \in Spellings /\ tokens' = tokens
    BY DEF IInv, TypeOK, HubTypeOK, LoginInsert, NoRequest, signin
  <2>2. Known(reqs[r].a) => UNCHANGED providers
    BY DEF LoginInsert
  <2>3. \A a \in Spellings, i \in Ids : providers[a].id = i => providers'[a].id = i
    BY <2>1, <2>2, Constants DEF IInv, TypeOK, TablesTypeOK, LoginInsert, Known, NoProvider
  <2> QED
    BY <2>1, <2>3, KeepsSigner
<1>11. NoncesInv'
  BY Constants DEF IInv, TypeOK, LoginInsert, Known, Goto, Return, NoRequest,
     NoProvider, Fault, TablesTypeOK, HubTypeOK, RequestsInv, NoncesInv,
     OneSessionPerNonce, SigningIn, signin
<1>12. TenantsInv'
  BY Constants DEF IInv, TypeOK, LoginInsert, Known, Goto, Return, NoRequest,
     NoProvider, Fault, RentalsTypeOK, BoundsTypeOK, TenantsInv, TenantsAreComplete,
     Parts, ENSURED, rentals
<1> QED
  BY <1>1, <1>2, <1>3, <1>4, <1>5, <1>6, <1>7, <1>8, <1>9, <1>10, <1>11, <1>12 DEF IInv, TypeOK

\* The row of a node takes a free address and an id of its own.
LEMMA StepProviderOfNode ==
  ASSUME IInv, NEW a \in Spellings, NEW i \in Ids, ProviderOfNode(a, i)
  PROVE  IInv'
<1>1. /\ HubTypeOK' /\ RentalsTypeOK' /\ BoundsTypeOK' /\ NoncesInv' /\ TenantsInv'
  BY DEF IInv, TypeOK, ProviderOfNode, HubTypeOK, RentalsTypeOK, BoundsTypeOK, NoncesInv,
     OneSessionPerNonce, SigningIn, TenantsInv, TenantsAreComplete, hub, signin, rentals
<1>2. /\ providers' = [providers EXCEPT ![a] = [id |-> i, config |-> NONE]]
      /\ providers[a] = NoProvider /\ UNCHANGED <<registry, reqs, tokens, faults>>
  BY DEF ProviderOfNode, Known, hub, signin
<1>3. /\ \A b \in Spellings : providers[b].id # i
      /\ \A r \in Requests : reqs[r].i # i
  BY DEF ProviderOfNode, Fresh
<1>4. \A b \in Spellings : IF b = a THEN providers'[b].id = i /\ providers'[b].config = NONE
                           ELSE providers'[b] = providers[b]
  BY <1>2 DEF IInv, TypeOK, TablesTypeOK
<1>5. providers[a].id \notin Ids
  BY <1>2, Constants DEF NoProvider
<1>6. TablesTypeOK'
  BY <1>2, Constants DEF IInv, TypeOK, TablesTypeOK, ProviderOfNode, signin
<1>7. RequestsInv'
  <2>1. \A r \in Requests : reqs[r].pc \notin {"idle", "lookup"} => reqs[r].i \in Ids
    BY DEF IInv, RequestsInv
  <2>2. \A b \in Spellings, j \in Ids : j # i => (providers'[b].id = j <=> providers[b].id = j)
    BY <1>4, <1>5
  <2>3. \A r \in Requests : reqs[r].pc \notin {"idle", "lookup"} => reqs[r].a \in Spellings
    BY DEF IInv, TypeOK, HubTypeOK, NoRequest
  <2> QED
    BY <1>2, <1>3, <2>1, <2>2, <2>3 DEF IInv, RequestsInv
<1>8. \A b \in Spellings, j \in Ids : providers[b].id = j => providers'[b].id = j
  BY <1>4, <1>5
<1>9. IdsInv'
  <2>1. \A b, c \in Spellings : Known(b)' /\ providers'[b].id = providers'[c].id => b = c
    BY <1>3, <1>4 DEF IInv, IdsInv, Known
  <2> QED
    BY <1>2, <1>8, <2>1 DEF IInv, IdsInv
<1>10. EntriesAreBacked'
  BY <1>2, <1>8 DEF IInv, EntriesAreBacked
<1>11. StoredConfigsLoad'
  BY <1>4 DEF IInv, StoredConfigsLoad
<1>12. ServingInv'
  BY <1>2, <1>3, <1>4 DEF IInv, ServingInv, ConfiguredAreServed
<1>13. SessionsNameTheSigner'
  BY <1>2, <1>8, KeepsSigner
<1> QED
  BY <1>1, <1>6, <1>7, <1>9, <1>10, <1>11, <1>12, <1>13 DEF IInv, TypeOK

\* The session carries on what its request knew of nonce and provider.
LEMMA StepCreateSession ==
  ASSUME IInv, NEW r \in Requests, CreateSession(r)
  PROVE  IInv'
<1>1. RentalsTypeOK' /\ StoredConfigsLoad'
  BY DEF IInv, TypeOK, CreateSession, RentalsTypeOK, StoredConfigsLoad, hub, signin,
     rentals, Fault
<1>2. TablesTypeOK'
  <2>1. reqs[r].a \in Spellings /\ reqs[r].i \in Ids /\ reqs[r].n \in Nonces
    BY Constants DEF IInv, TypeOK, HubTypeOK, RequestsInv, CreateSession, NoRequest
  <2>2. WalletOf[reqs[r].a] \in Wallets
    BY <2>1, Spelled
  <2> QED
    BY <2>1, <2>2 DEF IInv, TypeOK, TablesTypeOK, CreateSession
<1>3. HubTypeOK'
  BY Constants DEF IInv, TypeOK, CreateSession, Return, NoRequest, Fault,
     TablesTypeOK, HubTypeOK, RequestsInv, Pcs, hub
<1>4. BoundsTypeOK'
  BY Constants DEF IInv, TypeOK, CreateSession, Return, NoRequest, Fault,
     BoundsTypeOK
<1>5. RequestsInv'
  BY Constants DEF IInv, TypeOK, CreateSession, Return, NoRequest, Fault,
     TablesTypeOK, HubTypeOK, RequestsInv, IdsInv, NoProvider
<1>6. IdsInv'
  BY Constants DEF IInv, TypeOK, CreateSession, Return, NoRequest, Fault,
     TablesTypeOK, HubTypeOK, RequestsInv, IdsInv, Known, NoProvider
<1>7. EntriesAreBacked'
  BY Constants DEF IInv, TypeOK, CreateSession, Return, NoRequest, Fault,
     TablesTypeOK, HubTypeOK, RequestsInv, EntriesAreBacked, NoProvider, hub
<1>8. ServingInv'
  BY Constants DEF IInv, TypeOK, CreateSession, Return, NoRequest, Fault,
     TablesTypeOK, HubTypeOK, BoundsTypeOK, RequestsInv, IdsInv, StoredConfigsLoad,
     ServingInv, ConfiguredAreServed, NoProvider, hub
<1>9. SessionsNameTheSigner'
  BY Constants DEF IInv, TypeOK, CreateSession, Return, NoRequest, Fault,
     TablesTypeOK, HubTypeOK, RequestsInv, SessionsNameTheSigner, NoProvider, signin
<1>10. NoncesInv'
  BY Constants DEF IInv, TypeOK, CreateSession, Return, NoRequest, Fault,
     TablesTypeOK, HubTypeOK, RequestsInv, NoncesInv, OneSessionPerNonce, SigningIn,
     signin
<1>11. TenantsInv'
  BY Constants DEF IInv, TypeOK, CreateSession, Return, NoRequest, Fault,
     RentalsTypeOK, BoundsTypeOK, TenantsInv, TenantsAreComplete, Parts, ENSURED,
     rentals
<1> QED
  BY <1>1, <1>2, <1>3, <1>4, <1>5, <1>6, <1>7, <1>8, <1>9, <1>10, <1>11 DEF IInv, TypeOK

\* A launch has not touched a namespace yet.
LEMMA StepLaunch ==
  ASSUME IInv, NEW l \in Launches, NEW i \in Ids, Launch(l, i)
  PROVE  IInv'
<1>1. TablesTypeOK' /\ HubTypeOK' /\ BoundsTypeOK' /\ RequestsInv' /\ IdsInv' /\
      EntriesAreBacked' /\ StoredConfigsLoad' /\ ServingInv' /\ SessionsNameTheSigner'
      /\ NoncesInv'
  BY DEF IInv, TypeOK, Launch, TablesTypeOK, HubTypeOK, BoundsTypeOK, RequestsInv,
     IdsInv, EntriesAreBacked, StoredConfigsLoad, ServingInv, SessionsNameTheSigner,
     NoncesInv, Known, ConfiguredAreServed, OneSessionPerNonce, SigningIn, hub,
     signin, rentals
<1>2. RentalsTypeOK'
  BY Constants DEF IInv, TypeOK, Launch, NotLaunching, RentalsTypeOK, HubTypeOK,
     Parts, ENSURED, rentals
<1>3. TenantsInv'
  BY Constants DEF IInv, TypeOK, Launch, NotLaunching, RentalsTypeOK, BoundsTypeOK,
     TenantsInv, TenantsAreComplete, Parts, ENSURED, rentals
<1> QED
  BY <1>1, <1>2, <1>3 DEF IInv, TypeOK

\* One call creates the namespace; the others return.
LEMMA StepEnsureNamespace ==
  ASSUME IInv, NEW l \in Launches, EnsureNamespace(l)
  PROVE  IInv'
<1>1. TablesTypeOK' /\ HubTypeOK' /\ RequestsInv' /\ IdsInv' /\ EntriesAreBacked' /\
      StoredConfigsLoad' /\ SessionsNameTheSigner' /\ NoncesInv'
  BY DEF IInv, TypeOK, EnsureNamespace, TablesTypeOK, HubTypeOK, RequestsInv,
     IdsInv, EntriesAreBacked, StoredConfigsLoad, SessionsNameTheSigner, NoncesInv,
     Known, OneSessionPerNonce, SigningIn, hub, signin, rentals, Fault
<1>2. RentalsTypeOK'
  BY Constants DEF IInv, TypeOK, EnsureNamespace, NotLaunching, Fault,
     RentalsTypeOK, HubTypeOK, Parts, ENSURED, rentals
<1>3. BoundsTypeOK'
  BY Constants DEF IInv, TypeOK, EnsureNamespace, NotLaunching, Fault, BoundsTypeOK
<1>4. ServingInv'
  BY Constants DEF IInv, TypeOK, EnsureNamespace, NotLaunching, Fault, TablesTypeOK,
     HubTypeOK, BoundsTypeOK, RequestsInv, IdsInv, StoredConfigsLoad, ServingInv,
     ConfiguredAreServed, NoProvider, hub
<1>5. TenantsInv'
  <2> DEFINE k == launches[l].at
  <2>1. k \in Clusters /\ launches[l].next = 1
    BY DEF IInv, TypeOK, RentalsTypeOK, EnsureNamespace
  <2>2. CASE Fault /\ launches' = [launches EXCEPT ![l] = NotLaunching]
    BY <2>2, FaultEnds
  <2>3. CASE /\ launches' = [launches EXCEPT ![l].next = IF tenants[k] = {} THEN 2 ELSE ENSURED]
             /\ tenants' = [tenants EXCEPT ![k] = @ \cup {1}] /\ UNCHANGED faults
    <3>1. \A m \in Launches : launches'[m].at = launches[m].at /\ (m # l => launches'[m] = launches[m])
      BY <2>3 DEF IInv, TypeOK, RentalsTypeOK
    <3>2. UNCHANGED restarts
      BY DEF EnsureNamespace
    <3>3. \A m \in Launches : launches'[m].next # 1 => launches'[m].at # NONE
      BY <2>1, <3>1, Constants DEF IInv, TenantsInv
    <3>4. CASE tenants[k] = {}
      <4>1. launches'[l].next = 2 /\ tenants'[k] = {1}
            /\ \A c \in Clusters : c # k => tenants'[c] = tenants[c]
        BY <2>1, <2>3, <3>4 DEF IInv, TypeOK, RentalsTypeOK
      <4>2. faults = 0 /\ restarts = 0 =>
              \A m \in Launches : launches[m].next \in 2..5 => launches[m].at # k
        <5>1. \A x \in 2..5 : 1 \in 1..(x - 1)
          OBVIOUS
        <5> QED
          BY <3>4, <5>1 DEF IInv, TenantsInv
      <4>3. 1..(2 - 1) = {1}
        OBVIOUS
      <4>4. ASSUME faults = 0, restarts = 0
            PROVE  TenantsAreComplete'
        BY <2>1, <2>3, <3>1, <3>2, <4>1, <4>2, <4>4 DEF IInv, TenantsInv, TenantsAreComplete
      <4>5. ASSUME faults = 0, restarts = 0, NEW m \in Launches, launches'[m].next \in 2..5
            PROVE  /\ tenants'[launches'[m].at] = 1..(launches'[m].next - 1)
                   /\ \A o \in Launches :
                        launches'[o].at = launches'[m].at /\ launches'[o].next \in 2..5 => o = m
        <5>1. CASE m = l
          BY <2>1, <3>1, <4>1, <4>2, <4>3, <4>5, <5>1
        <5>2. CASE m # l
          <6>1. launches'[m] = launches[m] /\ launches[m].at # k
            BY <3>1, <4>2, <4>5, <5>2
          <6>2. launches[m].at \in Clusters
            BY <4>5, <6>1 DEF IInv, TypeOK, RentalsTypeOK, TenantsInv
          <6> QED
            BY <3>1, <4>1, <4>5, <5>2, <6>1, <6>2 DEF IInv, TenantsInv
        <5> QED
          BY <5>1, <5>2
      <4> QED
        BY <2>3, <3>2, <3>3, <4>4, <4>5 DEF TenantsInv
    <3>5. CASE tenants[k] # {}
      <4>1. launches'[l].next = ENSURED
        BY <2>3, <3>5 DEF IInv, TypeOK, RentalsTypeOK
      <4>2. faults = 0 /\ restarts = 0 => tenants' = tenants
        <5>1. \A x \in 2..5 : 1 \in 1..(x - 1)
          OBVIOUS
        <5>2. 1 \in Parts
          BY DEF Parts
        <5>3. faults = 0 /\ restarts = 0 => 1 \in tenants[k]
          BY <2>1, <3>5, <5>1, <5>2 DEF IInv, TenantsInv, TenantsAreComplete
        <5> QED
          BY <2>3, <5>3 DEF IInv, TypeOK, RentalsTypeOK
      <4>3. ENSURED \notin 2..5
        BY DEF ENSURED
      <4>4. \A m \in Launches : launches'[m].next \in 2..5 =>
              m # l /\ launches'[m] = launches[m]
        BY <3>1, <4>1, <4>3
      <4>5. \A m \in Launches : launches[m].next \in 2..5 => launches'[m] = launches[m]
        BY <2>1, <3>1
      <4>6. ASSUME faults = 0, restarts = 0
            PROVE  TenantsAreComplete'
        <5>1. ASSUME NEW c \in Clusters
              PROVE  \/ tenants[c] \in {{}, Parts}
                     \/ \E m \in Launches : launches[m].at = c /\ launches[m].next \in 2..5
          BY <4>6 DEF IInv, TenantsInv, TenantsAreComplete
        <5>2. tenants' = tenants
          BY <4>2, <4>6
        <5> QED
          BY <4>5, <5>1, <5>2 DEF TenantsAreComplete
      <4>7. ASSUME faults = 0, restarts = 0, NEW m \in Launches, launches'[m].next \in 2..5
            PROVE  /\ tenants'[launches'[m].at] = 1..(launches'[m].next - 1)
                   /\ \A o \in Launches :
                        launches'[o].at = launches'[m].at /\ launches'[o].next \in 2..5 => o = m
        BY <4>2, <4>4, <4>7 DEF IInv, TenantsInv
      <4> QED
        BY <2>3, <3>2, <3>3, <4>6, <4>7 DEF TenantsInv
    <3> QED
      BY <3>4, <3>5
  <2> QED
    BY <2>2, <2>3 DEF EnsureNamespace
<1> QED
  BY <1>1, <1>2, <1>3, <1>4, <1>5 DEF IInv, TypeOK

\* The call that created the namespace adds the next part.
LEMMA StepEnsurePart ==
  ASSUME IInv, NEW l \in Launches, EnsurePart(l)
  PROVE  IInv'
<1>1. TablesTypeOK' /\ HubTypeOK' /\ RequestsInv' /\ IdsInv' /\ EntriesAreBacked' /\
      StoredConfigsLoad' /\ SessionsNameTheSigner' /\ NoncesInv'
  BY DEF IInv, TypeOK, EnsurePart, TablesTypeOK, HubTypeOK, RequestsInv, IdsInv,
     EntriesAreBacked, StoredConfigsLoad, SessionsNameTheSigner, NoncesInv, Known,
     OneSessionPerNonce, SigningIn, hub, signin, rentals, Fault
<1>2. RentalsTypeOK'
  BY Constants DEF IInv, TypeOK, EnsurePart, NotLaunching, Fault, RentalsTypeOK,
     HubTypeOK, Parts, ENSURED, rentals
<1>3. BoundsTypeOK'
  BY Constants DEF IInv, TypeOK, EnsurePart, NotLaunching, Fault, BoundsTypeOK
<1>4. ServingInv'
  BY Constants DEF IInv, TypeOK, EnsurePart, NotLaunching, Fault, TablesTypeOK,
     HubTypeOK, BoundsTypeOK, RequestsInv, IdsInv, StoredConfigsLoad, ServingInv,
     ConfiguredAreServed, NoProvider, hub
<1>5. TenantsInv'
  <2> DEFINE k == launches[l].at
             p == launches[l].next
  <2>1. k \in Clusters /\ p \in 2..5
    BY DEF IInv, TypeOK, RentalsTypeOK, EnsurePart
  <2>2. CASE Fault /\ launches' = [launches EXCEPT ![l] = NotLaunching]
    BY <2>2, FaultEnds
  <2>3. CASE /\ launches' = [launches EXCEPT ![l].next = p + 1]
             /\ tenants' = [tenants EXCEPT ![k] = @ \cup {p}] /\ UNCHANGED faults
    <3>1. \A m \in Launches : launches'[m].at = launches[m].at /\ (m # l => launches'[m] = launches[m])
      BY <2>3 DEF IInv, TypeOK, RentalsTypeOK
    <3>2. UNCHANGED restarts
      BY DEF EnsurePart
    <3>3. \A m \in Launches : launches'[m].next # 1 => launches'[m].at # NONE
      BY <2>1, <3>1, Constants DEF IInv, TenantsInv
    <3>4. launches'[l].next = p + 1 /\ tenants'[k] = tenants[k] \cup {p}
          /\ \A c \in Clusters : c # k => tenants'[c] = tenants[c]
      BY <2>1, <2>3 DEF IInv, TypeOK, RentalsTypeOK
    <3>5. 1..(p - 1) \cup {p} = 1..p /\ (p + 1) - 1 = p
      BY <2>1
    <3>6. p + 1 \notin 2..5 => 1..p = Parts
      BY <2>1 DEF Parts
    <3>7. ASSUME faults = 0, restarts = 0
          PROVE  /\ tenants'[k] = 1..p
                 /\ \A m \in Launches : launches[m].at = k /\ launches[m].next \in 2..5 => m = l
      BY <2>1, <3>4, <3>5, <3>7 DEF IInv, TenantsInv
    <3>8. ASSUME faults = 0, restarts = 0
          PROVE  TenantsAreComplete'
      BY <2>1, <2>3, <3>1, <3>2, <3>4, <3>6, <3>7, <3>8 DEF IInv, TenantsInv, TenantsAreComplete
    <3>9. ASSUME faults = 0, restarts = 0, NEW m \in Launches, launches'[m].next \in 2..5
          PROVE  /\ tenants'[launches'[m].at] = 1..(launches'[m].next - 1)
                 /\ \A o \in Launches :
                      launches'[o].at = launches'[m].at /\ launches'[o].next \in 2..5 => o = m
      <4>1. CASE m = l
        BY <2>1, <3>1, <3>4, <3>5, <3>7, <3>9, <4>1
      <4>2. CASE m # l
        <5>1. launches'[m] = launches[m] /\ launches[m].at # k
          BY <3>1, <3>7, <3>9, <4>2
        <5>2. launches[m].at \in Clusters
          BY <3>9, <5>1 DEF IInv, TypeOK, RentalsTypeOK, TenantsInv
        <5> QED
          BY <3>1, <3>4, <3>9, <4>2, <5>1, <5>2 DEF IInv, TenantsInv
      <4> QED
        BY <4>1, <4>2
    <3> QED
      BY <2>3, <3>2, <3>3, <3>8, <3>9 DEF TenantsInv
  <2> QED
    BY <2>2, <2>3 DEF EnsurePart
<1> QED
  BY <1>1, <1>2, <1>3, <1>4, <1>5 DEF IInv, TypeOK

\* A pod is created after EnsureTenant has returned.
LEMMA StepCreatePod ==
  ASSUME IInv, NEW l \in Launches, CreatePod(l)
  PROVE  IInv'
<1>1. TablesTypeOK' /\ HubTypeOK' /\ BoundsTypeOK' /\ RequestsInv' /\ IdsInv' /\
      EntriesAreBacked' /\ StoredConfigsLoad' /\ ServingInv' /\ SessionsNameTheSigner'
      /\ NoncesInv'
  BY DEF IInv, TypeOK, CreatePod, TablesTypeOK, HubTypeOK, BoundsTypeOK,
     RequestsInv, IdsInv, EntriesAreBacked, StoredConfigsLoad, ServingInv,
     SessionsNameTheSigner, NoncesInv, Known, ConfiguredAreServed,
     OneSessionPerNonce, SigningIn, hub, signin, rentals
<1>2. RentalsTypeOK'
  BY Constants DEF IInv, TypeOK, CreatePod, NotLaunching, RentalsTypeOK, HubTypeOK,
     Parts, ENSURED, rentals
<1>3. TenantsInv'
  BY Constants DEF IInv, TypeOK, CreatePod, NotLaunching, RentalsTypeOK,
     BoundsTypeOK, TenantsInv, TenantsAreComplete, Parts, ENSURED, rentals
<1> QED
  BY <1>1, <1>2, <1>3 DEF IInv, TypeOK

\* What start-up loads belongs to a row, and every row is loaded.
LEMMA StepRestart ==
  ASSUME IInv, Restart
  PROVE  IInv'
<1>1. TablesTypeOK' /\ StoredConfigsLoad' /\ SessionsNameTheSigner'
  BY DEF IInv, TypeOK, Restart, StartWatchers, TablesTypeOK, StoredConfigsLoad,
     SessionsNameTheSigner, hub, signin, rentals, Fault
<1>2. HubTypeOK'
  BY Constants DEF IInv, TypeOK, Restart, StartWatchers, NoRequest, NotLaunching, Loaded, Fault,
     TablesTypeOK, HubTypeOK, RequestsInv, Pcs, hub
<1>3. RentalsTypeOK'
  BY Constants DEF IInv, TypeOK, Restart, StartWatchers, NoRequest, NotLaunching, Loaded, Fault,
     RentalsTypeOK, HubTypeOK, Parts, ENSURED, rentals
<1>4. BoundsTypeOK'
  BY Constants DEF IInv, TypeOK, Restart, StartWatchers, NoRequest, NotLaunching, Loaded, Fault,
     BoundsTypeOK
<1>5. RequestsInv'
  BY Constants DEF IInv, TypeOK, Restart, StartWatchers, NoRequest, NotLaunching, Loaded, Fault,
     TablesTypeOK, HubTypeOK, RequestsInv, IdsInv, NoProvider
<1>6. IdsInv'
  BY Constants DEF IInv, TypeOK, Restart, StartWatchers, NoRequest, NotLaunching, Loaded, Fault,
     TablesTypeOK, HubTypeOK, RequestsInv, IdsInv, Known, NoProvider
<1>7. EntriesAreBacked'
  BY Constants DEF IInv, TypeOK, Restart, StartWatchers, NoRequest, NotLaunching, Loaded, Fault,
     TablesTypeOK, HubTypeOK, RequestsInv, EntriesAreBacked, NoProvider, hub
<1>8. ServingInv'
  BY Constants DEF IInv, TypeOK, Restart, StartWatchers, NoRequest, NotLaunching, Loaded, Fault,
     TablesTypeOK, HubTypeOK, BoundsTypeOK, RequestsInv, IdsInv, StoredConfigsLoad,
     ServingInv, ConfiguredAreServed, NoProvider, hub
<1>9. NoncesInv'
  BY Constants DEF IInv, TypeOK, Restart, StartWatchers, NoRequest, NotLaunching, Loaded, Fault,
     TablesTypeOK, HubTypeOK, RequestsInv, NoncesInv, OneSessionPerNonce, SigningIn,
     signin
<1>10. TenantsInv'
  BY Constants DEF IInv, TypeOK, Restart, StartWatchers, NoRequest, NotLaunching, Loaded, Fault,
     RentalsTypeOK, BoundsTypeOK, TenantsInv, TenantsAreComplete, Parts, ENSURED,
     rentals
<1> QED
  BY <1>1, <1>2, <1>3, <1>4, <1>5, <1>6, <1>7, <1>8, <1>9, <1>10 DEF IInv, TypeOK

-----------------------------------------------------------------------------
\* The invariant holds at the start.
LEMMA InitIInv == Init => IInv
<1> SUFFICES ASSUME Init PROVE IInv
  OBVIOUS
<1>1. TypeOK
  BY Constants DEF Init, TypeOK, TablesTypeOK, HubTypeOK, RentalsTypeOK, BoundsTypeOK, Parts,
     ENSURED, NotLaunching
<1>2. RequestsInv /\ IdsInv /\ EntriesAreBacked /\ StoredConfigsLoad
  BY Constants DEF Init, RequestsInv, IdsInv, EntriesAreBacked, StoredConfigsLoad, NoRequest,
     NoProvider, Known
<1>3. ServingInv /\ SessionsNameTheSigner /\ NoncesInv
  BY DEF Init, ServingInv, ConfiguredAreServed, SessionsNameTheSigner, NoncesInv,
     OneSessionPerNonce, SigningIn, NoRequest, NoProvider
<1>4. TenantsInv
  BY DEF Init, TenantsInv, TenantsAreComplete, NotLaunching
<1> QED
  BY <1>1, <1>2, <1>3, <1>4 DEF IInv

\* Every step preserves the invariant.
LEMMA NextIInv == IInv /\ [Next]_vars => IInv'
<1> SUFFICES ASSUME IInv, [Next]_vars PROVE IInv'
  OBVIOUS
<1>1. ASSUME NEW r \in Requests, Register(r) PROVE IInv'
  BY <1>1, StepLookup, StepRegisterCluster, StepUpdateProvider, StepCreateProvider,
     StepRemoveCluster DEF Register
<1>2. ASSUME NEW r \in Requests, SignIn(r) PROVE IInv'
  BY <1>2, StepLogin, StepLoginLookup, StepLoginInsert, StepCreateSession DEF SignIn
<1>3. ASSUME NEW n \in Nonces, GetNonce(n) \/ NonceExpires(n) PROVE IInv'
  BY <1>3, StepGetNonce, StepNonceExpires
<1>p. ASSUME NEW a \in Spellings, NEW i \in Ids, ProviderOfNode(a, i) PROVE IInv'
  BY <1>p, StepProviderOfNode
<1>4. ASSUME NEW l \in Launches, StartPod(l) PROVE IInv'
  BY <1>4, StepLaunch, StepEnsureNamespace, StepEnsurePart, StepCreatePod DEF StartPod
<1>5. CASE Restart
  BY <1>5, StepRestart
<1>6. CASE UNCHANGED vars
  <2>1. TypeOK' /\ RequestsInv' /\ IdsInv' /\ EntriesAreBacked' /\ StoredConfigsLoad'
    BY <1>6 DEF IInv, TypeOK, TablesTypeOK, HubTypeOK, RentalsTypeOK, BoundsTypeOK,
       RequestsInv, IdsInv, Known, EntriesAreBacked, StoredConfigsLoad, vars
  <2>2. ServingInv' /\ SessionsNameTheSigner' /\ NoncesInv' /\ TenantsInv'
    BY <1>6 DEF IInv, ServingInv, ConfiguredAreServed, SessionsNameTheSigner, NoncesInv,
       OneSessionPerNonce, SigningIn, TenantsInv, TenantsAreComplete, vars
  <2> QED
    BY <2>1, <2>2 DEF IInv
<1> QED
  BY <1>1, <1>2, <1>3, <1>p, <1>4, <1>5, <1>6 DEF Next

\* IInv holds in every reachable state.
THEOREM Invariance == Spec => []IInv
<1> QED
  BY InitIInv, NextIInv, PTL DEF Spec

\* Every variable keeps its type.
THEOREM TypeCorrect == Spec => []TypeOK
<1>1. IInv => TypeOK
  BY DEF IInv
<1> QED
  BY Invariance, <1>1, PTL

\* RegisterK8sProvider leaves no client without a provider: RemoveCluster
\* undoes RegisterCluster whenever Create fails.
THEOREM Backed == Spec => []EntriesAreBacked
<1>1. IInv => EntriesAreBacked
  BY DEF IInv
<1> QED
  BY Invariance, <1>1, PTL

\* A kubeconfig is stored only after RegisterCluster has parsed it.
THEOREM Loadable == Spec => []StoredConfigsLoad
<1>1. IInv => StoredConfigsLoad
  BY DEF IInv
<1> QED
  BY Invariance, <1>1, PTL

\* Until a call fails, what is stored is served: start-up registers every
\* stored kubeconfig, and only ids without a row are removed.
THEOREM Served == Spec => []ConfiguredAreServed
<1>1. IInv => ConfiguredAreServed
  BY DEF IInv, ServingInv, ConfiguredAreServed
<1> QED
  BY Invariance, <1>1, PTL

\* Login creates a session for the provider that the table has for the wallet.
THEOREM Signed == Spec => []SessionsNameTheSigner
<1>1. IInv => SessionsNameTheSigner
  BY DEF IInv
<1> QED
  BY Invariance, <1>1, PTL

\* ConsumeIfValid lets one of any number of logins with a nonce through.
THEOREM NonceOnce == Spec => []OneSessionPerNonce
<1>1. IInv => OneSessionPerNonce
  BY DEF IInv, NoncesInv
<1> QED
  BY Invariance, <1>1, PTL

\* The call of EnsureTenant that creates the namespace completes it.
THEOREM Complete == Spec => []TenantsAreComplete
<1>1. IInv => TenantsAreComplete
  BY DEF IInv, TenantsInv, TenantsAreComplete
<1> QED
  BY Invariance, <1>1, PTL
=============================================================================
