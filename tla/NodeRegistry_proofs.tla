------------------------ MODULE NodeRegistry_proofs ------------------------
(***************************************************************************)
(* Proofs about NodeRegistry, for any providers, clusters, connections and *)
(* requests and any number of faults.                                      *)
(***************************************************************************)
EXTENDS NodeRegistry, TLAPS

IInv == TypeOK /\ EntriesAreAlive

\* The facts about the constants that the steps need.
LEMMA Constants ==
  /\ \A w \in Workers : ClusterOf[w] \in Clustered /\ ClusterOf[w] \in Providers
  /\ \A n \in Cns : n # NONE /\ (n \in Providers \/ n \in RowIds)
  /\ K8sDefault \in AnyPrice /\ SyncDefault \in AnyPrice
  /\ \A c \in Conns : c \in Actors /\ c # NONE
  /\ \A r \in Requests : r \in Actors
  /\ \A k \in Trackers : k \in Actors
  /\ SYNC \in Actors
  /\ MaxFaults \in Nat
  BY RegistryAssumption DEF Clustered, RowIds, AnyPrice, Actors

-----------------------------------------------------------------------------
(* What is going to be written has the type of a write.                    *)

\* A row that exists has the type of a row.
LEMMA ExistingRow ==
  ASSUME TypeOK, NEW i \in RowIds, Exists(i)
  PROVE  rows[i] \in Row
  BY DEF TypeOK, TableTypeOK, Exists

\* Rows with another status can be written.
LEMMA WithStatusType ==
  ASSUME TypeOK, NEW I \in SUBSET RowIds, \A i \in I : Exists(i),
         NEW s \in {"active", "offline"}
  PROVE  WithStatus(I, s) \subseteq Writes
<1> SUFFICES ASSUME NEW i \in I
             PROVE  Edited(i, [rows[i] EXCEPT !.status = s]) \in Writes
  BY DEF WithStatus
<1>1. rows[i] \in Row
  BY ExistingRow
<1>2. [rows[i] EXCEPT !.status = s] \in Row
  BY <1>1 DEF Row
<1> QED
  BY <1>2 DEF Edited, Writes

\* A new row can be written.
LEMMA NewRowType ==
  ASSUME NEW i \in RowIds, NEW p \in Owners, NEW price \in AnyPrice
  PROVE  NewRow(i, p, price) \in Writes
<1>1. (IF i \in HttpRows THEN "set" ELSE "unset") \in {"unset", "set"}
  OBVIOUS
<1> QED
  BY <1>1 DEF NewRow, Writes, Row

\* GetByProvider returns rows.
LEMMA RowsOfType ==
  ASSUME NEW p
  PROVE  RowsOf(p) \in SUBSET RowIds /\ \A i \in RowsOf(p) : Exists(i)
  BY DEF RowsOf

\* What AutoRegisterNode writes without a provider
LEMMA GhostType ==
  ASSUME TypeOK, NEW n \in Cns
  PROVE  RegisterGhost(n) \subseteq Writes
<1> DEFINE i == <<GHOST, n>>
<1>1. i \in RowIds
  BY DEF RowIds, Ghosts
<1>2. CASE Exists(i)
  <2>1. WithStatus({i}, "active") \subseteq Writes
    BY <1>1, <1>2, WithStatusType
  <2> QED
    BY <1>2, <2>1 DEF RegisterGhost
<1>3. CASE ~Exists(i)
  <2>1. (IF n \in Providers THEN n ELSE GHOST) \in Owners
    BY DEF Owners
  <2>2. NewRow(i, IF n \in Providers THEN n ELSE GHOST, K8sDefault) \in Writes
    BY <1>1, <2>1, NewRowType, Constants
  <2> QED
    BY <1>3, <2>2 DEF RegisterGhost
<1> QED
  BY <1>2, <1>3

\* What the callbacks of a connection write
LEMMA CallbackTypes ==
  ASSUME TypeOK, NEW n \in Cns
  PROVE  /\ AutoRegister(n) \subseteq Writes
         /\ \A W \in AutoRegisterFailing(n) : W \subseteq Writes
         /\ Beats(n) \subseteq Writes
         /\ Offline(n) \subseteq Writes
<1>1. WithStatus(RowsOf(n), "active") \subseteq Writes /\ WithStatus(RowsOf(n), "offline") \subseteq Writes
  BY RowsOfType, WithStatusType
<1>2. RegisterGhost(n) \subseteq Writes
  BY GhostType
<1>3. Offline(n) \subseteq Writes
  <2>1. CASE n \in Providers
    BY <1>1, <2>1 DEF Offline
  <2>2. CASE n \notin Providers
    <3>1. {i \in {n} : Exists(i)} \in SUBSET RowIds
      BY <2>2, Constants
    <3>2. WithStatus({i \in {n} : Exists(i)}, "offline") \subseteq Writes
      BY <3>1, WithStatusType
    <3> QED
      BY <2>2, <3>2 DEF Offline
  <2> QED
    BY <2>1, <2>2
<1> QED
  BY <1>1, <1>2, <1>3 DEF AutoRegister, AutoRegisterFailing, Beats

\* Loading keeps the types of the table and of the writes.
LEMMA LoadType ==
  ASSUME TypeOK, NEW a \in Actors, NEW W \in SUBSET Writes, Load(a, W)
  PROVE  TableTypeOK'
  BY DEF TypeOK, TableTypeOK, Load

\* The count of faults stays within its bound.
LEMMA FaultType ==
  ASSUME BoundsTypeOK, Fault \/ UNCHANGED faults
  PROVE  BoundsTypeOK'
  BY Constants DEF BoundsTypeOK, Fault

-----------------------------------------------------------------------------
(* The steps.                                                              *)

\* What an actor that is neither a connection nor the sync worker's round
\* leaves alone keeps its part of the invariant.
LEMMA LoadStep ==
  ASSUME IInv, NEW a \in Actors, NEW W \in SUBSET Writes, Load(a, W),
         UNCHANGED <<conn, clients, sync>>, Fault \/ UNCHANGED faults,
         todo' \in [Actors -> SUBSET Workers], known' \subseteq Workers
  PROVE  IInv'
<1>1. TableTypeOK'
  BY LoadType DEF IInv
<1>2. WorkersTypeOK'
  BY DEF IInv, TypeOK, WorkersTypeOK, Load
<1>3. ServerTypeOK' /\ EntriesAreAlive'
  BY DEF IInv, TypeOK, ServerTypeOK, EntriesAreAlive
<1>4. BoundsTypeOK'
  BY FaultType DEF IInv, TypeOK
<1> QED
  BY <1>1, <1>2, <1>3, <1>4 DEF IInv, TypeOK

\* A write stores a row of the right type.
LEMMA StepWrite ==
  ASSUME IInv, NEW a \in Actors, NEW x, Write(a, x)
  PROVE  IInv'
<1>1. x \in Writes
  BY DEF IInv, TypeOK, TableTypeOK, Write
<1>2. Accepted(x) => Stored(x) \in Row
  <2>1. CASE x.new
    BY <1>1, <2>1 DEF Stored, Writes
  <2>2. CASE ~x.new
    <3>1. Accepted(x) => rows[x.id] \in Row
      BY <1>1, <2>2, ExistingRow DEF Accepted, Writes, IInv
    <3>2. x.row \in Row /\ x.id \in RowIds
      BY <1>1 DEF Writes
    <3>3. Stored(x) = [x.row EXCEPT !.owner = rows[x.id].owner]
      BY <2>2 DEF Stored
    <3> QED
      BY <3>1, <3>2, <3>3 DEF Row
  <2> QED
    BY <2>1, <2>2
<1>3. rows' \in [RowIds -> Row \cup {NoRow}]
  BY <1>1, <1>2 DEF IInv, TypeOK, TableTypeOK, Write, Writes
<1>4. TableTypeOK'
  BY <1>3 DEF IInv, TypeOK, TableTypeOK, Write
<1>5. WorkersTypeOK' /\ ServerTypeOK' /\ EntriesAreAlive'
  BY DEF IInv, TypeOK, WorkersTypeOK, ServerTypeOK, EntriesAreAlive, Write
<1>6. BoundsTypeOK'
  BY FaultType DEF IInv, TypeOK, Write
<1> QED
  BY <1>4, <1>5, <1>6 DEF IInv, TypeOK

\* A new connection replaces the entry of its name by one that is alive.
LEMMA StepAccept ==
  ASSUME IInv, NEW c \in Conns, NEW n \in Cns, Accept(c, n)
  PROVE  IInv'
<1>1. TableTypeOK'
  BY Constants, CallbackTypes, LoadType DEF IInv, Accept
<1>2. WorkersTypeOK'
  BY DEF IInv, TypeOK, WorkersTypeOK, Accept, Load
<1>3. ServerTypeOK'
  BY DEF IInv, TypeOK, ServerTypeOK, Accept
<1>4. EntriesAreAlive'
  BY Constants DEF IInv, TypeOK, ServerTypeOK, EntriesAreAlive, Accept
<1>5. BoundsTypeOK'
  BY FaultType DEF IInv, TypeOK, Accept
<1> QED
  BY <1>1, <1>2, <1>3, <1>4, <1>5 DEF IInv, TypeOK

\* A heartbeat only writes rows.
LEMMA StepHeartbeat ==
  ASSUME IInv, NEW c \in Conns, Heartbeat(c)
  PROVE  IInv'
<1>1. c \in Actors /\ conn[c] \in Cns
  BY Constants DEF IInv, TypeOK, ServerTypeOK, Heartbeat
<1>2. \E W \in SUBSET Writes : Load(c, W)
  BY <1>1, CallbackTypes DEF IInv, Heartbeat
<1>3. todo' \in [Actors -> SUBSET Workers] /\ known' \subseteq Workers
  BY DEF IInv, TypeOK, WorkersTypeOK, Heartbeat
<1> QED
  BY <1>1, <1>2, <1>3, LoadStep DEF Heartbeat

\* The deferred function deletes the entry of its name, whoever it belongs to,
\* so that no entry is left of the handler that ends.
LEMMA StepDrop ==
  ASSUME IInv, NEW c \in Conns, Drop(c)
  PROVE  IInv'
<1>1. c \in Actors /\ conn[c] \in Cns
  BY Constants DEF IInv, TypeOK, ServerTypeOK, Drop
<1>2. TableTypeOK'
  BY <1>1, CallbackTypes, LoadType DEF IInv, Drop
<1>3. WorkersTypeOK'
  BY DEF IInv, TypeOK, WorkersTypeOK, Drop, Load
<1>4. ServerTypeOK'
  BY DEF IInv, TypeOK, ServerTypeOK, Drop
<1>5. EntriesAreAlive'
  BY Constants DEF IInv, TypeOK, ServerTypeOK, EntriesAreAlive, Drop
<1>6. BoundsTypeOK'
  BY FaultType DEF IInv, TypeOK, Drop
<1> QED
  BY <1>2, <1>3, <1>4, <1>5, <1>6 DEF IInv, TypeOK

\* A registration over HTTP edits a row or makes a new one.
LEMMA StepRegisterNode ==
  ASSUME IInv, NEW r \in Requests, NEW p \in Providers, NEW g \in Gpus, NEW price \in Prices,
         RegisterNode(r, p, g, price)
  PROVE  IInv'
<1>1. <<p, g>> \in RowIds /\ p \in Owners /\ price \in AnyPrice
  BY DEF RowIds, HttpRows, Owners, AnyPrice
<1>2. {NewRow(<<p, g>>, p, price)} \subseteq Writes
  BY <1>1, NewRowType
<1>3. ASSUME NEW i \in RowIds, Exists(i)
      PROVE  {Edited(i, [rows[i] EXCEPT !.owner = p, !.price = price, !.status = "active",
                                         !.endpoint = "set"])} \subseteq Writes
  <2>1. rows[i] \in Row
    BY <1>3, ExistingRow DEF IInv
  <2>2. [rows[i] EXCEPT !.owner = p, !.price = price, !.status = "active",
                        !.endpoint = "set"] \in Row
    BY <1>1, <2>1 DEF Row
  <2> QED
    BY <2>2 DEF Edited, Writes
<1>4. \E W \in SUBSET Writes : Load(r, W)
  BY <1>2, <1>3 DEF RegisterNode
<1>5. todo' \in [Actors -> SUBSET Workers] /\ known' \subseteq Workers
  BY DEF IInv, TypeOK, WorkersTypeOK, RegisterNode
<1> QED
  BY <1>4, <1>5, LoadStep, Constants DEF RegisterNode

\* The owner of a row changes its price.
LEMMA StepUpdateNodePricing ==
  ASSUME IInv, NEW r \in Requests, NEW p \in Providers, NEW i \in RowIds, NEW price \in Prices,
         UpdateNodePricing(r, p, i, price)
  PROVE  IInv'
<1>1. rows[i] \in Row /\ price \in AnyPrice
  BY ExistingRow DEF IInv, UpdateNodePricing, Owns, AnyPrice
<1>2. [rows[i] EXCEPT !.price = price] \in Row
  BY <1>1 DEF Row
<1>3. {Edited(i, [rows[i] EXCEPT !.price = price])} \subseteq Writes
  BY <1>2 DEF Edited, Writes
<1>4. todo' \in [Actors -> SUBSET Workers] /\ known' \subseteq Workers
  BY DEF IInv, TypeOK, WorkersTypeOK, UpdateNodePricing
<1> QED
  BY <1>3, <1>4, LoadStep, Constants DEF UpdateNodePricing

\* A certificate activates the row it is for.
LEMMA StepIssueCertificate ==
  ASSUME IInv, NEW r \in Requests, NEW p \in Providers, NEW i \in RowIds,
         IssueCertificate(r, p, i)
  PROVE  IInv'
<1>1. WithStatus({i}, "active") \subseteq Writes
  BY WithStatusType DEF IInv, IssueCertificate, Owns
<1>2. todo' \in [Actors -> SUBSET Workers] /\ known' \subseteq Workers
  BY DEF IInv, TypeOK, WorkersTypeOK, IssueCertificate
<1> QED
  BY <1>1, <1>2, LoadStep, Constants DEF IssueCertificate

\* A listing is a set of workers.
LEMMA StepDiscover ==
  ASSUME IInv, NEW r \in Requests, NEW p, Discover(r, p)
  PROVE  IInv'
<1>1. Listed(p, {"ready"}) \subseteq Workers
  BY DEF Listed
<1>2. WorkersTypeOK'
  BY <1>1 DEF IInv, TypeOK, WorkersTypeOK, Discover
<1> QED
  BY <1>2 DEF IInv, TypeOK, TableTypeOK, ServerTypeOK, BoundsTypeOK, EntriesAreAlive, Discover

\* What discovery and the sync worker write for a worker
LEMMA WorkerTypes ==
  ASSUME TypeOK, NEW w \in Workers, NEW price \in AnyPrice
  PROVE  /\ Exists(w) => WithStatus({w}, "active") \subseteq Writes
         /\ {NewRow(w, ClusterOf[w], price)} \subseteq Writes
<1>1. w \in RowIds /\ ClusterOf[w] \in Owners
  BY Constants DEF RowIds, Owners
<1>2. Exists(w) => WithStatus({w}, "active") \subseteq Writes
  BY <1>1, WithStatusType
<1>3. NewRow(w, ClusterOf[w], price) \in Writes
  BY <1>1, NewRowType
<1> QED
  BY <1>2, <1>3

\* Discovery handles one worker.
LEMMA StepDiscoverWorker ==
  ASSUME IInv, NEW r \in Requests, NEW w \in Workers, DiscoverWorker(r, w)
  PROVE  IInv'
<1>1. \E W \in SUBSET Writes : Load(r, W)
  BY WorkerTypes, Constants DEF IInv, DiscoverWorker
<1>2. todo' \in [Actors -> SUBSET Workers] /\ known' \subseteq Workers
  BY DEF IInv, TypeOK, WorkersTypeOK, DiscoverWorker
<1> QED
  BY <1>1, <1>2, LoadStep, Constants DEF DiscoverWorker

\* A round of the sync worker changes its own state and what it will write.
LEMMA StepSync ==
  ASSUME IInv, SyncStep
  PROVE  IInv'
<1>1. CASE SyncAll
  <2>1. WorkersTypeOK'
    BY <1>1 DEF IInv, TypeOK, WorkersTypeOK, SyncAll
  <2> QED
    BY <1>1, <2>1 DEF IInv, TypeOK, TableTypeOK, ServerTypeOK, BoundsTypeOK, EntriesAreAlive, SyncAll
<1>2. ASSUME NEW p \in Clustered, SyncList(p) PROVE IInv'
  <2>1. Listed(p, {"ready"}) \subseteq Workers /\ Listed(p, {"ready", "notReady"}) \subseteq Workers
    BY DEF Listed
  <2>2. WorkersTypeOK'
    BY <1>2, <2>1, Constants DEF IInv, TypeOK, WorkersTypeOK, SyncList
  <2>3. BoundsTypeOK'
    BY <1>2, FaultType DEF IInv, TypeOK, SyncList
  <2> QED
    BY <1>2, <2>2, <2>3 DEF IInv, TypeOK, TableTypeOK, ServerTypeOK, EntriesAreAlive, SyncList
<1>3. ASSUME NEW w \in Workers, SyncWorker(w) PROVE IInv'
  <2>1. \E W \in SUBSET Writes : Load(SYNC, W)
    BY <1>3, WorkerTypes, Constants DEF IInv, SyncWorker, SyncEdits
  <2>2. todo' \in [Actors -> SUBSET Workers] /\ known' \subseteq Workers
    BY <1>3 DEF IInv, TypeOK, WorkersTypeOK, SyncWorker
  <2> QED
    BY <1>3, <2>1, <2>2, LoadStep, Constants DEF SyncWorker
<1>4. CASE SyncSweep
  <2>1. Vanished \in SUBSET RowIds /\ \A i \in Vanished : Exists(i)
    BY RowsOfType DEF Vanished
  <2>2. WithStatus(Vanished, "offline") \subseteq Writes
    BY <2>1, WithStatusType DEF IInv
  <2>3. TableTypeOK'
    BY <1>4, <2>2, LoadType, Constants DEF IInv, SyncSweep
  <2>4. WorkersTypeOK'
    BY <1>4 DEF IInv, TypeOK, WorkersTypeOK, SyncSweep, SyncIdle, Load
  <2>5. BoundsTypeOK'
    BY <1>4, FaultType DEF IInv, TypeOK, SyncSweep
  <2> QED
    BY <1>4, <2>3, <2>4, <2>5 DEF IInv, TypeOK, ServerTypeOK, EntriesAreAlive, SyncSweep
<1> QED
  BY <1>1, <1>2, <1>3, <1>4 DEF SyncStep

\* The capacity tracker loads rows and writes them back.
LEMMA StepTracker ==
  ASSUME IInv, NEW k \in Trackers, Tracker(k)
  PROVE  IInv'
<1>1. ASSUME NEW I \in SUBSET RowIds, \A i \in I : Exists(i)
      PROVE  Copies(I) \subseteq Writes
  <2> SUFFICES ASSUME NEW i \in I
               PROVE  Edited(i, rows[i]) \in Writes
    BY DEF Copies
  <2>1. i \in RowIds /\ rows[i] \in Row
    BY <1>1, ExistingRow DEF IInv
  <2> QED
    BY <2>1 DEF Edited, Writes
<1>2. k \in Actors
  BY Constants
<1>3. ASSUME NEW p \in Clustered, DiscoverCapacity(k, p) PROVE IInv'
  <2>1. Copies(RowsOf(p) \cap known') \subseteq Writes
    BY <1>1, RowsOfType
  <2>2. \E W \in SUBSET Writes : Load(k, W)
    BY <1>3, <2>1 DEF DiscoverCapacity
  <2>3. Listed(p, {"ready"}) \subseteq Workers
    BY DEF Listed
  <2>4. todo' \in [Actors -> SUBSET Workers] /\ known' \subseteq Workers
    BY <1>3, <2>3 DEF IInv, TypeOK, WorkersTypeOK, DiscoverCapacity
  <2> QED
    BY <1>2, <1>3, <2>2, <2>4, LoadStep DEF DiscoverCapacity
<1>4. ASSUME NEW w \in Workers, SyncSingleNodeToDB(k, w) PROVE IInv'
  <2>1. Copies(RowsOf(ClusterOf[w]) \cap {w}) \subseteq Writes
    BY <1>1, RowsOfType
  <2>2. todo' \in [Actors -> SUBSET Workers] /\ known' \subseteq Workers
    BY <1>4 DEF IInv, TypeOK, WorkersTypeOK, SyncSingleNodeToDB
  <2> QED
    BY <1>2, <1>4, <2>1, <2>2, LoadStep DEF SyncSingleNodeToDB
<1> QED
  BY <1>3, <1>4 DEF Tracker

\* A worker changes.
LEMMA StepCluster ==
  ASSUME IInv, NEW w \in Workers, NEW s \in {"ready", "notReady", "absent"}, ClusterChanges(w, s)
  PROVE  IInv'
<1>1. WorkersTypeOK'
  BY DEF IInv, TypeOK, WorkersTypeOK, ClusterChanges
<1> QED
  BY <1>1 DEF IInv, TypeOK, TableTypeOK, ServerTypeOK, BoundsTypeOK, EntriesAreAlive, ClusterChanges

\* After a crash no connection is open and the map is empty.
LEMMA StepCrash ==
  ASSUME IInv, Crash
  PROVE  IInv'
<1>1. TableTypeOK' /\ WorkersTypeOK'
  BY DEF IInv, TypeOK, TableTypeOK, WorkersTypeOK, Crash, SyncIdle
<1>2. ServerTypeOK' /\ EntriesAreAlive'
  BY DEF IInv, ServerTypeOK, EntriesAreAlive, Crash
<1>3. BoundsTypeOK'
  BY FaultType DEF IInv, TypeOK, Crash
<1> QED
  BY <1>1, <1>2, <1>3 DEF IInv, TypeOK

\* A step of a request
LEMMA StepRequest ==
  ASSUME IInv, NEW r \in Requests, Request(r)
  PROVE  IInv'
  BY StepRegisterNode, StepUpdateNodePricing, StepIssueCertificate, StepDiscover DEF Request

-----------------------------------------------------------------------------
\* The invariant holds at the start.
LEMMA InitIInv == Init => IInv
<1> SUFFICES ASSUME Init PROVE IInv
  OBVIOUS
<1>1. TableTypeOK /\ WorkersTypeOK
  BY DEF Init, TableTypeOK, WorkersTypeOK, SyncIdle
<1>2. ServerTypeOK /\ BoundsTypeOK /\ EntriesAreAlive
  BY Constants DEF Init, ServerTypeOK, BoundsTypeOK, EntriesAreAlive
<1> QED
  BY <1>1, <1>2 DEF IInv, TypeOK

\* Every step preserves the invariant.
LEMMA NextIInv == IInv /\ [Next]_vars => IInv'
<1> SUFFICES ASSUME IInv, [Next]_vars PROVE IInv'
  OBVIOUS
<1>1. ASSUME NEW a \in Actors, Save(a) PROVE IInv'
  BY <1>1, StepWrite DEF Save
<1>2. ASSUME NEW c \in Conns, Heartbeat(c) \/ Drop(c) \/ \E n \in Cns : Accept(c, n) PROVE IInv'
  BY <1>2, StepHeartbeat, StepDrop, StepAccept
<1>3. ASSUME NEW r \in Requests, Request(r) \/ \E w \in Workers : DiscoverWorker(r, w) PROVE IInv'
  BY <1>3, StepRequest, StepDiscoverWorker
<1>4. CASE SyncStep
  BY <1>4, StepSync
<1>5. ASSUME NEW w \in Workers, NEW s \in {"ready", "notReady", "absent"}, ClusterChanges(w, s)
      PROVE  IInv'
  BY <1>5, StepCluster
<1>6. CASE Crash \/ \E k \in Trackers : Tracker(k)
  BY <1>6, StepCrash, StepTracker
<1>7. CASE UNCHANGED vars
  BY <1>7 DEF IInv, TypeOK, TableTypeOK, WorkersTypeOK, ServerTypeOK, BoundsTypeOK,
     EntriesAreAlive, vars
<1> QED
  BY <1>1, <1>2, <1>3, <1>4, <1>5, <1>6, <1>7 DEF Next

\* IInv holds in every reachable state.
THEOREM Invariance == Spec => []IInv
<1> QED
  BY InitIInv, NextIInv, PTL DEF Spec

\* Every variable keeps its type.
THEOREM TypeCorrect == Spec => []TypeOK
<1>1. IInv => TypeOK
  BY DEF IInv
<1> QED
  BY Invariance, <1>1, PTL

\* handleConnection's Store and its deferred Delete keep the map of clients
\* to handlers that still read, however connections of one name overlap.
THEOREM Alive == Spec => []EntriesAreAlive
<1>1. IInv => EntriesAreAlive
  BY DEF IInv
<1> QED
  BY Invariance, <1>1, PTL

-----------------------------------------------------------------------------
(* Who owns a row.                                                         *)

\* A row keeps its owner in every step.
KeepsOwners == \A i \in RowIds : Exists(i) => rows'[i].owner = rows[i].owner

\* A write keeps it: an INSERT makes a row that did not exist, an UPDATE
\* does not write provider_id.
LEMMA WriteKeepsOwners ==
  ASSUME TypeOK, NEW a \in Actors, NEW x, Write(a, x)
  PROVE  KeepsOwners
<1>1. x \in Writes
  BY DEF TypeOK, TableTypeOK, Write
<1>2. CASE Accepted(x) /\ rows' = [rows EXCEPT ![x.id] = Stored(x)]
  <2>1. SUFFICES ASSUME NEW i \in RowIds, Exists(i) PROVE rows'[i].owner = rows[i].owner
    BY DEF KeepsOwners
  <2>2. CASE i # x.id
    BY <1>2, <2>2 DEF TypeOK, TableTypeOK
  <2>3. CASE i = x.id
    <3>1. ~x.new
      BY <1>2, <2>1, <2>3 DEF Accepted
    <3>2. Stored(x) = [x.row EXCEPT !.owner = rows[x.id].owner] /\ x.row \in Row
      BY <1>1, <3>1 DEF Stored, Writes
    <3>3. Stored(x).owner = rows[x.id].owner
      BY <3>2 DEF Row
    <3> QED
      BY <1>2, <2>3, <3>3 DEF TypeOK, TableTypeOK
  <2> QED
    BY <2>2, <2>3
<1>3. CASE UNCHANGED rows
  BY <1>3 DEF KeepsOwners
<1> QED
  BY <1>2, <1>3 DEF Write

\* Every other step leaves the table alone.
LEMMA NextKeepsOwners == TypeOK /\ [Next]_vars => KeepsOwners
<1> SUFFICES ASSUME TypeOK, [Next]_vars PROVE KeepsOwners
  OBVIOUS
<1>1. ASSUME NEW a \in Actors, Save(a) PROVE KeepsOwners
  BY <1>1, WriteKeepsOwners DEF Save
<1>2. ASSUME NEW c \in Conns, Heartbeat(c) \/ Drop(c) \/ \E n \in Cns : Accept(c, n)
      PROVE  UNCHANGED rows
  BY <1>2 DEF Heartbeat, Drop, Accept, Load
<1>3. ASSUME NEW r \in Requests, Request(r) \/ \E w \in Workers : DiscoverWorker(r, w)
      PROVE  UNCHANGED rows
  BY <1>3 DEF Request, RegisterNode, UpdateNodePricing, IssueCertificate, Discover,
     DiscoverWorker, Load
<1>4. SyncStep => UNCHANGED rows
  BY DEF SyncStep, SyncAll, SyncSweep, SyncList, SyncWorker, Load
<1>5. ASSUME NEW w, NEW s, ClusterChanges(w, s) PROVE UNCHANGED rows
  BY <1>5 DEF ClusterChanges
<1>6. Crash \/ (\E k \in Trackers : Tracker(k)) \/ UNCHANGED vars => UNCHANGED rows
  BY DEF Crash, vars, Tracker, DiscoverCapacity, SyncSingleNodeToDB, Load
<1>7. UNCHANGED rows => KeepsOwners
  BY DEF KeepsOwners
<1> QED
  BY <1>1, <1>2, <1>3, <1>4, <1>5, <1>6, <1>7 DEF Next

\* Whoever writes a row, with however old a copy, it keeps its owner.
THEOREM Owned == Spec => OwnersAreForever
<1>1. TypeOK /\ [Next]_vars => [KeepsOwners]_vars
  BY NextKeepsOwners
<1> QED
  BY TypeCorrect, <1>1, PTL DEF Spec, OwnersAreForever, KeepsOwners
=============================================================================
