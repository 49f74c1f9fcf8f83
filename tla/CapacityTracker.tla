--------------------------- MODULE CapacityTracker ---------------------------
(***************************************************************************)
(* CapacityTracker: the hub's in-memory account of what is free on one     *)
(* Kubernetes node, and the copy of it in the table nodes.  The tracker is *)
(* locked, but what it accounts for is not: K8sJobExecutor reserves before *)
(* it creates a pod and releases after it has deleted one, the expiration  *)
(* monitor releases by itself, DiscoverCapacity counts the running pods    *)
(* without the lock and then replaces the account, and every change starts *)
(* a goroutine that copies the free GPUs to the database.  The reservation *)
(* is in whole GPUs, cores and GB, the pod requests half a core and half a *)
(* GB less, and the monitor and DiscoverCapacity round these requests.     *)
(*                                                                         *)
(* Nodes are independent of each other, so there is one.  A node has one   *)
(* GPU model, which every GPU type falls back to.                          *)
(***************************************************************************)
EXTENDS Naturals, FiniteSets

CONSTANTS
  Sessions,
  Total,      \* [Resources -> Nat]: what the node has
  Asked,      \* [Sessions -> [Resources -> Nat]]: what the session asks for, or
              \* the default, which is the same at its creation and its deletion
  Syncs,      \* goroutines that copy to the database at a time (a bound); none
              \* when the copies are left out
  MaxCreates, \* [Sessions -> Nat]: bound on the attempts to create its pod
  MaxDeletes, \* [Sessions -> Nat]: bound on the attempts to delete its pod
  MaxFaults   \* bound on crashes and on failing calls to the cluster

\* The order in which AllocateResources reserves.
Order == <<"gpu", "cpu", "mem">>
Resources == {"gpu", "cpu", "mem"}

ASSUME CapacityAssumption ==
  /\ Total \in [Resources -> Nat]
  /\ Total["cpu"] > 0 /\ Total["mem"] > 0
  /\ Asked \in [Sessions -> [Resources -> Nat \ {0}]]
  /\ MaxCreates \in [Sessions -> Nat] /\ MaxDeletes \in [Sessions -> Nat]
  /\ MaxFaults \in Nat
  /\ IsFiniteSet(Sessions) /\ "none" \notin Sessions

NONE == "none"

VARIABLES
  avail, inUse,  \* the account: [Resources -> Nat]
  pods,          \* phase of each session's pod
  terminating,   \* pods with a deletion timestamp
  secrets,       \* sessions whose SSH secret exists
  creating,      \* the session CreateGPUSession works on, how far, and if it reserved
  releasing,     \* deletions whose ReleaseResources is still to come
  listed,        \* pods the expiration monitor has listed for deletion
  count,         \* the pods DiscoverCapacity has counted
  sync,          \* what each copying goroutine is about to write
  db,            \* nodes.available_gpus
  creates, deletes, faults,
  lost           \* history: what was reserved and will not be released again

account == <<avail, inUse>>
cluster == <<pods, terminating, secrets>>
bounds  == <<creates, deletes, faults>>
vars == <<avail, inUse, pods, terminating, secrets, creating, releasing, listed, count,
          sync, db, creates, deletes, faults, lost>>

Phases == {"none", "pending", "running", "exited"}
Amounts == [Resources -> Nat]

AccountTypeOK == avail \in Amounts /\ inUse \in Amounts

LostTypeOK == lost \in Amounts

ClusterTypeOK ==
  /\ pods \in [Sessions -> Phases]
  /\ terminating \subseteq Sessions
  /\ secrets \subseteq Sessions

WorkTypeOK ==
  /\ creating \in [s: Sessions \cup {NONE}, pc: {"idle", "secret", "pod", "undo"},
                  reserved: {"no", "yes"}]
  /\ creating.pc # "idle" => creating.s \in Sessions
  /\ releasing \in [Sessions -> Nat]
  /\ listed \in [Sessions -> {"no", "unplaced", "placed"}]

CopyTypeOK ==
  /\ count \in [known: BOOLEAN, pods: SUBSET Sessions]
  /\ sync \in [Syncs -> [pc: {"idle", "read", "write"}, gpus: Nat]]
  /\ db \in Nat

BoundsTypeOK ==
  /\ creates \in [Sessions -> Nat] /\ deletes \in [Sessions -> Nat]
  /\ faults \in 0..MaxFaults

TypeOK ==
  /\ AccountTypeOK /\ LostTypeOK /\ ClusterTypeOK
  /\ WorkTypeOK /\ CopyTypeOK /\ BoundsTypeOK

Nothing == [r \in Resources |-> 0]
NotCreating == [s |-> NONE, pc |-> "idle", reserved |-> "no"]
NotCounted == [known |-> FALSE, pods |-> {}]
NoSync == [pc |-> "idle", gpus |-> 0]

Init ==
  /\ avail = Total /\ inUse = Nothing
  /\ pods = [s \in Sessions |-> "none"]
  /\ terminating = {}
  /\ secrets = {}
  /\ creating = NotCreating
  /\ releasing = [s \in Sessions |-> 0]
  /\ listed = [s \in Sessions |-> "no"]
  /\ count = NotCounted
  /\ sync = [g \in Syncs |-> NoSync]
  /\ db = Total["gpu"]
  /\ lost = Nothing
  /\ creates = [s \in Sessions |-> 0]
  /\ deletes = [s \in Sessions |-> 0]
  /\ faults = 0

Fault == faults < MaxFaults /\ faults' = faults + 1

\* The worker caps what a session asks for to what the node has.
Need == [s \in Sessions |-> [r \in Resources |->
           IF Asked[s][r] > Total[r] THEN Total[r] ELSE Asked[s][r]]]

\* What buildResourceRequirements requests for the pod: half a core and half a
\* GB less than the session gets, in halves, and its GPUs.
Halves(r) == IF r = "gpu" THEN 1 ELSE 2
Requested == [s \in Sessions |-> [r \in Resources |->
                IF r = "gpu" THEN Need[s][r] ELSE 2 * Need[s][r] - 1]]

\* What extractPodResources makes of these requests: Value() rounds the cores
\* up, the division rounds the GB down.
Extracted == [s \in Sessions |-> [r \in Resources |->
                IF r = "mem" THEN Need[s][r] - 1 ELSE Need[s][r]]]

\* The units of r that the sessions of S have together by the amounts f, and
\* how many they are.
Units(f, S, r) == {u \in S \X (1..2 * Total[r]) : u[2] <= f[u[1]][r]}
Sum(f, S) == [r \in Resources |-> Cardinality(Units(f, S, r))]

Running == {s \in Sessions : pods[s] = "running"}

Exists(s) == pods[s] # "none" /\ s \notin terminating

\* The sessions a reservation may be for: their pod is there to stay, is being
\* created, or was deleted and the release is still to come.
Held == {s \in Sessions : \/ Exists(s)
                          \/ creating.s = s /\ creating.reserved = "yes"
                          \/ releasing[s] > 0}

\* A step that gives the amounts back: what s was held for beyond them is lost.
Lose(s, amounts) ==
  lost' = [r \in Resources |->
             lost[r] + (IF s \in Held \ Held' THEN Need[s][r] - amounts[r] ELSE 0)]

-----------------------------------------------------------------------------
(* The account.  All of this happens under t.mu.                           *)

\* go t.syncSingleNodeToDB
StartSync ==
  \/ \E g \in Syncs : /\ sync[g].pc = "idle"
                      /\ sync' = [sync EXCEPT ![g].pc = "read"]
  \/ Syncs = {} /\ UNCHANGED sync

Fits(s) == \A r \in Resources : Need[s][r] <= avail[r]

\* What AllocateResources had reserved before the step that fails ...
Reserved(s, r) ==
  LET i == CHOOSE j \in 1..3 : Order[j] = r
  IN  IF \A j \in 1..i : Need[s][Order[j]] <= avail[Order[j]] THEN Need[s][r] ELSE 0

\* Mutant: a failing memory step does not give the CPU back.
GivenBackGPU(s, r) == IF r = "gpu" THEN Reserved(s, r) ELSE 0

\* ... and what that step gives back.
GivenBack(s, r) == Reserved(s, r)

AllocateResources(s) ==
  /\ avail' = [r \in Resources |->
                 IF Fits(s) THEN avail[r] - Need[s][r]
                            ELSE avail[r] - Reserved(s, r) + GivenBack(s, r)]
  /\ inUse' = [r \in Resources |->
                 IF Fits(s) THEN inUse[r] + Need[s][r]
                            ELSE inUse[r] + Reserved(s, r) - GivenBack(s, r)]

\* What is in use after n units of r are given back: "safe decrement".
Decrement(r, n) == IF inUse[r] < n THEN 0 ELSE inUse[r] - n

\* Mutants: what is available is not clamped to the total; what is in use is
\* not clamped to zero.
ReleaseUnclamped(amounts) ==
  /\ avail' = [r \in Resources |-> avail[r] + amounts[r]]
  /\ inUse' = [r \in Resources |-> Decrement(r, amounts[r])]
  /\ StartSync
ReleaseBelowZero(amounts) ==
  /\ avail' = [r \in Resources |->
                 IF avail[r] + amounts[r] > Total[r] THEN Total[r] ELSE avail[r] + amounts[r]]
  /\ inUse' = [r \in Resources |-> inUse[r] - amounts[r]]
  /\ StartSync

ReleaseResources(amounts) ==
  /\ avail' = [r \in Resources |->
                 IF avail[r] + amounts[r] > Total[r] THEN Total[r] ELSE avail[r] + amounts[r]]
  /\ inUse' = [r \in Resources |-> Decrement(r, amounts[r])]
  /\ StartSync

-----------------------------------------------------------------------------
(* K8sJobExecutor.CreateGPUSession, called by the confirmation worker: one *)
(* at a time.                                                              *)

\* The reservation comes before the check whether the pod exists.  If the node
\* cannot be resolved, there is none; nothing happens at all if there is no
\* client or if the tenant's namespace cannot be made.
Create(s) ==
  /\ creating = NotCreating /\ creates[s] < MaxCreates[s]
  /\ creates' = [creates EXCEPT ![s] = @ + 1]
  /\ \/ /\ Fits(s)
        /\ AllocateResources(s)
        /\ creating' = [s |-> s, pc |-> "secret", reserved |-> "yes"]
        /\ lost' = [r \in Resources |-> lost[r] + (IF s \in Held THEN Need[s][r] ELSE 0)]
        /\ StartSync
        /\ UNCHANGED faults
     \/ /\ ~Fits(s)
        /\ AllocateResources(s)
        /\ UNCHANGED <<creating, sync, lost, faults>>
     \/ /\ creating' = [s |-> s, pc |-> "secret", reserved |-> "no"]
        /\ Fault
        /\ UNCHANGED <<account, sync, lost>>
  /\ UNCHANGED <<cluster, releasing, listed, count, db, deletes>>

\* JobManager.CreateGPUSession keeps an existing pod.  Otherwise it creates the
\* SSH secret, which fails if the secret exists.
CreateSecret ==
  LET s == creating.s IN
  /\ creating.pc = "secret"
  /\ \/ /\ Exists(s)
        /\ creating' = NotCreating
        /\ UNCHANGED <<secrets, faults>>
     \/ /\ ~Exists(s) /\ s \notin secrets
        /\ secrets' = secrets \cup {s}
        /\ creating' = [creating EXCEPT !.pc = "pod"]
        /\ UNCHANGED faults
     \/ /\ ~Exists(s) /\ s \in secrets
        /\ creating' = [creating EXCEPT !.pc = "undo"]
        /\ UNCHANGED <<secrets, faults>>
     \/ /\ ~Exists(s)
        /\ creating' = [creating EXCEPT !.pc = "undo"]
        /\ Fault
        /\ UNCHANGED secrets
  /\ UNCHANGED <<account, pods, terminating, releasing, listed, count, sync, db, creates,
                 deletes, lost>>

\* The pod: refused while an old one terminates.  A failing call leaves no pod
\* or, if it is the one that creates the SSH service, leaves the pod.
CreatePod ==
  LET s == creating.s
      undo == [creating EXCEPT !.pc = "undo"]
      created == [pods EXCEPT ![s] = "pending"]
  IN
  /\ creating.pc = "pod"
  /\ \/ pods[s] = "none" /\ pods' = created /\ creating' = NotCreating /\ UNCHANGED faults
     \/ pods[s] = "none" /\ pods' = created /\ creating' = undo /\ Fault
     \/ pods[s] = "none" /\ creating' = undo /\ Fault /\ UNCHANGED pods
     \/ pods[s] # "none" /\ creating' = undo /\ UNCHANGED <<pods, faults>>
  /\ UNCHANGED <<account, terminating, secrets, releasing, listed, count, sync, db,
                 creates, deletes, lost>>

CreateUndo ==
  /\ creating.pc = "undo"
  /\ \/ creating.reserved = "yes" /\ ReleaseResources(Need[creating.s])
     \/ creating.reserved = "no" /\ UNCHANGED <<account, sync>>
  /\ creating' = NotCreating
  /\ UNCHANGED <<cluster, releasing, listed, count, db, bounds, lost>>

-----------------------------------------------------------------------------
(* Deletion: DeleteGPUSession by any goroutine (a pod that is not there is *)
(* not an error), or the expiration monitor.                               *)

Terminate(s) ==
  terminating' = IF pods[s] = "none" THEN terminating ELSE terminating \cup {s}

\* Every caller has found a RUNNING session or an event of its pod; none deletes
\* a session that is being created, and several may delete the same one.  If the
\* answer to the pod's deletion is an error, the release does not come; nothing
\* happens at all if there is no client or the call does not get through.
Delete(s) ==
  /\ pods[s] # "none" \/ deletes[s] > 0
  /\ creating.s # s /\ deletes[s] < MaxDeletes[s]
  /\ deletes' = [deletes EXCEPT ![s] = @ + 1]
  /\ Terminate(s)
  /\ \/ /\ secrets' = secrets \ {s} /\ UNCHANGED faults
        /\ releasing' = [releasing EXCEPT ![s] = @ + 1]
     \/ /\ s \in secrets /\ UNCHANGED secrets /\ Fault
        /\ releasing' = [releasing EXCEPT ![s] = @ + 1]
     \/ UNCHANGED <<secrets, releasing>> /\ Fault
  /\ UNCHANGED <<pods, creating>>
  /\ Lose(s, Nothing)
  /\ UNCHANGED <<account, listed, count, sync, db, creates>>

\* What the session asked for is released, not what it was given; nothing, if
\* the node cannot be resolved.
DeleteRelease(s) ==
  /\ releasing[s] > 0
  /\ releasing' = [releasing EXCEPT ![s] = @ - 1]
  /\ UNCHANGED <<cluster, creating>>
  /\ \/ ReleaseResources(Asked[s]) /\ UNCHANGED <<lost, faults>>
     \/ UNCHANGED <<account, sync>> /\ Lose(s, Nothing) /\ Fault
  /\ UNCHANGED <<listed, count, db, creates, deletes>>

\* checkCluster lists the pods: those that have expired (any may have) or exited
\* will be deleted, also if they are terminating already.  A pending pod may have
\* a node (its image is being pulled) or not.
CheckCluster ==
  /\ \A s \in Sessions : listed[s] = "no"
  /\ \E S \in SUBSET {s \in Sessions : pods[s] # "none" /\ deletes[s] < MaxDeletes[s]} \ {{}} :
       /\ \E N \in SUBSET {s \in S : pods[s] = "pending"} :
            listed' = [s \in Sessions |-> IF s \notin S THEN "no"
                                          ELSE IF s \in N THEN "unplaced" ELSE "placed"]
       /\ deletes' = [s \in Sessions |-> deletes[s] + (IF s \in S THEN 1 ELSE 0)]
  /\ UNCHANGED <<account, cluster, creating, releasing, count, sync, db, creates, faults,
                 lost>>

\* The pod's requests are released, if it had a node, and then it is deleted.
\* The secret stays.
Reap(s) ==
  /\ listed[s] # "no"
  /\ listed' = [listed EXCEPT ![s] = "no"]
  /\ \/ Terminate(s) /\ UNCHANGED faults
     \/ UNCHANGED terminating /\ Fault
  /\ UNCHANGED <<pods, creating, releasing>>
  /\ \/ listed[s] = "placed" /\ ReleaseResources(Extracted[s]) /\ Lose(s, Extracted[s])
     \/ listed[s] = "unplaced" /\ UNCHANGED <<account, sync>> /\ Lose(s, Nothing)
  /\ UNCHANGED <<secrets, count, db, creates, deletes>>

-----------------------------------------------------------------------------
(* DiscoverCapacity.                                                       *)

\* Mutant: pods that are not running are counted, too.
CountUsedAll == {s \in Sessions : pods[s] # "none"}

\* countUsedResources lists the pods of the node whose phase is Running.
CountUsed == Running

\* If the pods cannot be listed, nothing counts as used.
Discover ==
  /\ ~count.known
  /\ \/ count' = [known |-> TRUE, pods |-> CountUsed] /\ UNCHANGED faults
     \/ count' = [known |-> TRUE, pods |-> {}] /\ Fault
  /\ UNCHANGED <<account, cluster, creating, releasing, listed, sync, db, creates,
                 deletes, lost>>

\* The account starts again from the requests of the pods S.
Counted(S) ==
  /\ inUse' = Sum(Extracted, S)
  /\ avail' = [r \in Resources |->
                 IF Sum(Extracted, S)[r] > Total[r] THEN 0
                                                    ELSE Total[r] - Sum(Extracted, S)[r]]
  /\ lost' = Sum(Extracted, S \ Held')

\* The new NodeCapacity replaces the old one, and syncCapacityToDB follows.
StoreCapacity ==
  /\ count.known
  /\ UNCHANGED <<cluster, creating, releasing>>
  /\ Counted(count.pods)
  /\ count' = NotCounted
  /\ StartSync
  /\ UNCHANGED <<listed, db, bounds>>

\* syncSingleNodeToDB and syncCapacityToDB read the account without the lock
\* and then write the row.
SyncRead(g) ==
  /\ sync[g].pc = "read"
  /\ sync' = [sync EXCEPT ![g] = [pc |-> "write", gpus |-> avail["gpu"]]]
  /\ UNCHANGED <<account, cluster, creating, releasing, listed, count, db, bounds,
                 lost>>

SyncWrite(g) ==
  /\ sync[g].pc = "write"
  /\ sync' = [sync EXCEPT ![g] = NoSync]
  /\ \/ db' = sync[g].gpus /\ UNCHANGED faults
     \/ Fault /\ UNCHANGED db
  /\ UNCHANGED <<account, cluster, creating, releasing, listed, count, creates, deletes,
                 lost>>

-----------------------------------------------------------------------------
(* The cluster (external), and the hub's crash.                            *)

\* The pods of S fit on the node by their requests.
Schedulable(S) == \A r \in Resources : Sum(Requested, S)[r] <= Halves(r) * Total[r]

\* The scheduler starts a pod if it fits beside the running ones.
PodStarts(s) ==
  /\ pods[s] = "pending" /\ s \notin terminating
  /\ Schedulable(Running \cup {s})
  /\ pods' = [pods EXCEPT ![s] = "running"]
  /\ UNCHANGED <<account, terminating, secrets, creating, releasing, listed, count, sync,
                 db, bounds, lost>>

PodExits(s) ==
  /\ pods[s] = "running"
  /\ pods' = [pods EXCEPT ![s] = "exited"]
  /\ UNCHANGED <<account, terminating, secrets, creating, releasing, listed, count, sync,
                 db, bounds, lost>>

PodRemoved(s) ==
  /\ s \in terminating
  /\ pods' = [pods EXCEPT ![s] = "none"]
  /\ terminating' = terminating \ {s}
  /\ UNCHANGED <<account, secrets, creating, releasing, listed, count, sync, db, bounds,
                 lost>>

\* The hub starts again: main discovers the capacity (and writes it to the
\* database) before anything else runs; RecoverAllocations changes nothing.
Crash ==
  /\ Fault
  /\ creating' = NotCreating
  /\ releasing' = [s \in Sessions |-> 0]
  /\ UNCHANGED cluster
  /\ \E S \in {CountUsed, {}} : Counted(S)
  /\ listed' = [s \in Sessions |-> "no"]
  /\ count' = NotCounted
  /\ sync' = [g \in Syncs |-> NoSync]
  /\ db' = avail'["gpu"]
  /\ UNCHANGED <<creates, deletes>>

-----------------------------------------------------------------------------
Executor ==
  \/ CreateSecret \/ CreatePod \/ CreateUndo
  \/ \E s \in Sessions : Create(s) \/ Delete(s) \/ DeleteRelease(s)

Monitor == CheckCluster \/ \E s \in Sessions : Reap(s)

Sync == \E g \in Syncs : SyncRead(g) \/ SyncWrite(g)

Cluster == \E s \in Sessions : PodStarts(s) \/ PodExits(s) \/ PodRemoved(s)

Next ==
  Executor \/ Monitor \/ Discover \/ StoreCapacity \/ Sync \/ Cluster \/ Crash

Spec == Init /\ [][Next]_vars

\* The ticker of StartPeriodicSync fires again and again, and what has been
\* started goes on: a creation, a release, the monitor's loop, every copy.
Fairness ==
  /\ WF_vars(Discover) /\ WF_vars(StoreCapacity)
  /\ \A g \in Syncs : WF_vars(SyncRead(g) \/ SyncWrite(g))
  /\ WF_vars(CreateSecret \/ CreatePod \/ CreateUndo)
  /\ \A s \in Sessions : WF_vars(DeleteRelease(s)) /\ WF_vars(Reap(s))

FairSpec == Spec /\ Fairness

-----------------------------------------------------------------------------
(* What holds.                                                             *)

\* No unit of the node is ever missing from the account, neither available nor
\* in use, although resources are released twice or in another amount than they
\* were reserved in (the clamps), reservations fail half-way (the rollback), and a
\* count replaces the account at any time.  No GPU and no GB is both; cores may be,
\* because the count rounds them up.
AccountBalances ==
  \A r \in Resources :
    /\ avail[r] <= Total[r]
    /\ avail[r] + inUse[r] >= Total[r]
    /\ r # "cpu" => avail[r] + inUse[r] = Total[r]

\* What is accounted is needed by the sessions of Held, on any path of failure,
\* but for what is lost: that a session reserved twice, that a pod's deletion or
\* its node's name failed, that the monitor deleted it before it had a node, what
\* the monitor rounded away, and pods counted on their way out.
NothingLeaks == \A r \in Resources : inUse[r] <= Sum(Need, Held)[r] + lost[r]

\* Whatever went wrong before, rediscovery brings the account and the database
\* back to what the running pods request, in whole cores and GB.
CapacityConverges ==
  /\ <>[](inUse = Sum(Extracted, Running))
  /\ <>[](db = avail["gpu"])

-----------------------------------------------------------------------------
(* The inductive invariant behind AccountBalances: what is counted, now or *)
(* earlier, fits the node.                                                 *)

RunningFits == Schedulable(Running)

CountFits == Schedulable(count.pods)

IInv == TypeOK /\ AccountBalances /\ RunningFits /\ CountFits

(* Behind NothingLeaks: a pod that terminates is there.                    *)

LeakInv ==
  /\ NothingLeaks
  /\ \A s \in terminating : pods[s] # "none"

-----------------------------------------------------------------------------
(* What the repository's comments say, and some behaviour breaks.          *)

\* capacity.go: "Available = Total - InUse - Mining", and nothing mines.
AvailableIsTheRest == \A r \in Resources : avail[r] = Total[r] - inUse[r]

\* job_executor.go: the capacity is released after a deletion.  When no pod is left
\* and nothing is under way, nothing is in use.
IdleIsFree ==
  (Held = {} /\ \A s \in Sessions : pods[s] = "none" /\ listed[s] = "no")
    => inUse = Nothing

\* capacity.go: InUse is what is rented.  No account is below what the pods
\* that are to stay need.
RentedIsInUse ==
  \A r \in Resources :
    Sum(Need, {s \in Sessions : /\ pods[s] \in {"pending", "running"}
                                /\ s \notin terminating})[r] <= inUse[r]

\* capacity.go: the database is synced at once.  With no copy under way, it
\* shows what is available.
SyncedIsCurrent ==
  (\A g \in Syncs : sync[g].pc = "idle") => db = avail["gpu"]

\* job.go: creation is idempotent.  A session whose pod is there is not refused.
CreateIsIdempotent ==
  [][\A s \in Sessions :
       (creates'[s] > creates[s] /\ Exists(s)) => creating'.s = s]_vars

\* job.go: a worker's restart does not hurt.  Creation is only given up because
\* a call fails or the old pod terminates.
RestartResumes ==
  [][(creating'.pc = "undo" /\ creating.pc # "undo" /\ faults' = faults)
       => creating.s \in terminating]_vars
=============================================================================
