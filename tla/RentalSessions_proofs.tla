------------------------ MODULE RentalSessions_proofs ------------------------
EXTENDS RentalSessions, TLAPS

\* The copy a transition writes has the type of a row.
LEMMA WrittenType ==
  ASSUME TypeOK, NEW p \in Procs, op[p].s \in Sessions,
         op[p].target \in {"RUNNING", "STOPPED", "FAILED", "CANCELLED"}
  PROVE  Written(op[p]) \in Row
<1> DEFINE o == op[p]
<1>1. o \in Op /\ rows[o.s] \in Row
  BY DEF TypeOK
<1>2. o.snap \in Row /\ o.tx \in TxColumn /\ o.rental \in Rentals \cup {NULL}
      /\ rows[o.s].deleted \in BOOLEAN /\ rows[o.s].ran \in Rentals \cup {NULL}
  BY <1>1 DEF Op, Row
<1>3. /\ TransitionToRunning(o.snap, o.tx, o.rental) \in Row
      /\ TransitionToStopped(o.snap, o.tx) \in Row
      /\ TransitionToFailed(o.snap) \in Row
      /\ TransitionToCancelled(o.snap) \in Row
  BY <1>2 DEF Row, States, TransitionToRunning, TransitionToStopped,
              TransitionToFailed, TransitionToCancelled
<1>4. ASSUME NEW row \in Row
      PROVE  [row EXCEPT !.deleted = rows[o.s].deleted,
                         !.ran = IF o.target = "RUNNING" THEN o.rental ELSE rows[o.s].ran] \in Row
  <2>1. (IF o.target = "RUNNING" THEN o.rental ELSE rows[o.s].ran) \in Rentals \cup {NULL}
    BY <1>2
  <2>2. QED
    BY <1>2, <2>1 DEF Row
<1>5. QED
  BY <1>3, <1>4 DEF Written

\* Only four actions write the table.
WritesRows(p) == Update(p) \/ SetTxHash(p) \/ CreateInsert(p)

\* Every other step leaves rental_sessions alone.
LEMMA WhoWritesRows ==
  ASSUME [Next]_vars
  PROVE  \/ UNCHANGED rows
         \/ \E p \in Procs : WritesRows(p)
         \/ \E old \in SUBSET Sessions : SoftDeletePendingBefore(old)
<1>1. ASSUME NEW p \in Requests, Request(p)
      PROVE  UNCHANGED rows \/ WritesRows(p)
  BY <1>1 DEF Request, CreateCheckRunning, CancelSession, StopRead, ConfirmRead,
     CreateCheckPending, ConfirmGetByTxHash, StopDeletePod, WritesRows
<1>2. ASSUME NEW p \in Procs, Manager(p)
      PROVE  UNCHANGED rows \/ WritesRows(p)
  BY <1>2 DEF Manager, LoadAndValidate, CleanUp, WritesRows
<1>3. Worker => UNCHANGED rows
  BY DEF Worker, WorkerList, List, Provision, ProcessSession
<1>4. Enforcer => UNCHANGED rows \/ \E old \in SUBSET Sessions : SoftDeletePendingBefore(old)
  BY DEF Enforcer, EnforcerList, List, EnforceRunningTimeout
<1>5. Expirer => UNCHANGED rows
  BY DEF Expirer, ExpirerList, List, ExpireSession
<1>6. Watcher \/ Listener => UNCHANGED rows
  BY DEF Watcher, Listener, OnPodFailed, OnPodSucceeded, OnPodDeleted, HandleRentalStopped
<1>7. Cluster \/ Environment \/ Crash => UNCHANGED rows
  BY DEF Cluster, Environment, Crash, PodExits, PodRemoved, ReapPod, MineStart,
     StopOnChain, TimeReachesExpiration
<1>8. QED
  BY <1>1, <1>2, <1>3, <1>4, <1>5, <1>6, <1>7 DEF Next, Procs, vars

\* What a write does to the row of a session s, given the invariant: the
\* facts every stability argument below uses.
LEMMA RowChange ==
  ASSUME IInv, [Next]_vars, NEW s \in Sessions
  PROVE  /\ rows[s].state \notin {"NONE", "PENDING"} => rows'[s].state \notin {"NONE", "PENDING"}
         /\ rows[s].state # "NONE" => rows'[s].state # "NONE"
         /\ Anchored(s) => Anchored(s)'
<1> USE DEF Anchored, Live
<1>1. CASE UNCHANGED rows
  BY <1>1
<1>2. ASSUME NEW p \in Procs, Update(p)
      PROVE  /\ rows[s].state \notin {"NONE", "PENDING"} => rows'[s].state \notin {"NONE", "PENDING"}
             /\ rows[s].state # "NONE" => rows'[s].state # "NONE"
             /\ Anchored(s) => Anchored(s)'
  <2>1. op[p].s \in Sessions /\ op[p].target \in {"RUNNING", "STOPPED", "FAILED", "CANCELLED"}
    BY <1>2 DEF Update, IInv, OpOK, CallOK
  <2>2. Written(op[p]) \in Row
    BY <2>1, WrittenType DEF IInv
  <2>3. /\ Written(op[p]).state = op[p].target
        /\ Written(op[p]).deleted = rows[op[p].s].deleted
    <3>1. op[p] \in Op
      BY DEF IInv, TypeOK
    <3>2. op[p].snap \in Row
      BY <3>1 DEF Op
    <3>3. QED
      BY <2>1, <3>2 DEF Written, Row, TransitionToRunning, TransitionToStopped,
         TransitionToFailed, TransitionToCancelled
  <2>4. rows \in [Sessions -> Row]
    BY DEF IInv, TypeOK
  <2>5. rows' = rows \/ rows' = [rows EXCEPT ![op[p].s] = Written(op[p])]
    BY <1>2 DEF Update
  <2>6. QED
    BY <2>1, <2>2, <2>3, <2>4, <2>5
<1>3. ASSUME NEW p \in Procs, SetTxHash(p)
      PROVE  /\ rows'[s].state = rows[s].state
             /\ rows'[s].deleted = rows[s].deleted
             /\ rows'[s].tx # NULL \/ rows'[s].tx = rows[s].tx
  <2>1. op[p].s \in Sessions /\ op[p].tx \in Txs
    BY <1>3 DEF SetTxHash, IInv, OpOK
  <2>2. rows \in [Sessions -> Row]
    BY DEF IInv, TypeOK
  <2>3. QED
    BY <1>3, <2>1, <2>2, ConstantsAssumption DEF SetTxHash, Row
<1>4. ASSUME NEW p \in Procs, CreateInsert(p)
      PROVE  /\ rows[s].state # "NONE" => rows'[s] = rows[s]
             /\ rows'[s].state \in {rows[s].state, "PENDING"}
  <2>1. op[p].s \in Sessions /\ rows[op[p].s].state = "NONE"
    BY <1>4 DEF CreateInsert, IInv, OpOK
  <2>2. rows \in [Sessions -> Row]
    BY DEF IInv, TypeOK
  <2>3. QED
    BY <1>4, <2>1, <2>2 DEF CreateInsert, NewRow, NoRow
<1>5. ASSUME NEW old \in SUBSET Sessions, SoftDeletePendingBefore(old)
      PROVE  /\ rows'[s].state = rows[s].state
             /\ rows'[s].tx = rows[s].tx
             /\ rows'[s].deleted = rows[s].deleted \/ ~Anchored(s)
  <2>1. rows \in [Sessions -> Row]
    BY DEF IInv, TypeOK
  <2>2. QED
    BY <1>5, <2>1 DEF SoftDeletePendingBefore, Row
<1>6. QED
  BY <1>1, <1>2, <1>3, <1>4, <1>5, WhoWritesRows DEF WritesRows

\* The chain changes by its own steps only, and they leave the table alone.
LEMMA WhoWritesChain ==
  ASSUME [Next]_vars
  PROVE  \/ UNCHANGED chain
         \/ UNCHANGED rows /\ \E q \in Rentals : MineStart(q) \/ StopOnChain(q)
<1>1. UNCHANGED chain \/ \E q \in Rentals : MineStart(q) \/ StopOnChain(q)
  BY DEF Next, vars, Request, CreateCheckRunning, CancelSession, StopRead, ConfirmRead,
     CreateCheckPending, CreateInsert, ConfirmGetByTxHash, SetTxHash, StopDeletePod,
     Manager, LoadAndValidate, Update, CleanUp, Worker, WorkerList, List, Provision,
     ProcessSession, Enforcer, SoftDeletePendingBefore, EnforcerList, EnforceRunningTimeout,
     Expirer, ExpirerList, ExpireSession, Watcher, OnPodFailed, OnPodSucceeded, OnPodDeleted,
     Listener, HandleRentalStopped, Cluster, PodExits, PodRemoved, ReapPod, Environment,
     TimeReachesExpiration, Crash, chainVars
<1>2. QED
  BY <1>1 DEF MineStart, StopOnChain

\* The contract never takes a confirmed rental back.
LEMMA PaidStable ==
  ASSUME TypeOK, [Next]_vars, NEW s \in Sessions, NEW r, Paid(s, r)
  PROVE  Paid(s, r)'
BY WhoWritesChain DEF Paid, MineStart, StopOnChain, TypeOK

\* A stale copy written by Update is still a consistent row, and the soft
\* delete only takes rows that no transition can bring to life.
LEMMA RowsPreserved ==
  ASSUME IInv, [Next]_vars, NEW s \in Sessions
  PROVE  RowOK(s, rows[s])' /\ DeletedOK(s)'
<1> DEFINE Good == RowOK(s, rows[s])' /\ DeletedOK(s)'
<1>t. TypeOK /\ rows \in [Sessions -> Row]
  BY DEF IInv, TypeOK
<1>r. RowOK(s, rows[s]) /\ DeletedOK(s)
  BY DEF IInv
<1>p. \A r : Paid(s, r) => Paid(s, r)'
  BY <1>t, PaidStable
<1>1. CASE rows'[s] = rows[s]
  BY <1>1, <1>r, <1>p DEF RowOK, DeletedOK
<1>2. ASSUME NEW p \in Procs, Update(p), rows'[s] # rows[s]
      PROVE  Good
  <2> DEFINE o == op[p]
             w == Written(o)
  <2>1. o.s \in Sessions /\ CallOK(o) /\ CopyOK(o)
    BY <1>2 DEF Update, IInv, OpOK, CallOK
  <2>2. w \in Row
    BY <1>t, <2>1, WrittenType DEF CallOK
  <2>3. o.s = s /\ rows'[s] = w
    BY <1>2, <1>t, <2>1 DEF Update
  <2>4. o \in Op /\ o.snap \in Row
    BY <1>t DEF TypeOK, Op
  <2>5. RowOK(s, o.snap) /\ o.target \in allowedTransitions[o.snap.state]
        /\ o.snap.state \in States
    BY <2>1, <2>3 DEF CopyOK, CanTransitionTo
  <2>6. /\ o.target \in {"RUNNING", "FAILED", "CANCELLED"} \/ o.snap.state = "RUNNING"
        /\ o.target # "CANCELLED" => o.snap.state = "PENDING" \/ o.target \in {"STOPPED", "FAILED"}
        /\ o.target = "CANCELLED" => o.snap.state = "PENDING"
        /\ o.target = "RUNNING" => o.snap.state = "PENDING"
        /\ o.target \in {"RUNNING", "STOPPED", "FAILED", "CANCELLED"}
    BY <2>1, <2>5 DEF allowedTransitions, States, CallOK
  <2>7. /\ w.state = o.target
        /\ w.deleted = rows[s].deleted
        /\ w.rental = IF o.target = "RUNNING" THEN o.rental ELSE o.snap.rental
        /\ w.ended = IF o.target = "RUNNING" THEN o.snap.ended ELSE TRUE
        /\ o.target \in {"FAILED", "CANCELLED"} => w.tx = o.snap.tx
    BY <2>3, <2>4, <2>6 DEF Written, Row, TransitionToRunning, TransitionToStopped,
       TransitionToFailed, TransitionToCancelled
  <2>8. \A r : r = w.rental /\ r # NULL => Paid(s, r)'
    BY <2>1, <2>3, <2>5, <2>7, <1>p DEF RowOK, CallOK
  <2>9. RowOK(s, rows[s])'
    <3>1. w.state \in {"RUNNING", "STOPPED"} => w.rental # NULL
      BY <2>1, <2>3, <2>5, <2>6, <2>7, ConstantsAssumption DEF RowOK, CallOK, Paid
    <3>2. w.state \in Terminal => w.ended
      BY <2>6, <2>7 DEF Terminal
    <3>3. w.state \notin Terminal => ~w.ended
      BY <2>5, <2>6, <2>7 DEF Terminal, RowOK
    <3>4. QED
      BY <2>3, <2>6, <2>7, <2>8, <3>1, <3>2, <3>3 DEF RowOK
  <2>10. DeletedOK(s)'
    <3>1. rows[s].deleted => ~Anchored(s)
      BY DEF Anchored, Live
    <3>2. rows[s].deleted => o.target = "CANCELLED" /\ o.snap.tx = NULL
      BY <3>1, <2>1, <2>3, <2>6 DEF CallOK, CopyOK
    <3>3. QED
      BY <2>3, <2>7, <3>2 DEF DeletedOK
  <2>11. QED
    BY <2>9, <2>10
<1>3. ASSUME NEW p \in Procs, SetTxHash(p), rows'[s] # rows[s]
      PROVE  Good
  <2>1. op[p].s \in Sessions /\ op[p].tx \in Txs
    BY <1>3 DEF SetTxHash, IInv, OpOK
  <2>2. /\ op[p].s = s /\ Live(s)
        /\ rows'[s] = [rows[s] EXCEPT !.tx = op[p].tx]
    BY <1>3, <1>t, <2>1 DEF SetTxHash
  <2>3. rows[s] \in Row
    BY <1>t
  <2>4. /\ rows'[s].state = rows[s].state /\ rows'[s].rental = rows[s].rental
        /\ rows'[s].ended = rows[s].ended /\ rows'[s].deleted = rows[s].deleted
    BY <2>2, <2>3 DEF Row
  <2>5. QED
    BY <2>2, <2>4, <1>r, <1>p DEF RowOK, DeletedOK, Live
<1>4. ASSUME NEW p \in Procs, CreateInsert(p), rows'[s] # rows[s]
      PROVE  Good
  <2>1. rows'[s] = NewRow
    BY <1>4, <1>t DEF CreateInsert
  <2>2. QED
    BY <2>1 DEF NewRow, NoRow, RowOK, DeletedOK, Terminal
<1>5. ASSUME NEW old \in SUBSET Sessions, SoftDeletePendingBefore(old), rows'[s] # rows[s]
      PROVE  Good
  <2>1. /\ rows'[s] = [rows[s] EXCEPT !.deleted = TRUE]
        /\ rows[s].state = "PENDING" /\ rows[s].tx = NULL
    BY <1>5 DEF SoftDeletePendingBefore
  <2>2. rows[s] \in Row
    BY <1>t
  <2>3. /\ rows'[s].state = rows[s].state /\ rows'[s].rental = rows[s].rental
        /\ rows'[s].ended = rows[s].ended /\ rows'[s].tx = rows[s].tx
    BY <2>1, <2>2 DEF Row
  <2>4. QED
    BY <2>1, <2>3, <1>r, <1>p DEF RowOK, DeletedOK
<1>6. QED
  BY <1>1, <1>2, <1>3, <1>4, <1>5, WhoWritesRows DEF WritesRows

-----------------------------------------------------------------------------
\* The fields of the operations that the actions put in place.
LEMMA NoOpFields ==
  /\ NoOp \in Op /\ NoOp.pc = "idle"
  /\ [NoOp EXCEPT !.pc = "done"] \in Op
  /\ [NoOp EXCEPT !.pc = "done"].pc = "done"
BY DEF NoOp, Op, PCs, NoRow, Row, TxColumn, States, NULL

\* Calling a transition records its arguments.
LEMMA CallFields ==
  ASSUME NEW s \in Sessions, NEW target \in States, NEW tx \in TxColumn,
         NEW rental \in Rentals \cup {NULL},
         NEW onOk \in {"idle", "cleanup"}, NEW onErr \in {"idle", "cleanup"}
  PROVE  LET c == Call(s, target, tx, rental, onOk, onErr)
         IN  /\ c \in Op /\ c.pc = "load" /\ c.s = s /\ c.target = target
             /\ c.tx = tx /\ c.rental = rental /\ c.onOk = onOk /\ c.onErr = onErr
BY NoOpFields DEF Call, NoOp, Op, PCs

\* A handler that returns leaves well-typed state.
LEMMA ReturnType ==
  ASSUME TypeOK, NEW p \in Procs, Return(p)
  PROVE  op' \in [Procs -> Op] /\ stopEvents' \subseteq Rentals
BY NoOpFields DEF Return, TypeOK

\* So does one that goes on to delete the pod.
LEMMA ContinueType ==
  ASSUME TypeOK, NEW p \in Procs, NEW next, Continue(p, next)
  PROVE  op' \in [Procs -> Op] /\ stopEvents' \subseteq Rentals
<1>1. CASE next = "cleanup"
  <2>1. op' = [op EXCEPT ![p].pc = "cleanup"] /\ UNCHANGED stopEvents
    BY <1>1 DEF Continue
  <2>2. op \in [Procs -> Op] /\ op[p] \in Op
    BY DEF TypeOK
  <2>3. [op[p] EXCEPT !.pc = "cleanup"] \in Op
    BY <2>2 DEF Op, PCs
  <2>4. QED
    BY <2>1, <2>2, <2>3 DEF TypeOK
<1>2. CASE next # "cleanup"
  BY <1>2, ReturnType DEF Continue
<1>3. QED
  BY <1>1, <1>2

\* The session manager's steps.
LEMMA ManagerType ==
  ASSUME IInv, NEW p \in Procs, Manager(p)
  PROVE  TypeOK'
<1>t. TypeOK
  BY DEF IInv
<1>1. CASE LoadAndValidate(p)
  <2>1. op' \in [Procs -> Op] /\ stopEvents' \subseteq Rentals
    <3>1. CASE Continue(p, op[p].onErr)
      BY <1>t, <3>1, ContinueType
    <3>2. CASE /\ op' = [op EXCEPT ![p].pc = "write", ![p].snap = rows[op[p].s]]
               /\ UNCHANGED stopEvents
      <4>1. op[p] \in Op /\ op[p].s \in Sessions
        BY <1>1 DEF LoadAndValidate, IInv, TypeOK, OpOK, CallOK
      <4>2. rows[op[p].s] \in Row
        BY <1>t, <4>1 DEF TypeOK
      <4>3. [[op[p] EXCEPT !.pc = "write"] EXCEPT !.snap = rows[op[p].s]] \in Op
        BY <4>1, <4>2 DEF Op, PCs
      <4>4. QED
        BY <1>t, <3>2, <4>3 DEF TypeOK
    <3>3. QED
      BY <1>1, <3>1, <3>2 DEF LoadAndValidate
  <2>2. QED
    BY <1>1, <1>t, <2>1 DEF LoadAndValidate, TypeOK, podVars
<1>2. CASE Update(p)
  <2>1. op' \in [Procs -> Op] /\ stopEvents' \subseteq Rentals
    BY <1>2, <1>t, ContinueType DEF Update
  <2>2. Written(op[p]) \in Row
    BY <1>2, <1>t, WrittenType DEF Update, IInv, OpOK, CallOK
  <2>3. rows' \in [Sessions -> Row]
    BY <1>2, <1>t, <2>2 DEF Update, TypeOK
  <2>4. QED
    BY <1>2, <1>t, <2>1, <2>3 DEF Update, TypeOK, podVars
<1>3. CASE CleanUp(p)
  <2>1. op' \in [Procs -> Op] /\ stopEvents' \subseteq Rentals
    BY <1>3, <1>t, ReturnType DEF CleanUp
  <2>2. terminating' \subseteq Sessions
    BY <1>3, <1>t DEF CleanUp, DeleteGPUSession, IInv, OpOK, TypeOK
  <2>3. QED
    BY <1>3, <1>t, <2>1, <2>2 DEF CleanUp, TypeOK
<1>4. QED
  BY <1>1, <1>2, <1>3 DEF Manager

\* The HTTP requests.
LEMMA RequestType ==
  ASSUME IInv, NEW p \in Requests, Request(p)
  PROVE  TypeOK'
<1>t. TypeOK /\ p \in Procs /\ op[p] \in Op
  BY DEF IInv, TypeOK, Procs
<1>1. ASSUME NEW s \in Sessions, CreateCheckRunning(p, s)
      PROVE  TypeOK'
  <2>1. [NoOp EXCEPT !.pc = "quotaPending", !.s = s] \in Op
    BY NoOpFields DEF Op, PCs
  <2>2. QED
    BY <1>1, <1>t, <2>1 DEF CreateCheckRunning, Begin, TypeOK, podVars, chainVars
<1>2. ASSUME NEW s \in Sessions, CancelSession(p, s)
      PROVE  TypeOK'
  <2>1. Call(s, "CANCELLED", NULL, NULL, "idle", "idle") \in Op
    BY CallFields DEF States, TxColumn
  <2>2. QED
    BY <1>2, <1>t, <2>1 DEF CancelSession, Begin, TypeOK, podVars, chainVars
<1>3. ASSUME NEW s \in Sessions, StopRead(p, s)
      PROVE  TypeOK'
  <2>1. [NoOp EXCEPT !.pc = "stopPod", !.s = s] \in Op
    BY NoOpFields DEF Op, PCs
  <2>2. QED
    BY <1>3, <1>t, <2>1 DEF StopRead, Begin, TypeOK, podVars, chainVars
<1>4. ASSUME NEW s \in Sessions, NEW tx \in Txs, ConfirmRead(p, s, tx)
      PROVE  TypeOK'
  <2>1. [NoOp EXCEPT !.pc = "confirm", !.s = s, !.tx = tx] \in Op
    BY NoOpFields DEF Op, PCs, TxColumn
  <2>2. QED
    BY <1>4, <1>t, <2>1 DEF ConfirmRead, Begin, TypeOK, podVars, chainVars
<1>5. CASE CreateCheckPending(p)
  <2>1. [op[p] EXCEPT !.pc = "insert"] \in Op
    BY <1>t DEF Op, PCs
  <2>2. op' \in [Procs -> Op] /\ stopEvents' \subseteq Rentals
    BY <1>5, <1>t, <2>1, ReturnType DEF CreateCheckPending, TypeOK
  <2>3. QED
    BY <1>5, <1>t, <2>2 DEF CreateCheckPending, TypeOK, podVars
<1>6. CASE CreateInsert(p)
  <2>1. op' \in [Procs -> Op] /\ stopEvents' \subseteq Rentals
    BY <1>6, <1>t, ReturnType DEF CreateInsert
  <2>2. NewRow \in Row
    BY DEF NewRow, NoRow, Row, States, TxColumn
  <2>3. QED
    BY <1>6, <1>t, <2>1, <2>2 DEF CreateInsert, TypeOK, podVars
<1>7. CASE ConfirmGetByTxHash(p)
  <2>1. [op[p] EXCEPT !.pc = "setTx"] \in Op
    BY <1>t DEF Op, PCs
  <2>2. op' \in [Procs -> Op] /\ stopEvents' \subseteq Rentals
    BY <1>7, <1>t, <2>1, ReturnType DEF ConfirmGetByTxHash, TypeOK
  <2>3. QED
    BY <1>7, <1>t, <2>2 DEF ConfirmGetByTxHash, TypeOK, podVars
<1>8. CASE SetTxHash(p)
  <2>1. op' \in [Procs -> Op] /\ stopEvents' \subseteq Rentals
    BY <1>8, <1>t, ReturnType DEF SetTxHash
  <2>2. op[p].s \in Sessions /\ op[p].tx \in TxColumn
    BY <1>8, <1>t DEF SetTxHash, IInv, OpOK, TxColumn
  <2>3. [rows[op[p].s] EXCEPT !.tx = op[p].tx] \in Row
    BY <1>t, <2>2 DEF TypeOK, Row
  <2>4. rows' \in [Sessions -> Row]
    BY <1>8, <1>t, <2>3 DEF SetTxHash, TypeOK
  <2>5. QED
    BY <1>8, <1>t, <2>1, <2>4 DEF SetTxHash, TypeOK, podVars
<1>9. CASE StopDeletePod(p)
  <2>1. op' \in [Procs -> Op] /\ stopEvents' \subseteq Rentals
    BY <1>9, <1>t, ReturnType DEF StopDeletePod
  <2>2. terminating' \subseteq Sessions
    BY <1>9, <1>t DEF StopDeletePod, DeleteGPUSession, IInv, OpOK, TypeOK
  <2>3. QED
    BY <1>9, <1>t, <2>1, <2>2 DEF StopDeletePod, TypeOK
<1>10. QED
  BY <1>1, <1>2, <1>3, <1>4, <1>5, <1>6, <1>7, <1>8, <1>9 DEF Request

\* A tick's list of rows.
LEMMA ListType ==
  ASSUME TypeOK, NEW p \in Batchers, NEW ss \in SUBSET Sessions, List(p, ss)
  PROVE  TypeOK'
<1>1. {<<s, rows[s].tx>> : s \in ss} \subseteq Sessions \X TxColumn
  BY DEF TypeOK, Row
<1>2. QED
  BY <1>1 DEF List, TypeOK, podVars, chainVars

\* The workers, the watcher and the event processor.
LEMMA BackgroundType ==
  ASSUME IInv, Worker \/ Enforcer \/ Expirer \/ Watcher \/ Listener
  PROVE  TypeOK'
<1>t. TypeOK
  BY DEF IInv
<1>c. NULL \in TxColumn /\ EMPTY \in TxColumn /\ Rentals \subseteq TxColumn
      /\ Txs \subseteq TxColumn
  BY DEF TxColumn
<1>f. ASSUME NEW s \in Sessions
      PROVE  /\ Call(s, "FAILED", NULL, NULL, "idle", "idle") \in Op
             /\ Call(s, "FAILED", NULL, NULL, "cleanup", "idle") \in Op
             /\ Call(s, "STOPPED", EMPTY, NULL, "idle", "idle") \in Op
             /\ \A r \in Rentals : Call(s, "STOPPED", r, r, "cleanup", "idle") \in Op
             /\ \A tx \in TxColumn, r \in Rentals :
                  Call(s, "RUNNING", tx, r, "idle", "cleanup") \in Op
  BY <1>c, CallFields DEF States
<1>b. Background \subseteq Procs
  BY DEF Procs
<1>1. CASE WorkerList \/ ExpirerList
  BY <1>1, <1>t, ListType DEF WorkerList, ExpirerList, ListPendingWithTxHash,
     FindExpiringSessions, FindStaleRunning, Batchers
<1>2. ASSUME NEW s \in Sessions, NEW tx \in Txs, ProcessSession(s, tx)
      PROVE  TypeOK'
  <2>1. RentalOf[tx] \in Rentals
    BY ConstantsAssumption
  <2>2. [NoOp EXCEPT !.pc = "provision", !.s = s, !.tx = tx, !.rental = RentalOf[tx]] \in Op
    BY <2>1, <1>c, NoOpFields DEF Op, PCs
  <2>3. op' \in [Procs -> Op]
    BY <1>2, <1>t, <1>f, <2>2, NoOpFields DEF ProcessSession, TypeOK
  <2>4. batch' \in [Batchers -> SUBSET (Sessions \X TxColumn)]
    BY <1>2, <1>t DEF ProcessSession, Take, TypeOK
  <2>5. QED
    BY <1>2, <1>t, <2>3, <2>4 DEF ProcessSession, TypeOK, podVars, chainVars
<1>3. CASE Provision
  <2>1. /\ op["worker"] \in Op /\ op["worker"].s \in Sessions
        /\ op["worker"].rental \in Rentals
    BY <1>3, <1>t, <1>b DEF Provision, IInv, OpOK, TypeOK
  <2>2. op["worker"].tx \in TxColumn
    BY <2>1 DEF Op
  <2>3. op' \in [Procs -> Op]
    BY <1>3, <1>t, <1>f, <2>1, <2>2 DEF Provision, TypeOK
  <2>4. pods' \in [Sessions -> PodPhase]
    BY <1>3, <1>t DEF Provision, TypeOK, PodPhase
  <2>5. QED
    BY <1>3, <1>t, <2>3, <2>4 DEF Provision, TypeOK, chainVars
<1>4. ASSUME NEW old \in SUBSET Sessions, SoftDeletePendingBefore(old)
      PROVE  TypeOK'
  <2>1. \A s \in Sessions : [rows[s] EXCEPT !.deleted = TRUE] \in Row
    BY <1>t DEF TypeOK, Row
  <2>2. rows' \in [Sessions -> Row]
    BY <1>4, <1>t, <2>1 DEF SoftDeletePendingBefore, TypeOK
  <2>3. QED
    BY <1>4, <1>t, <2>2 DEF SoftDeletePendingBefore, TypeOK, podVars, chainVars
<1>5. ASSUME NEW ss \in SUBSET Sessions, EnforcerList(ss)
      PROVE  TypeOK'
  BY <1>5, <1>t, ListType DEF EnforcerList, Batchers
<1>6. ASSUME NEW s \in Sessions, NEW tx \in TxColumn,
             EnforceRunningTimeout(s, tx) \/ ExpireSession(s, tx)
      PROVE  TypeOK'
  <2>1. op' \in [Procs -> Op]
    BY <1>6, <1>t, <1>f DEF EnforceRunningTimeout, ExpireSession, TypeOK
  <2>2. batch' \in [Batchers -> SUBSET (Sessions \X TxColumn)]
    BY <1>6, <1>t DEF EnforceRunningTimeout, ExpireSession, Take, TypeOK
  <2>3. QED
    BY <1>6, <1>t, <2>1, <2>2 DEF EnforceRunningTimeout, ExpireSession,
       DeleteGPUSession, TypeOK, podVars, chainVars
<1>7. ASSUME NEW s \in Sessions, OnPodFailed(s) \/ OnPodSucceeded(s) \/ OnPodDeleted(s)
      PROVE  TypeOK'
  <2>1. op' \in [Procs -> Op]
    BY <1>7, <1>t, <1>f, NoOpFields DEF OnPodFailed, OnPodSucceeded, OnPodDeleted, TypeOK
  <2>2. QED
    BY <1>7, <1>t, <2>1 DEF OnPodFailed, OnPodSucceeded, OnPodDeleted, TypeOK,
       podVars, chainVars
<1>8. ASSUME NEW r \in Rentals, HandleRentalStopped(r)
      PROVE  TypeOK'
  <2>1. op' \in [Procs -> Op]
    BY <1>8, <1>t, <1>f DEF HandleRentalStopped, GetByRentalID, TypeOK
  <2>2. QED
    BY <1>8, <1>t, <2>1 DEF HandleRentalStopped, TypeOK, podVars
<1>9. QED
  BY <1>1, <1>2, <1>3, <1>4, <1>5, <1>6, <1>7, <1>8
     DEF Worker, Enforcer, Expirer, Watcher, Listener

\* Every step keeps the state well typed.
LEMMA TypeStep ==
  ASSUME IInv, [Next]_vars
  PROVE  TypeOK'
<1>t. TypeOK
  BY DEF IInv
<1>1. CASE Cluster
  BY <1>1, <1>t DEF Cluster, PodExits, PodRemoved, ReapPod, DeleteGPUSession, TypeOK,
     PodPhase, chainVars
<1>2. CASE Environment
  BY <1>2, <1>t DEF Environment, MineStart, StopOnChain, TimeReachesExpiration, TypeOK,
     ChainStatus, podVars, chainVars
<1>3. CASE Crash
  BY <1>3, <1>t, NoOpFields, ConstantsAssumption DEF Crash, TypeOK, chainVars
<1>4. CASE UNCHANGED vars
  BY <1>4, <1>t DEF vars, TypeOK
<1>5. QED
  BY <1>1, <1>2, <1>3, <1>4, ManagerType, RequestType, BackgroundType DEF Next

-----------------------------------------------------------------------------
\* A row that does not exist yet is only created by the request that chose
\* its id.
LEMMA NoneStable ==
  ASSUME IInv, [Next]_vars, NEW s \in Sessions, rows[s].state = "NONE",
         \A p \in Procs : ~(CreateInsert(p) /\ op[p].s = s)
  PROVE  rows'[s].state = "NONE"
<1>t. rows \in [Sessions -> Row]
  BY DEF IInv, TypeOK
<1>1. ASSUME NEW p \in Procs, Update(p) \/ SetTxHash(p) \/ CreateInsert(p)
      PROVE  rows'[s] = rows[s]
  <2>1. op[p].s # s
    BY <1>1 DEF Update, SetTxHash, IInv, OpOK, CallOK
  <2>2. QED
    BY <1>1, <1>t, <2>1 DEF Update, SetTxHash, CreateInsert
<1>2. ASSUME NEW old \in SUBSET Sessions, SoftDeletePendingBefore(old)
      PROVE  rows'[s] = rows[s]
  BY <1>2, <1>t DEF SoftDeletePendingBefore, Live
<1>3. QED
  BY <1>1, <1>2, WhoWritesRows DEF WritesRows

\* An operation that a step leaves alone stays consistent with the table.
LEMMA OpStable ==
  ASSUME IInv, [Next]_vars, NEW q \in Procs, op'[q] = op[q]
  PROVE  OpOK(q)'
<1> DEFINE o == op[q]
<1>q. OpOK(q) /\ TypeOK
  BY DEF IInv
<1>p. \A s \in Sessions : \A r : Paid(s, r) => Paid(s, r)'
  BY <1>q, PaidStable
<1>a. \A s \in Sessions : /\ Anchored(s) => Anchored(s)'
                          /\ rows[s].state # "NONE" => rows'[s].state # "NONE"
                          /\ rows[s].state \notin {"NONE", "PENDING"}
                               => rows'[s].state \notin {"NONE", "PENDING"}
  BY RowChange
<1>n. ASSUME op[q].pc \in {"quotaPending", "insert"}, NEW p \in Procs, CreateInsert(p)
      PROVE  op[p].s # op[q].s
  <2>1. op[p].pc = "insert" /\ p \in Requests /\ q \in Requests
    BY <1>n DEF CreateInsert, IInv, OpOK
  <2>2. op'[p].pc = "done"
    BY <1>n, <1>q, <2>1, NoOpFields DEF CreateInsert, Return, TypeOK
  <2>3. p # q
    BY <2>1, <2>2
  <2>4. QED
    BY <1>n, <2>1, <2>3 DEF IInv, FreshIds
<1>1. o.pc \in {"load", "write"} => CallOK(o)'
  BY <1>q, <1>p, <1>a DEF OpOK, CallOK
<1>2. o.pc = "write" => CopyOK(o)'
  <2>1. SUFFICES ASSUME o.pc = "write"
                 PROVE  CopyOK(o)'
    OBVIOUS
  <2>2. CallOK(o) /\ CopyOK(o) /\ o.s \in Sessions
    BY <2>1, <1>q DEF OpOK, CallOK
  <2>3. RowOK(o.s, o.snap)'
    BY <2>2, <1>p DEF CopyOK, RowOK
  <2>4. QED
    BY <2>2, <2>3, <1>a DEF CopyOK, CallOK, CanTransitionTo
<1>3. o.pc = "provision" => /\ o.s \in Sessions /\ o.rental \in Rentals
                            /\ Anchored(o.s)' /\ Paid(o.s, o.rental)'
  BY <1>q, <1>p, <1>a DEF OpOK
<1>4. o.pc \in {"confirm", "setTx"} =>
        o.s \in Sessions /\ o.tx \in Txs /\ rows'[o.s].state # "NONE"
  BY <1>q, <1>a DEF OpOK
<1>5. o.pc \in {"stopPod", "cleanup"} => o.s \in Sessions
  BY <1>q DEF OpOK
<1>6. o.pc \in {"quotaPending", "insert"} =>
        q \in Requests /\ o.s \in Sessions /\ rows'[o.s].state = "NONE"
  BY <1>q, <1>n, NoneStable DEF OpOK
<1>7. QED
  BY <1>1, <1>2, <1>3, <1>4, <1>5, <1>6 DEF OpOK

\* A process that waits, or whose request is over, promises nothing.
LEMMA QuietOp ==
  ASSUME NEW q \in Procs, op'[q].pc \in {"idle", "done"}
  PROVE  OpOK(q)'
BY DEF OpOK

\* A handler that returns leaves every operation consistent.
LEMMA ReturnOp ==
  ASSUME IInv, [Next]_vars, NEW p \in Procs, NEW q \in Procs, Return(p)
  PROVE  OpOK(q)'
<1>1. op \in [Procs -> Op]
  BY DEF IInv, TypeOK
<1>2. CASE q = p
  <2>1. op'[q].pc \in {"idle", "done"}
    BY <1>1, <1>2, NoOpFields DEF Return
  <2>2. QED
    BY <2>1, QuietOp
<1>3. CASE q # p
  <2>1. op'[q] = op[q]
    BY <1>1, <1>3 DEF Return
  <2>2. QED
    BY <2>1, OpStable
<1>4. QED
  BY <1>2, <1>3

\* So does one that goes on to delete the pod.
LEMMA ContinueOp ==
  ASSUME IInv, [Next]_vars, NEW p \in Procs, NEW q \in Procs, NEW next,
         Continue(p, next), op[p].s \in Sessions
  PROVE  OpOK(q)'
<1>1. op \in [Procs -> Op]
  BY DEF IInv, TypeOK
<1>2. CASE next # "cleanup"
  BY <1>2, ReturnOp DEF Continue
<1>3. CASE next = "cleanup" /\ q = p
  <2>1. op'[q].pc = "cleanup" /\ op'[q].s = op[q].s
    BY <1>1, <1>3 DEF Continue, Op
  <2>2. QED
    BY <1>3, <2>1 DEF OpOK
<1>4. CASE next = "cleanup" /\ q # p
  <2>1. op'[q] = op[q]
    BY <1>1, <1>4 DEF Continue
  <2>2. QED
    BY <2>1, OpStable
<1>5. QED
  BY <1>2, <1>3, <1>4

\* The session manager's steps: what LoadAndValidate reads is a row the session
\* has, and the transition it checked is allowed from there.
LEMMA ManagerOps ==
  ASSUME IInv, [Next]_vars, NEW p \in Procs, NEW q \in Procs, Manager(p)
  PROVE  OpOK(q)'
<1>t. TypeOK /\ op \in [Procs -> Op] /\ OpOK(p)
  BY DEF IInv, TypeOK
<1>1. CASE CleanUp(p)
  BY <1>1, ReturnOp DEF CleanUp
<1>2. CASE Update(p)
  <2>1. op[p].s \in Sessions
    BY <1>2, <1>t DEF Update, OpOK, CallOK
  <2>2. QED
    BY <1>2, <2>1, ContinueOp DEF Update
<1>3. CASE LoadAndValidate(p)
  <2>1. op[p].s \in Sessions /\ CallOK(op[p]) /\ UNCHANGED <<rows, chain>>
    BY <1>3, <1>t DEF LoadAndValidate, OpOK, CallOK
  <2>2. CASE Continue(p, op[p].onErr)
    BY <2>1, <2>2, ContinueOp
  <2>3. CASE /\ Live(op[p].s) /\ CanTransitionTo(rows[op[p].s], op[p].target)
             /\ op' = [op EXCEPT ![p].pc = "write", ![p].snap = rows[op[p].s]]
    <3>1. CASE q # p
      <4>1. op'[q] = op[q]
        BY <1>t, <2>3, <3>1
      <4>2. QED
        BY <4>1, OpStable
    <3>2. CASE q = p
      <4>1. /\ op'[q].pc = "write" /\ op'[q].s = op[q].s /\ op'[q].target = op[q].target
            /\ op'[q].snap = rows[op[q].s] /\ op'[q].rental = op[q].rental
        BY <1>t, <2>3, <3>2 DEF Op
      <4>2. CallOK(op[q])'
        BY <2>1, <3>2, <4>1 DEF CallOK, Anchored, Live, Paid
      <4>3. RowOK(op[q].s, op[q].snap)'
        BY <2>1, <3>2, <4>1 DEF IInv, RowOK, Paid
      <4>4. CopyOK(op[q])'
        <5>1. rows[op[q].s].state \in States
          BY <2>1, <2>3, <3>2, <1>t DEF TypeOK, Row, Live
        <5>2. QED
          BY <2>1, <2>3, <3>2, <4>1, <4>3, <5>1 DEF CopyOK, CanTransitionTo, Anchored, Live
      <4>5. QED
        BY <4>1, <4>2, <4>4 DEF OpOK
    <3>3. QED
      BY <3>1, <3>2
  <2>4. QED
    BY <1>3, <2>2, <2>3 DEF LoadAndValidate
<1>4. QED
  BY <1>1, <1>2, <1>3 DEF Manager
\* A step that replaces p's operation keeps the others consistent, so only p's
\* new one has to be looked at.
LEMMA ReplacedOp ==
  ASSUME IInv, [Next]_vars, NEW p \in Procs, NEW q \in Procs, NEW new,
         op' = [op EXCEPT ![p] = new],
         op'[p] = new => OpOK(p)'
  PROVE  OpOK(q)'
<1>1. op \in [Procs -> Op]
  BY DEF IInv, TypeOK
<1>2. CASE q = p
  BY <1>1, <1>2
<1>3. CASE q # p
  <2>1. op'[q] = op[q]
    BY <1>1, <1>3
  <2>2. QED
    BY <2>1, OpStable
<1>4. QED
  BY <1>2, <1>3

\* The HTTP requests.
LEMMA RequestOps ==
  ASSUME IInv, [Next]_vars, NEW p \in Requests, NEW q \in Procs, Request(p)
  PROVE  OpOK(q)'
<1>t. TypeOK /\ op \in [Procs -> Op] /\ p \in Procs /\ OpOK(p)
  BY DEF IInv, TypeOK, Procs
<1>1. ASSUME NEW s \in Sessions, CreateCheckRunning(p, s)
      PROVE  OpOK(q)'
  <2> DEFINE new == [NoOp EXCEPT !.pc = "quotaPending", !.s = s]
  <2>1. op' = [op EXCEPT ![p] = new] /\ rows'[s].state = "NONE"
    BY <1>1 DEF CreateCheckRunning, Begin
  <2>2. new.pc = "quotaPending" /\ new.s = s
    BY DEF NoOp
  <2>3. op'[p] = new => OpOK(p)'
    BY <2>1, <2>2 DEF OpOK
  <2>4. QED
    BY <1>t, <2>1, <2>3, ReplacedOp
<1>2. ASSUME NEW s \in Sessions, CancelSession(p, s)
      PROVE  OpOK(q)'
  <2> DEFINE new == Call(s, "CANCELLED", NULL, NULL, "idle", "idle")
  <2>1. op' = [op EXCEPT ![p] = new] /\ rows'[s].state # "NONE"
    BY <1>2 DEF CancelSession, Begin, Live
  <2>2. new.pc = "load" /\ new.s = s /\ new.target = "CANCELLED"
    BY CallFields DEF States, TxColumn
  <2>3. op'[p] = new => OpOK(p)'
    BY <2>1, <2>2 DEF OpOK, CallOK
  <2>4. QED
    BY <1>t, <2>1, <2>3, ReplacedOp
<1>3. ASSUME NEW s \in Sessions, StopRead(p, s)
      PROVE  OpOK(q)'
  <2> DEFINE new == [NoOp EXCEPT !.pc = "stopPod", !.s = s]
  <2>1. op' = [op EXCEPT ![p] = new]
    BY <1>3 DEF StopRead, Begin
  <2>2. new.pc = "stopPod" /\ new.s = s
    BY DEF NoOp
  <2>3. op'[p] = new => OpOK(p)'
    BY <2>2 DEF OpOK
  <2>4. QED
    BY <1>t, <2>1, <2>3, ReplacedOp
<1>4. ASSUME NEW s \in Sessions, NEW tx \in Txs, ConfirmRead(p, s, tx)
      PROVE  OpOK(q)'
  <2> DEFINE new == [NoOp EXCEPT !.pc = "confirm", !.s = s, !.tx = tx]
  <2>1. op' = [op EXCEPT ![p] = new] /\ rows'[s].state # "NONE"
    BY <1>4 DEF ConfirmRead, Begin, Live
  <2>2. new.pc = "confirm" /\ new.s = s /\ new.tx = tx
    BY DEF NoOp
  <2>3. op'[p] = new => OpOK(p)'
    BY <2>1, <2>2 DEF OpOK
  <2>4. QED
    BY <1>t, <2>1, <2>3, ReplacedOp
<1>5. CASE CreateCheckPending(p)
  <2>1. CASE Return(p)
    BY <1>t, <2>1, ReturnOp
  <2>2. CASE op' = [op EXCEPT ![p].pc = "insert"]
    <3> DEFINE new == [op[p] EXCEPT !.pc = "insert"]
    <3>1. new.pc = "insert" /\ new.s = op[p].s
      BY <1>t DEF Op
    <3>2. op[p].s \in Sessions /\ rows[op[p].s].state = "NONE" /\ rows' = rows
      BY <1>5, <1>t DEF CreateCheckPending, OpOK
    <3>3. op'[p] = new => OpOK(p)'
      BY <3>1, <3>2 DEF OpOK
    <3>4. QED
      BY <1>t, <2>2, <3>3, ReplacedOp
  <2>3. QED
    BY <1>5, <2>1, <2>2 DEF CreateCheckPending
<1>6. CASE CreateInsert(p) \/ SetTxHash(p) \/ StopDeletePod(p)
  BY <1>6, <1>t, ReturnOp DEF CreateInsert, SetTxHash, StopDeletePod
<1>7. CASE ConfirmGetByTxHash(p)
  <2>1. CASE Return(p)
    BY <1>t, <2>1, ReturnOp
  <2>2. CASE op' = [op EXCEPT ![p].pc = "setTx"]
    <3> DEFINE new == [op[p] EXCEPT !.pc = "setTx"]
    <3>1. new.pc = "setTx" /\ new.s = op[p].s /\ new.tx = op[p].tx
      BY <1>t DEF Op
    <3>2. /\ op[p].s \in Sessions /\ op[p].tx \in Txs
          /\ rows[op[p].s].state # "NONE" /\ rows' = rows
      BY <1>7, <1>t DEF ConfirmGetByTxHash, OpOK
    <3>3. op'[p] = new => OpOK(p)'
      BY <3>1, <3>2 DEF OpOK
    <3>4. QED
      BY <1>t, <2>2, <3>3, ReplacedOp
  <2>3. QED
    BY <1>7, <2>1, <2>2 DEF ConfirmGetByTxHash
<1>8. QED
  BY <1>1, <1>2, <1>3, <1>4, <1>5, <1>6, <1>7 DEF Request

\* A call concerns a session that exists; a FAILED one an anchored session; a
\* RUNNING one a paid session.
LEMMA CalledOp ==
  ASSUME IInv, [Next]_vars, UNCHANGED <<rows, chain>>, NEW p \in Procs, NEW q \in Procs,
         NEW s \in Sessions, NEW target \in {"RUNNING", "STOPPED", "FAILED", "CANCELLED"},
         NEW tx \in TxColumn, NEW rental \in Rentals \cup {NULL},
         NEW onOk \in {"idle", "cleanup"}, NEW onErr \in {"idle", "cleanup"},
         op' = [op EXCEPT ![p] = Call(s, target, tx, rental, onOk, onErr)],
         rows[s].state # "NONE",
         target \in {"FAILED", "RUNNING"} => Anchored(s),
         target = "RUNNING" => Paid(s, rental)
  PROVE  OpOK(q)'
<1> DEFINE new == Call(s, target, tx, rental, onOk, onErr)
<1>1. new.pc = "load" /\ new.s = s /\ new.target = target /\ new.rental = rental
  BY CallFields DEF States
<1>2. op'[p] = new => OpOK(p)'
  BY <1>1 DEF OpOK, CallOK, Anchored, Live, Paid
<1>3. QED
  BY <1>2, ReplacedOp

\* The workers, the watcher and the event processor.
LEMMA BackgroundOps ==
  ASSUME IInv, [Next]_vars, NEW q \in Procs,
         Worker \/ Enforcer \/ Expirer \/ Watcher \/ Listener
  PROVE  OpOK(q)'
<1>t. /\ TypeOK /\ op \in [Procs -> Op] /\ rows \in [Sessions -> Row]
      /\ Background \subseteq Procs
  BY DEF IInv, TypeOK, Procs
<1>c. NULL \in TxColumn /\ EMPTY \in TxColumn /\ Rentals \subseteq TxColumn
      /\ Txs \subseteq TxColumn
  BY DEF TxColumn
<1>a. \A s \in Sessions : Anchored(s) => rows[s].state # "NONE"
  BY DEF Anchored, Live
<1>n. CASE UNCHANGED op
  BY <1>n, OpStable
<1>1. CASE WorkerList \/ ExpirerList
  BY <1>1, <1>n DEF WorkerList, ExpirerList, List
<1>2. ASSUME NEW s \in Sessions, NEW tx \in Txs, ProcessSession(s, tx)
      PROVE  OpOK(q)'
  <2>1. /\ "worker" \in Procs /\ UNCHANGED <<rows, chain>>
        /\ <<s, tx>> \in batch["worker"]
    BY <1>2, <1>t DEF ProcessSession, Take, Ready, chainVars
  <2>2. Anchored(s)
    BY <2>1 DEF IInv, BatchOK, Batchers
  <2>3. CASE op' = [op EXCEPT !["worker"] = NoOp]
    <3>1. op'["worker"] = NoOp => OpOK("worker")'
      BY <2>1, NoOpFields, QuietOp
    <3>2. QED
      BY <2>1, <2>3, <3>1, ReplacedOp
  <2>4. CASE op' = [op EXCEPT !["worker"] = Call(s, "FAILED", NULL, NULL, "idle", "idle")]
    BY <2>1, <2>2, <2>4, <1>a, <1>c, CalledOp
  <2>5. CASE /\ VerifyTransaction(tx, s) = "confirmed"
             /\ op' = [op EXCEPT !["worker"] =
                         [NoOp EXCEPT !.pc = "provision", !.s = s, !.tx = tx,
                                      !.rental = RentalOf[tx]]]
    <3> DEFINE new == [NoOp EXCEPT !.pc = "provision", !.s = s, !.tx = tx,
                                   !.rental = RentalOf[tx]]
    <3>1. new.pc = "provision" /\ new.s = s /\ new.rental = RentalOf[tx]
      BY DEF NoOp
    <3>2. RentalOf[tx] \in Rentals
      BY ConstantsAssumption
    <3>3. chain[RentalOf[tx]] \in {"active", "stopped"} /\ s \in Renter[RentalOf[tx]]
      BY <2>5, <3>2, <1>t DEF VerifyTransaction, TypeOK, ChainStatus
    <3>4. op'["worker"] = new => OpOK("worker")'
      BY <2>1, <2>2, <3>1, <3>2, <3>3 DEF OpOK, Anchored, Live, Paid
    <3>5. QED
      BY <2>1, <2>5, <3>4, ReplacedOp
  <2>6. QED
    BY <1>2, <2>3, <2>4, <2>5 DEF ProcessSession
<1>3. CASE Provision
  <2> DEFINE o == op["worker"]
  <2>1. "worker" \in Procs /\ UNCHANGED <<rows, chain>> /\ o.pc = "provision"
    BY <1>3, <1>t DEF Provision, chainVars
  <2>2. /\ o.s \in Sessions /\ o.rental \in Rentals /\ Anchored(o.s) /\ Paid(o.s, o.rental)
        /\ o.tx \in TxColumn
    BY <2>1, <1>t DEF IInv, OpOK, Op
  <2>3. CASE op' = [op EXCEPT !["worker"] = Call(o.s, "FAILED", NULL, NULL, "idle", "idle")]
    BY <2>1, <2>2, <2>3, <1>a, <1>c, CalledOp
  <2>4. CASE op' = [op EXCEPT !["worker"] =
                      Call(o.s, "RUNNING", o.tx, o.rental, "idle", "cleanup")]
    BY <2>1, <2>2, <2>4, <1>a, <1>c, CalledOp
  <2>5. QED
    BY <1>3, <2>3, <2>4 DEF Provision
<1>4. ASSUME NEW old \in SUBSET Sessions, SoftDeletePendingBefore(old) \/ EnforcerList(old)
      PROVE  OpOK(q)'
  BY <1>4, <1>n DEF SoftDeletePendingBefore, EnforcerList, List
<1>5. ASSUME NEW s \in Sessions, NEW tx \in TxColumn, EnforceRunningTimeout(s, tx)
      PROVE  OpOK(q)'
  <2>1. /\ "enforcer" \in Procs /\ UNCHANGED <<rows, chain>>
        /\ <<s, tx>> \in batch["enforcer"]
        /\ op' = [op EXCEPT !["enforcer"] = Call(s, "FAILED", NULL, NULL, "idle", "idle")]
    BY <1>5, <1>t DEF EnforceRunningTimeout, Take, Ready, chainVars
  <2>2. Anchored(s)
    BY <2>1 DEF IInv, BatchOK, Batchers
  <2>3. QED
    BY <2>1, <2>2, <1>a, <1>c, CalledOp
<1>6. ASSUME NEW s \in Sessions, NEW tx \in TxColumn, ExpireSession(s, tx)
      PROVE  OpOK(q)'
  <2>1. /\ "expirer" \in Procs /\ UNCHANGED <<rows, chain>>
        /\ <<s, tx>> \in batch["expirer"]
        /\ op' = [op EXCEPT !["expirer"] = Call(s, "STOPPED", EMPTY, NULL, "idle", "idle")]
    BY <1>6, <1>t DEF ExpireSession, Take, Ready, chainVars
  <2>2. Anchored(s)
    BY <2>1 DEF IInv, BatchOK, Batchers
  <2>3. QED
    BY <2>1, <2>2, <1>a, <1>c, CalledOp
<1>7. ASSUME NEW s \in Sessions, OnPodFailed(s)
      PROVE  OpOK(q)'
  <2>1. /\ "watcher" \in Procs /\ UNCHANGED <<rows, chain>> /\ pods[s] # "none"
        /\ op' = [op EXCEPT !["watcher"] = Call(s, "FAILED", NULL, NULL, "cleanup", "idle")]
    BY <1>7, <1>t DEF OnPodFailed, Ready, chainVars
  <2>2. Anchored(s)
    BY <2>1 DEF IInv, PodOK
  <2>3. QED
    BY <2>1, <2>2, <1>a, <1>c, CalledOp
<1>8. ASSUME NEW s \in Sessions, OnPodSucceeded(s) \/ OnPodDeleted(s)
      PROVE  OpOK(q)'
  <2>1. "watcher" \in Procs /\ UNCHANGED <<rows, chain>>
    BY <1>8, <1>t DEF OnPodSucceeded, OnPodDeleted, Ready, chainVars
  <2>2. CASE /\ rows[s].state # "NONE"
             /\ op' = [op EXCEPT !["watcher"] = Call(s, "STOPPED", EMPTY, NULL, "idle", "idle")]
    BY <2>1, <2>2, <1>c, CalledOp
  <2>3. CASE op' = [op EXCEPT !["watcher"] = NoOp]
    <3>1. op'["watcher"] = NoOp => OpOK("watcher")'
      BY <2>1, NoOpFields, QuietOp
    <3>2. QED
      BY <2>1, <2>3, <3>1, ReplacedOp
  <2>4. QED
    BY <1>8, <2>2, <2>3 DEF OnPodSucceeded, OnPodDeleted, Live
<1>9. ASSUME NEW r \in Rentals, HandleRentalStopped(r)
      PROVE  OpOK(q)'
  <2>1. "listener" \in Procs /\ UNCHANGED <<rows, chain>>
    BY <1>9, <1>t DEF HandleRentalStopped, Ready
  <2>2. ASSUME NEW s \in GetByRentalID(r),
               op' = [op EXCEPT !["listener"] = Call(s, "STOPPED", r, r, "cleanup", "idle")]
        PROVE  OpOK(q)'
    <3>1. s \in Sessions /\ rows[s].state # "NONE"
      BY DEF GetByRentalID, Live
    <3>2. r \in TxColumn /\ r \in Rentals \cup {NULL}
      BY <1>c
    <3>3. QED
      BY <2>1, <2>2, <3>1, <3>2, CalledOp
  <2>3. QED
    BY <1>9, <1>n, <2>2 DEF HandleRentalStopped
<1>10. QED
  BY <1>1, <1>2, <1>3, <1>4, <1>5, <1>6, <1>7, <1>8, <1>9
     DEF Worker, Enforcer, Expirer, Watcher, Listener

\* Every operation in flight stays consistent with the table, whoever steps.
LEMMA OpsPreserved ==
  ASSUME IInv, [Next]_vars, NEW q \in Procs
  PROVE  OpOK(q)'
<1>1. CASE Cluster \/ Environment \/ UNCHANGED vars
  <2>1. UNCHANGED op
    BY <1>1 DEF Cluster, PodExits, PodRemoved, ReapPod, Environment, MineStart,
       StopOnChain, TimeReachesExpiration, vars
  <2>2. QED
    BY <2>1, OpStable
<1>2. CASE Crash
  <2>1. op'[q].pc \in {"idle", "done"}
    BY <1>2, NoOpFields DEF Crash
  <2>2. QED
    BY <2>1, QuietOp
<1>3. QED
  BY <1>1, <1>2, ManagerOps, RequestOps, BackgroundOps DEF Next

-----------------------------------------------------------------------------
\* A request is about to create a session only if it was already, or if it has
\* just chosen an id that no other request has.
LEMMA Creators ==
  ASSUME IInv, [Next]_vars, NEW q \in Requests,
         op'[q].pc \in {"quotaPending", "insert"}
  PROVE  \/ op[q].pc \in {"quotaPending", "insert"} /\ op'[q].s = op[q].s
         \/ CreateCheckRunning(q, op'[q].s)
<1> DEFINE Good == \/ op[q].pc \in {"quotaPending", "insert"} /\ op'[q].s = op[q].s
                   \/ CreateCheckRunning(q, op'[q].s)
<1>t. /\ op \in [Procs -> Op] /\ Requests \subseteq Procs /\ q \in Procs
      /\ q \notin {"worker", "watcher", "listener", "enforcer", "expirer"}
  BY ConstantsAssumption DEF IInv, TypeOK, Procs, BackgroundNames
<1>e. CASE op'[q] = op[q]
  BY <1>e
<1>r. ASSUME NEW p \in Procs, Return(p)
      PROVE  Good
  <2>1. CASE p = q
    BY <1>r, <1>t, <2>1, NoOpFields DEF Return
  <2>2. CASE p # q
    BY <1>r, <1>t, <1>e, <2>2 DEF Return
  <2>3. QED
    BY <2>1, <2>2
<1>c. ASSUME NEW p \in Procs, NEW next, Continue(p, next)
      PROVE  Good
  <2>1. CASE next # "cleanup"
    BY <1>c, <1>r, <2>1 DEF Continue
  <2>2. CASE next = "cleanup"
    <3>1. op' = [op EXCEPT ![p].pc = "cleanup"]
      BY <1>c, <2>2 DEF Continue
    <3>2. p # q
      BY <3>1, <1>t DEF Op
    <3>3. QED
      BY <3>1, <3>2, <1>t, <1>e
  <2>3. QED
    BY <2>1, <2>2
<1>1. ASSUME NEW p \in Procs, Manager(p)
      PROVE  Good
  <2>1. CASE Update(p) \/ CleanUp(p)
    BY <2>1, <1>r, <1>c DEF Update, CleanUp
  <2>2. CASE LoadAndValidate(p)
    <3>1. CASE op' = [op EXCEPT ![p].pc = "write", ![p].snap = rows[op[p].s]]
      <4>1. p # q
        BY <3>1, <1>t DEF Op
      <4>2. QED
        BY <3>1, <4>1, <1>t, <1>e
    <3>2. QED
      BY <2>2, <3>1, <1>c DEF LoadAndValidate
  <2>3. QED
    BY <1>1, <2>1, <2>2 DEF Manager
<1>2. ASSUME NEW p \in Requests, Request(p)
      PROVE  Good
  <2>p. p \in Procs
    BY <1>t
  <2>1. ASSUME NEW s \in Sessions, CreateCheckRunning(p, s)
        PROVE  Good
    <3>1. CASE p = q
      <4>1. op'[q].s = s
        BY <2>1, <3>1, <1>t DEF CreateCheckRunning, Begin, NoOp
      <4>2. QED
        BY <2>1, <3>1, <4>1
    <3>2. CASE p # q
      BY <2>1, <3>2, <1>t, <1>e DEF CreateCheckRunning, Begin
    <3>3. QED
      BY <3>1, <3>2
  <2>2. ASSUME NEW s \in Sessions, NEW new,
               op' = [op EXCEPT ![p] = new], new.pc \in {"load", "stopPod", "confirm"}
        PROVE  Good
    BY <2>2, <1>t, <1>e
  <2>3. ASSUME NEW s \in Sessions, CancelSession(p, s)
        PROVE  Good
    <3>1. Call(s, "CANCELLED", NULL, NULL, "idle", "idle").pc = "load"
      BY CallFields DEF States, TxColumn
    <3>2. QED
      BY <2>2, <2>3, <3>1 DEF CancelSession, Begin
  <2>4. ASSUME NEW s \in Sessions, StopRead(p, s)
        PROVE  Good
    <3>1. [NoOp EXCEPT !.pc = "stopPod", !.s = s].pc = "stopPod"
      BY DEF NoOp
    <3>2. QED
      BY <2>2, <2>4, <3>1 DEF StopRead, Begin
  <2>5. ASSUME NEW s \in Sessions, NEW tx \in Txs, ConfirmRead(p, s, tx)
        PROVE  Good
    <3>1. [NoOp EXCEPT !.pc = "confirm", !.s = s, !.tx = tx].pc = "confirm"
      BY DEF NoOp
    <3>2. QED
      BY <2>2, <2>5, <3>1 DEF ConfirmRead, Begin
  <2>6. CASE CreateCheckPending(p)
    <3>1. CASE op' = [op EXCEPT ![p].pc = "insert"]
      <4>1. CASE p = q
        BY <2>6, <3>1, <4>1, <1>t DEF CreateCheckPending, Op
      <4>2. CASE p # q
        BY <3>1, <4>2, <1>t, <1>e
      <4>3. QED
        BY <4>1, <4>2
    <3>2. QED
      BY <2>6, <2>p, <3>1, <1>r DEF CreateCheckPending
  <2>7. CASE CreateInsert(p) \/ SetTxHash(p) \/ StopDeletePod(p)
    BY <2>7, <2>p, <1>r DEF CreateInsert, SetTxHash, StopDeletePod
  <2>8. CASE ConfirmGetByTxHash(p)
    <3>1. CASE op' = [op EXCEPT ![p].pc = "setTx"]
      <4>1. p # q
        BY <3>1, <1>t DEF Op
      <4>2. QED
        BY <3>1, <4>1, <1>t, <1>e
    <3>2. QED
      BY <2>8, <2>p, <3>1, <1>r DEF ConfirmGetByTxHash
  <2>9. QED
    BY <1>2, <2>1, <2>3, <2>4, <2>5, <2>6, <2>7, <2>8 DEF Request
<1>3. CASE Worker \/ Enforcer \/ Expirer \/ Watcher \/ Listener
  <2>1. op'[q] = op[q]
    BY <1>3, <1>t DEF Worker, WorkerList, List, Provision, ProcessSession, Enforcer,
       SoftDeletePendingBefore, EnforcerList, EnforceRunningTimeout, Expirer, ExpirerList,
       ExpireSession, Watcher, OnPodFailed, OnPodSucceeded, OnPodDeleted, Listener,
       HandleRentalStopped
  <2>2. QED
    BY <2>1, <1>e
<1>4. CASE Cluster \/ Environment \/ UNCHANGED vars
  BY <1>4, <1>e DEF Cluster, PodExits, PodRemoved, ReapPod, Environment, MineStart,
     StopOnChain, TimeReachesExpiration, vars
<1>5. CASE Crash
  BY <1>5, <1>t, NoOpFields DEF Crash
<1>6. QED
  BY <1>1, <1>2, <1>3, <1>4, <1>5 DEF Next

\* No two requests create the same session.
LEMMA FreshIdsPreserved ==
  ASSUME IInv, [Next]_vars
  PROVE  FreshIds'
<1> SUFFICES ASSUME NEW p \in Requests, NEW q \in Requests, p # q, op'[p].s = op'[q].s,
                    op'[p].pc \in {"quotaPending", "insert"},
                    op'[q].pc \in {"quotaPending", "insert"}
             PROVE  FALSE
  BY DEF FreshIds
<1>t. op \in [Procs -> Op] /\ Requests \subseteq Procs
  BY DEF IInv, TypeOK, Procs
<1>1. ~CreateCheckRunning(p, op'[p].s)
  BY <1>t DEF CreateCheckRunning, Begin
<1>2. ~CreateCheckRunning(q, op'[q].s)
  BY <1>t DEF CreateCheckRunning, Begin
<1>3. QED
  BY <1>1, <1>2, Creators DEF IInv, FreshIds

\* A pod is only created by Provision, for a session whose payment has been
\* confirmed and which no cleanup can take any more.
LEMMA PodsPreserved ==
  ASSUME IInv, [Next]_vars, NEW s \in Sessions
  PROVE  PodOK(s)'
<1>t. TypeOK
  BY DEF IInv
<1>1. pods'[s] # "none" => pods[s] # "none" \/ (Provision /\ op["worker"].s = s)
  BY <1>t DEF Next, vars, podVars, Request, CreateCheckRunning, CancelSession, StopRead,
     ConfirmRead, CreateCheckPending, CreateInsert, ConfirmGetByTxHash, SetTxHash,
     StopDeletePod, Manager, LoadAndValidate, Update, CleanUp, Worker, WorkerList, List,
     Provision, ProcessSession, Enforcer, SoftDeletePendingBefore, EnforcerList,
     EnforceRunningTimeout, Expirer, ExpirerList, ExpireSession, Watcher, OnPodFailed,
     OnPodSucceeded, OnPodDeleted, Listener, HandleRentalStopped, Cluster, PodExits,
     PodRemoved, ReapPod, Environment, MineStart, StopOnChain, TimeReachesExpiration,
     Crash, TypeOK
<1>2. Provision => /\ Anchored(op["worker"].s)
                   /\ \E r \in Rentals : Paid(op["worker"].s, r)
  <2>1. Provision => "worker" \in Procs /\ op["worker"].pc = "provision"
    BY DEF Provision, Procs
  <2>2. QED
    BY <2>1 DEF IInv, OpOK
<1>3. pods'[s] # "none" => Anchored(s) /\ \E r \in Rentals : Paid(s, r)
  BY <1>1, <1>2 DEF IInv, PodOK
<1>4. \A r \in Rentals : Paid(s, r) => Paid(s, r)'
  BY <1>t, PaidStable
<1>5. QED
  BY <1>3, <1>4, RowChange DEF PodOK

\* The rows a worker has listed stay out of the TTL cleanup's reach until it
\* gets to them.
LEMMA BatchesPreserved ==
  ASSUME IInv, [Next]_vars, NEW b \in Batchers
  PROVE  BatchOK(b)'
<1>t. TypeOK
  BY DEF IInv
<1>s. batch[b] \subseteq Sessions \X TxColumn
  BY <1>t DEF TypeOK
<1>1. ASSUME NEW e \in batch'[b]
      PROVE  e \in batch[b] \/ (e[1] \in Sessions /\ Anchored(e[1]))
  <2>1. ASSUME NEW p, NEW ss \in SUBSET Sessions, List(p, ss),
               \A s \in ss : Anchored(s)
        PROVE  e \in batch[b] \/ (e[1] \in Sessions /\ Anchored(e[1]))
    <3>1. batch'[b] = batch[b] \/ batch'[b] = {<<s, rows[s].tx>> : s \in ss}
      BY <1>t, <2>1 DEF List, TypeOK
    <3>2. QED
      BY <1>1, <2>1, <3>1
  <2>2. /\ \A s \in ListPendingWithTxHash : Anchored(s)
        /\ \A s \in FindExpiringSessions : Anchored(s)
        /\ \A s \in FindStaleRunning : Anchored(s)
    BY DEF ListPendingWithTxHash, FindExpiringSessions, FindStaleRunning, Anchored
  <2>3. CASE WorkerList \/ ExpirerList
    BY <2>1, <2>2, <2>3 DEF WorkerList, ExpirerList, ListPendingWithTxHash,
       FindExpiringSessions, FindStaleRunning
  <2>4. CASE \E ss \in SUBSET Sessions : EnforcerList(ss)
    BY <2>1, <2>2, <2>4 DEF EnforcerList
  <2>5. ASSUME NEW p, NEW s, NEW tx, Take(p, s, tx)
        PROVE  e \in batch[b]
    BY <1>1, <1>t, <2>5 DEF Take, TypeOK
  <2>6. CASE \/ \E s \in Sessions, tx \in Txs : ProcessSession(s, tx)
             \/ \E s \in Sessions, tx \in TxColumn :
                  EnforceRunningTimeout(s, tx) \/ ExpireSession(s, tx)
    BY <2>5, <2>6 DEF ProcessSession, EnforceRunningTimeout, ExpireSession
  <2>7. CASE Crash
    BY <1>1, <2>7 DEF Crash
  <2>8. CASE UNCHANGED batch
    BY <1>1, <2>8
  <2>9. QED
    BY <2>3, <2>4, <2>6, <2>7, <2>8 DEF Next, vars, Request, CreateCheckRunning,
       CancelSession, StopRead, ConfirmRead, CreateCheckPending, CreateInsert,
       ConfirmGetByTxHash, SetTxHash, StopDeletePod, Manager, LoadAndValidate, Update,
       CleanUp, Worker, Provision, Enforcer, SoftDeletePendingBefore, Expirer, Watcher,
       OnPodFailed, OnPodSucceeded, OnPodDeleted, Listener, HandleRentalStopped, Cluster,
       PodExits, PodRemoved, ReapPod, Environment, MineStart, StopOnChain,
       TimeReachesExpiration
<1>2. \A e \in batch[b] : e[1] \in Sessions /\ Anchored(e[1])
  BY <1>s DEF IInv, BatchOK
<1>3. \A s \in Sessions : Anchored(s) => Anchored(s)'
  BY RowChange
<1>4. QED
  BY <1>1, <1>2, <1>3 DEF BatchOK

\* Only pods that exist are terminating.
LEMMA TerminatingPreserved ==
  ASSUME IInv, [Next]_vars
  PROVE  (terminating \subseteq {s \in Sessions : pods[s] # "none"})'
<1>t. TypeOK /\ terminating \subseteq {s \in Sessions : pods[s] # "none"}
  BY DEF IInv
<1>1. CASE Provision
  BY <1>1, <1>t DEF Provision, TypeOK
<1>2. CASE Cluster
  BY <1>2, <1>t DEF Cluster, PodExits, PodRemoved, ReapPod, DeleteGPUSession, TypeOK
<1>3. ASSUME NEW s \in Sessions, UNCHANGED pods,
             DeleteGPUSession(s) \/ UNCHANGED terminating
      PROVE  (terminating \subseteq {z \in Sessions : pods[z] # "none"})'
  BY <1>3, <1>t DEF DeleteGPUSession
<1>4. ASSUME NEW p \in Procs, CleanUp(p) \/ StopDeletePod(p)
      PROVE  (terminating \subseteq {z \in Sessions : pods[z] # "none"})'
  <2>1. op[p].s \in Sessions
    BY <1>4 DEF CleanUp, StopDeletePod, IInv, OpOK
  <2>2. QED
    BY <1>3, <1>4, <2>1 DEF CleanUp, StopDeletePod
<1>5. ASSUME NEW s \in Sessions, NEW tx \in TxColumn, ExpireSession(s, tx)
      PROVE  (terminating \subseteq {z \in Sessions : pods[z] # "none"})'
  BY <1>3, <1>5 DEF ExpireSession
<1>6. CASE UNCHANGED <<pods, terminating>>
  BY <1>6, <1>t
<1>7. QED
  BY <1>1, <1>2, <1>4, <1>5, <1>6 DEF Next, vars, podVars, Procs, Request,
     CreateCheckRunning, CancelSession, StopRead, ConfirmRead, CreateCheckPending,
     CreateInsert, ConfirmGetByTxHash, SetTxHash, Manager, LoadAndValidate, Update,
     Worker, WorkerList, List, ProcessSession, Enforcer, SoftDeletePendingBefore,
     EnforcerList, EnforceRunningTimeout, Expirer, ExpirerList, Watcher, OnPodFailed,
     OnPodSucceeded, OnPodDeleted, Listener, HandleRentalStopped, Environment, MineStart,
     StopOnChain, TimeReachesExpiration, Crash

-----------------------------------------------------------------------------
\* The invariant holds at the start ...
LEMMA InitIInv ==
  Init => IInv
<1> SUFFICES ASSUME Init
             PROVE  IInv
  OBVIOUS
<1>1. NoRow \in Row /\ NewRow \in Row
  BY DEF NewRow, NoRow, Row, States, TxColumn
<1>2. rows \in [Sessions -> {NoRow, NewRow}]
  BY DEF Init
<1>3. TypeOK
  <2>1. rows \in [Sessions -> Row]
    BY <1>1, <1>2
  <2>2. QED
    BY <2>1, NoOpFields, ConstantsAssumption DEF Init, TypeOK, PodPhase, ChainStatus
<1>4. \A s \in Sessions : RowOK(s, rows[s]) /\ DeletedOK(s) /\ PodOK(s)
  <2>1. \A s \in Sessions : /\ ~rows[s].deleted /\ ~rows[s].ended /\ rows[s].rental = NULL
                            /\ rows[s].tx = NULL /\ rows[s].state \in {"NONE", "PENDING"}
    BY <1>2 DEF NoRow, NewRow
  <2>2. QED
    BY <2>1 DEF RowOK, DeletedOK, PodOK, Terminal, Init
<1>5. \A p \in Procs : op[p].pc = "idle"
  BY NoOpFields DEF Init
<1>6. /\ \A p \in Batchers : BatchOK(p)
      /\ \A p \in Procs : OpOK(p)
      /\ FreshIds
  BY <1>5 DEF Init, BatchOK, OpOK, FreshIds, Procs
<1>7. QED
  BY <1>3, <1>4, <1>6 DEF IInv, Init

\* ... and every step keeps it.
LEMMA NextIInv ==
  IInv /\ [Next]_vars => IInv'
<1> SUFFICES ASSUME IInv, [Next]_vars
             PROVE  IInv'
  OBVIOUS
<1>1. TypeOK'
  BY TypeStep
<1>2. \A s \in Sessions : (RowOK(s, rows[s]) /\ DeletedOK(s) /\ PodOK(s))'
  BY RowsPreserved, PodsPreserved
<1>3. \A p \in Batchers : BatchOK(p)'
  BY BatchesPreserved
<1>4. \A p \in Procs : OpOK(p)'
  BY OpsPreserved
<1>5. QED
  BY <1>1, <1>2, <1>3, <1>4, FreshIdsPreserved, TerminatingPreserved DEF IInv

\* The invariant holds in every reachable state, for every number of sessions,
\* rentals, requests and crashes.
THEOREM Invariance ==
  Spec => []IInv
BY InitIInv, NextIInv, PTL DEF Spec

\* Every variable keeps its type: no transition writes an ill-formed row.
THEOREM TypeCorrect ==
  Spec => []TypeOK
<1>1. IInv => TypeOK
  BY DEF IInv
<1>2. QED
  BY <1>1, Invariance, PTL

\* The TTL cleanup of PENDING sessions (SoftDeletePendingBefore) never takes a
\* session that has a transaction, has run, or has a pod.
THEOREM CleanupIsSafe ==
  Spec => []CleanupSparesConfirmed
<1>1. IInv => CleanupSparesConfirmed
  BY DEF IInv, CleanupSparesConfirmed, DeletedOK, PodOK, Anchored, Live
<1>2. QED
  BY <1>1, Invariance, PTL

\* A session that runs or has run was paid for on chain, and its settlement
\* columns agree with its state, whatever stale copies Update writes.
THEOREM RunningIsPaid ==
  Spec => []RunsArePaid
<1>1. IInv => RunsArePaid
  <2> SUFFICES ASSUME IInv, NEW s \in Sessions
               PROVE  /\ rows[s].state \in {"RUNNING", "STOPPED"} => Paid(s, rows[s].rental)
                      /\ rows[s].state \in States => (rows[s].ended <=> rows[s].state \in Terminal)
    BY DEF RunsArePaid
  <2>1. RowOK(s, rows[s]) /\ rows[s] \in Row
    BY DEF IInv, TypeOK
  <2>2. rows[s].ended \in BOOLEAN
    BY <2>1 DEF Row
  <2>3. QED
    BY <2>1, <2>2 DEF RowOK
<1>2. QED
  BY <1>1, Invariance, PTL

\* The hub never creates a GPU pod before the contract confirmed the payment
\* of its session.
THEOREM PodsOnlyForPaid ==
  Spec => []PodsArePaid
<1>1. IInv => PodsArePaid
  BY DEF IInv, PodsArePaid, PodOK
<1>2. QED
  BY <1>1, Invariance, PTL

-----------------------------------------------------------------------------
\* Where an operation of p that may write the table comes from: a copy is held
\* because p had it or has just loaded it, and a RUNNING transition is called
\* only by the worker.
LEMMA NewCopies ==
  ASSUME IInv, [Next]_vars, NEW q \in Procs
  PROVE  /\ op'[q].pc = "write" =>
              \/ op'[q] = op[q]
              \/ /\ LoadAndValidate(q) /\ op[q].pc = "load"
                 /\ op'[q].s = op[q].s /\ op'[q].target = op[q].target
                 /\ op'[q].snap = rows[op[q].s]
                 /\ CanTransitionTo(rows[op[q].s], op[q].target)
         /\ op'[q].pc = "load" => \/ op'[q] = op[q] \/ q = "worker"
                                  \/ op'[q].target # "RUNNING"
<1> DEFINE Good == /\ op'[q].pc = "write" =>
                        \/ op'[q] = op[q]
                        \/ /\ LoadAndValidate(q) /\ op[q].pc = "load"
                           /\ op'[q].s = op[q].s /\ op'[q].target = op[q].target
                           /\ op'[q].snap = rows[op[q].s]
                           /\ CanTransitionTo(rows[op[q].s], op[q].target)
                   /\ op'[q].pc = "load" => \/ op'[q] = op[q] \/ q = "worker"
                                            \/ op'[q].target # "RUNNING"
<1>t. op \in [Procs -> Op] /\ Requests \subseteq Procs /\ Background \subseteq Procs
  BY DEF IInv, TypeOK, Procs
<1>c. NULL \in TxColumn /\ EMPTY \in TxColumn /\ Rentals \subseteq TxColumn
  BY DEF TxColumn
<1>e. CASE op'[q] = op[q] \/ op'[q].pc \notin {"load", "write"}
  BY <1>e
<1>s. ASSUME NEW p \in Procs, NEW new, op' = [op EXCEPT ![p] = new],
             new.pc \notin {"load", "write"}
      PROVE  Good
  BY <1>s, <1>t, <1>e
<1>r. ASSUME NEW p \in Procs, Return(p)
      PROVE  Good
  BY <1>r, <1>s, NoOpFields DEF Return
<1>n. ASSUME NEW p \in Procs, NEW next, Continue(p, next)
      PROVE  Good
  <2>1. [op[p] EXCEPT !.pc = "cleanup"].pc = "cleanup"
    BY <1>t DEF Op
  <2>2. QED
    BY <1>n, <1>r, <1>s, <2>1 DEF Continue
<1>k. ASSUME NEW p \in Procs, NEW s \in Sessions,
             NEW target \in {"STOPPED", "FAILED", "CANCELLED"},
             NEW tx \in TxColumn, NEW rental \in Rentals \cup {NULL},
             NEW onOk \in {"idle", "cleanup"}, NEW onErr \in {"idle", "cleanup"},
             op' = [op EXCEPT ![p] = Call(s, target, tx, rental, onOk, onErr)]
      PROVE  Good
  <2> DEFINE new == Call(s, target, tx, rental, onOk, onErr)
  <2>1. new.pc = "load" /\ new.target = target
    BY CallFields DEF States
  <2> HIDE DEF new
  <2>2. QED
    BY <1>k, <1>t, <2>1 DEF new
<1>1. ASSUME NEW p \in Procs, Manager(p)
      PROVE  Good
  <2>1. CASE Update(p) \/ CleanUp(p)
    BY <2>1, <1>r, <1>n DEF Update, CleanUp
  <2>2. CASE LoadAndValidate(p)
    <3>1. CASE /\ op' = [op EXCEPT ![p].pc = "write", ![p].snap = rows[op[p].s]]
               /\ CanTransitionTo(rows[op[p].s], op[p].target)
      <4>1. CASE p = q
        <5>1. /\ op'[q].pc = "write" /\ op'[q].s = op[q].s
              /\ op'[q].target = op[q].target /\ op'[q].snap = rows[op[q].s]
          BY <3>1, <4>1, <1>t DEF Op
        <5>2. op[q].pc = "load"
          BY <2>2, <4>1 DEF LoadAndValidate
        <5>3. QED
          BY <2>2, <3>1, <4>1, <5>1, <5>2
      <4>2. CASE p # q
        BY <3>1, <4>2, <1>t, <1>e
      <4>3. QED
        BY <4>1, <4>2
    <3>2. QED
      BY <2>2, <3>1, <1>n DEF LoadAndValidate
  <2>3. QED
    BY <1>1, <2>1, <2>2 DEF Manager
<1>2. ASSUME NEW p \in Requests, Request(p)
      PROVE  Good
  <2>p. p \in Procs
    BY <1>t
  <2>1. ASSUME NEW s \in Sessions, CancelSession(p, s)
        PROVE  Good
    BY <2>1, <2>p, <1>c, <1>k DEF CancelSession, Begin
  <2>2. ASSUME NEW s \in Sessions,
               \/ CreateCheckRunning(p, s) \/ StopRead(p, s)
               \/ \E tx \in Txs : ConfirmRead(p, s, tx)
        PROVE  Good
    <3>1. /\ [NoOp EXCEPT !.pc = "quotaPending", !.s = s].pc = "quotaPending"
          /\ [NoOp EXCEPT !.pc = "stopPod", !.s = s].pc = "stopPod"
          /\ \A tx : [NoOp EXCEPT !.pc = "confirm", !.s = s, !.tx = tx].pc = "confirm"
      BY DEF NoOp
    <3>2. QED
      BY <2>2, <2>p, <3>1, <1>s DEF CreateCheckRunning, StopRead, ConfirmRead, Begin
  <2>3. CASE CreateCheckPending(p) \/ ConfirmGetByTxHash(p)
    <3>1. /\ [op[p] EXCEPT !.pc = "insert"].pc = "insert"
          /\ [op[p] EXCEPT !.pc = "setTx"].pc = "setTx"
      BY <1>t DEF Op
    <3>2. QED
      BY <2>3, <2>p, <3>1, <1>r, <1>s DEF CreateCheckPending, ConfirmGetByTxHash
  <2>4. CASE CreateInsert(p) \/ SetTxHash(p) \/ StopDeletePod(p)
    BY <2>4, <2>p, <1>r DEF CreateInsert, SetTxHash, StopDeletePod
  <2>5. QED
    BY <1>2, <2>1, <2>2, <2>3, <2>4 DEF Request
<1>3. CASE Worker
  <2>1. q # "worker" => op'[q] = op[q]
    BY <1>3, <1>t DEF Worker, WorkerList, List, Provision, ProcessSession
  <2>2. q = "worker" => op'[q] = op[q] \/ op'[q].pc # "write"
    <3>1. ASSUME NEW s \in Sessions, NEW tx \in Txs, ProcessSession(s, tx)
          PROVE  op'["worker"].pc # "write"
      <4>1. [NoOp EXCEPT !.pc = "provision", !.s = s, !.tx = tx,
                         !.rental = RentalOf[tx]].pc = "provision"
        BY DEF NoOp
      <4>2. Call(s, "FAILED", NULL, NULL, "idle", "idle").pc = "load"
        BY <1>c, CallFields DEF States
      <4>3. "worker" \in Procs
        BY <3>1, <1>t DEF ProcessSession, Take, Ready
      <4>4. QED
        BY <3>1, <1>t, <4>1, <4>2, <4>3, NoOpFields DEF ProcessSession
    <3>2. CASE Provision
      <4>1. "worker" \in Procs /\ op["worker"].pc = "provision"
        BY <3>2, <1>t DEF Provision
      <4>2. /\ op["worker"].s \in Sessions /\ op["worker"].rental \in Rentals
            /\ op["worker"].tx \in TxColumn
        BY <4>1, <1>t DEF IInv, OpOK, Op
      <4>3. /\ Call(op["worker"].s, "FAILED", NULL, NULL, "idle", "idle").pc = "load"
            /\ Call(op["worker"].s, "RUNNING", op["worker"].tx, op["worker"].rental,
                    "idle", "cleanup").pc = "load"
        BY <1>c, <4>2, CallFields DEF States
      <4>4. op'["worker"].pc = "load"
        BY <3>2, <1>t, <4>1, <4>3 DEF Provision
      <4>5. QED
        BY <4>4
    <3>3. CASE WorkerList
      BY <3>3 DEF WorkerList, List
    <3>4. QED
      BY <1>3, <3>1, <3>2, <3>3 DEF Worker
  <2>3. QED
    BY <2>1, <2>2
<1>4. CASE Enforcer
  <2>1. ASSUME NEW s \in Sessions, NEW tx \in TxColumn, EnforceRunningTimeout(s, tx)
        PROVE  Good
    BY <2>1, <1>t, <1>c, <1>k DEF EnforceRunningTimeout, Take, Ready
  <2>2. QED
    BY <1>4, <1>e, <2>1 DEF Enforcer, SoftDeletePendingBefore, EnforcerList, List
<1>5. CASE Expirer
  <2>1. ASSUME NEW s \in Sessions, NEW tx \in TxColumn, ExpireSession(s, tx)
        PROVE  Good
    BY <2>1, <1>t, <1>c, <1>k DEF ExpireSession, Take, Ready
  <2>2. QED
    BY <1>5, <1>e, <2>1 DEF Expirer, ExpirerList, List
<1>6. CASE Watcher
  <2>1. "watcher" \in Procs
    BY <1>6, <1>t DEF Watcher, OnPodFailed, OnPodSucceeded, OnPodDeleted, Ready
  <2>2. ASSUME NEW s \in Sessions, OnPodFailed(s)
        PROVE  Good
    BY <2>1, <2>2, <1>c, <1>k DEF OnPodFailed
  <2>3. ASSUME NEW s \in Sessions, OnPodSucceeded(s) \/ OnPodDeleted(s)
        PROVE  Good
    BY <2>1, <2>3, <1>c, <1>k, <1>s, NoOpFields DEF OnPodSucceeded, OnPodDeleted
  <2>4. QED
    BY <1>6, <2>2, <2>3 DEF Watcher
<1>7. CASE Listener
  <2>1. ASSUME NEW r \in Rentals, HandleRentalStopped(r)
        PROVE  Good
    <3>1. "listener" \in Procs /\ r \in TxColumn
      BY <2>1, <1>t, <1>c DEF HandleRentalStopped, Ready
    <3>2. ASSUME NEW s \in GetByRentalID(r),
                 op' = [op EXCEPT !["listener"] = Call(s, "STOPPED", r, r, "cleanup", "idle")]
          PROVE  Good
      BY <3>1, <3>2, <1>k DEF GetByRentalID
    <3>3. QED
      BY <2>1, <1>e, <3>2 DEF HandleRentalStopped
  <2>2. QED
    BY <1>7, <2>1 DEF Listener
<1>8. CASE Cluster \/ Environment \/ UNCHANGED vars
  BY <1>8, <1>e DEF Cluster, PodExits, PodRemoved, ReapPod, Environment, MineStart,
     StopOnChain, TimeReachesExpiration, vars
<1>9. CASE Crash
  BY <1>9, <1>e, NoOpFields DEF Crash
<1>10. QED
  BY <1>1, <1>2, <1>3, <1>4, <1>5, <1>6, <1>7, <1>8, <1>9 DEF Next

\* The state column changes by a transition or by the insert, and in no other way.
LEMMA StateChange ==
  ASSUME IInv, [Next]_vars, NEW s \in Sessions, rows'[s].state # rows[s].state
  PROVE  \/ rows[s].state = "NONE" /\ rows'[s].state = "PENDING"
         \/ \E p \in Procs : /\ Update(p) /\ op[p].s = s
                             /\ rows'[s].state = op[p].target
                             /\ op'[p].pc \notin {"provision", "load", "write"}
<1>t. TypeOK /\ rows \in [Sessions -> Row] /\ op \in [Procs -> Op]
  BY DEF IInv, TypeOK
<1>1. ASSUME NEW p \in Procs, Update(p)
      PROVE  /\ op[p].s = s /\ rows'[s].state = op[p].target
             /\ op'[p].pc \notin {"provision", "load", "write"}
  <2>1. /\ op[p].s \in Sessions
        /\ op[p].target \in {"RUNNING", "STOPPED", "FAILED", "CANCELLED"}
        /\ op[p].snap \in Row
    BY <1>1, <1>t DEF Update, IInv, OpOK, CallOK, Op
  <2>2. Written(op[p]).state = op[p].target
    BY <2>1 DEF Written, Row, TransitionToRunning, TransitionToStopped,
       TransitionToFailed, TransitionToCancelled
  <2>3. rows' = [rows EXCEPT ![op[p].s] = Written(op[p])] /\ Continue(p, op[p].onOk)
    BY <1>1 DEF Update
  <2>4. op'[p].pc \notin {"provision", "load", "write"}
    BY <1>t, <2>3, NoOpFields DEF Continue, Return, Op
  <2>5. QED
    BY <1>t, <2>1, <2>2, <2>3, <2>4
<1>2. ASSUME NEW p \in Procs, SetTxHash(p)
      PROVE  FALSE
  BY <1>2, <1>t DEF SetTxHash, Row
<1>3. ASSUME NEW p \in Procs, CreateInsert(p)
      PROVE  rows[s].state = "NONE" /\ rows'[s].state = "PENDING"
  <2>1. op[p].s \in Sessions /\ rows[op[p].s].state = "NONE"
    BY <1>3 DEF CreateInsert, IInv, OpOK
  <2>2. QED
    BY <1>3, <1>t, <2>1 DEF CreateInsert, NewRow, NoRow
<1>4. ASSUME NEW old \in SUBSET Sessions, SoftDeletePendingBefore(old)
      PROVE  FALSE
  BY <1>4, <1>t DEF SoftDeletePendingBefore, Row
<1>5. QED
  BY <1>1, <1>2, <1>3, <1>4, WhoWritesRows DEF WritesRows

\* From the table allowedTransitions: what may run, and what a PENDING copy may
\* become.
LEMMA AllowedFacts ==
  ASSUME NEW row, row.state \in States
  PROVE  /\ \A target : CanTransitionTo(row, target) => row.state \in {"PENDING", "RUNNING"}
         /\ CanTransitionTo(row, "RUNNING") => row.state = "PENDING"
         /\ CanTransitionTo(row, "STOPPED") => row.state = "RUNNING"
         /\ CanTransitionTo(row, "CANCELLED") => row.state = "PENDING"
BY DEF CanTransitionTo, allowedTransitions, States

\* While the worker holds a copy it will make RUNNING, no other writer gets hold
\* of a RUNNING copy of that session.
LEMMA NextRunInv ==
  RunInv /\ [Next]_vars => RunInv'
<1> SUFFICES ASSUME RunInv, [Next]_vars
             PROVE  RunInv'
  OBVIOUS
<1>i. IInv /\ OnlyWorkerRuns /\ RunsFirst
  BY DEF RunInv
<1>t. rows \in [Sessions -> Row] /\ op \in [Procs -> Op]
  BY <1>i DEF IInv, TypeOK
<1>1. OnlyWorkerRuns'
  <2> SUFFICES ASSUME NEW p \in Procs, op'[p].pc \in {"load", "write"},
                      op'[p].target = "RUNNING"
               PROVE  p = "worker"
    BY DEF OnlyWorkerRuns
  <2>1. QED
    BY <1>i, NewCopies DEF OnlyWorkerRuns
<1>l. ASSUME NEW p \in Procs, op[p].pc = "load", CanTransitionTo(rows[op[p].s], op[p].target)
      PROVE  /\ op[p].s \in Sessions /\ rows[op[p].s].state \in {"PENDING", "RUNNING"}
             /\ op[p].target = "RUNNING" => rows[op[p].s].state = "PENDING"
  <2>1. op[p].s \in Sessions /\ rows[op[p].s].state # "NONE"
    BY <1>l, <1>i DEF IInv, OpOK, CallOK
  <2>2. rows[op[p].s].state \in States
    BY <1>t, <2>1 DEF Row
  <2>3. QED
    BY <1>l, <2>1, <2>2, AllowedFacts
<1>2. RunsFirst'
  <2> SUFFICES ASSUME NEW w \in Procs, op'[w].pc = "write", op'[w].target = "RUNNING",
                      NEW p \in Procs
               PROVE  /\ rows'[op'[w].s].state \notin {"RUNNING", "STOPPED"}
                      /\ (op'[p].pc = "write" /\ op'[p].s = op'[w].s)
                           => op'[p].snap.state = "PENDING"
    BY DEF RunsFirst
  <2>w. w = "worker"
    BY <1>1 DEF OnlyWorkerRuns
  <2>1. CASE op'[w] = op[w]
    <3> DEFINE s == op[w].s
    <3>1. s \in Sessions /\ rows[s].state \notin {"RUNNING", "STOPPED"}
      BY <1>i, <2>1 DEF IInv, OpOK, CallOK, RunsFirst
    <3>2. rows'[s].state \notin {"RUNNING", "STOPPED"}
      <4>1. SUFFICES ASSUME rows'[s].state # rows[s].state,
                            rows'[s].state \in {"RUNNING", "STOPPED"}
                     PROVE  FALSE
        BY <3>1
      <4>2. PICK v \in Procs : /\ Update(v) /\ op[v].s = s
                               /\ rows'[s].state = op[v].target /\ op'[v].pc # "write"
        BY <1>i, <3>1, <4>1, StateChange
      <4>3. /\ op[v].pc = "write" /\ op[v].snap.state \in States
            /\ CanTransitionTo(op[v].snap, op[v].target)
        BY <1>i, <4>2 DEF Update, IInv, OpOK, CopyOK
      <4>4. op[v].snap.state = "PENDING"
        BY <1>i, <2>1, <4>2, <4>3 DEF RunsFirst
      <4>5. op[v].target = "RUNNING"
        BY <4>1, <4>2, <4>3, <4>4, AllowedFacts
      <4>6. v = w
        BY <1>i, <2>w, <4>3, <4>5 DEF OnlyWorkerRuns
      <4>7. QED
        BY <4>2, <4>6
    <3>3. ASSUME op'[p].pc = "write", op'[p].s = s
          PROVE  op'[p].snap.state = "PENDING"
      <4>1. CASE op'[p] = op[p]
        BY <1>i, <2>1, <3>3, <4>1 DEF RunsFirst
      <4>2. CASE op'[p] # op[p]
        <5>1. /\ op[p].pc = "load" /\ op[p].s = s /\ op'[p].snap = rows[s]
              /\ CanTransitionTo(rows[op[p].s], op[p].target)
          BY <1>i, <3>3, <4>2, NewCopies
        <5>2. QED
          BY <1>l, <3>1, <5>1
      <4>3. QED
        BY <4>1, <4>2
    <3>4. QED
      BY <2>1, <3>2, <3>3
  <2>2. CASE op'[w] # op[w]
    <3> DEFINE s == op[w].s
    <3>1. /\ LoadAndValidate(w) /\ op[w].pc = "load" /\ op'[w].s = s
          /\ op[w].target = "RUNNING" /\ CanTransitionTo(rows[s], op[w].target)
      BY <1>i, <2>2, NewCopies
    <3>2. rows[s].state = "PENDING" /\ s \in Sessions
      BY <1>l, <3>1
    <3>3. rows'[s].state = "PENDING"
      BY <3>1, <3>2 DEF LoadAndValidate
    <3>4. ASSUME op'[p].pc = "write", op'[p].s = s
          PROVE  op'[p].snap.state = "PENDING"
      <4>1. CASE op'[p] = op[p]
        BY <1>i, <3>2, <3>4, <4>1 DEF IInv, OpOK, CopyOK
      <4>2. CASE op'[p] # op[p]
        <5>1. op'[p].snap = rows[op[p].s] /\ op[p].s = s
          BY <1>i, <3>4, <4>2, NewCopies
        <5>2. QED
          BY <3>2, <5>1
      <4>3. QED
        BY <4>1, <4>2
    <3>5. QED
      BY <3>1, <3>3, <3>4
  <2>3. QED
    BY <2>1, <2>2
<1>3. QED
  BY <1>i, <1>1, <1>2, NextIInv DEF RunInv

\* A stopped session never runs again and no session returns to PENDING, for any
\* number of concurrent writers, although Update never looks at the state it
\* overwrites.
THEOREM StoppedIsFinal ==
  Spec => StoppedNeverRuns
<1> DEFINE Step == \A s \in Sessions :
                     /\ rows[s].state = "STOPPED" => rows'[s].state # "RUNNING"
                     /\ rows[s].state # "NONE" /\ rows'[s].state = "PENDING"
                          => rows[s].state = "PENDING"
<1>1. Init => RunInv
  <2>1. Init => \A p \in Procs : op[p].pc = "idle"
    BY NoOpFields DEF Init
  <2>2. QED
    BY <2>1, InitIInv DEF RunInv, OnlyWorkerRuns, RunsFirst
<1>2. RunInv /\ [Next]_vars => [Step]_vars
  <2> SUFFICES ASSUME RunInv, [Next]_vars, NEW s \in Sessions
               PROVE  /\ rows[s].state = "STOPPED" => rows'[s].state # "RUNNING"
                      /\ rows[s].state # "NONE" /\ rows'[s].state = "PENDING"
                           => rows[s].state = "PENDING"
    OBVIOUS
  <2>1. ASSUME NEW p \in Procs, Update(p), op[p].s = s, rows'[s].state = op[p].target
        PROVE  /\ rows[s].state = "STOPPED" => rows'[s].state # "RUNNING"
               /\ rows'[s].state # "PENDING"
    BY <2>1 DEF Update, RunInv, RunsFirst, IInv, OpOK, CallOK
  <2>2. QED
    BY <2>1, StateChange DEF RunInv
<1>3. QED
  BY <1>1, <1>2, NextRunInv, PTL DEF Spec, StoppedNeverRuns

-----------------------------------------------------------------------------
\* What a step does to the columns a session's life is about.
SameLife(s) == /\ rows'[s].state = rows[s].state
               /\ rows'[s].rental = rows[s].rental
               /\ rows'[s].ran = rows[s].ran

Born(s) == /\ rows[s].state = "NONE" /\ rows'[s].state = "PENDING"
           /\ rows'[s].rental = rows[s].rental
           /\ rows'[s].ran = rows[s].ran

Moves(p, s) ==
  /\ op[p].pc = "write" /\ op[p].s = s /\ op'[p].pc # "write"
  /\ op[p].target \in {"RUNNING", "STOPPED", "FAILED", "CANCELLED"}
  /\ rows'[s].state = op[p].target
  /\ rows'[s].rental = IF op[p].target = "RUNNING" THEN op[p].rental ELSE op[p].snap.rental
  /\ rows'[s].ran = IF op[p].target = "RUNNING" THEN op[p].rental ELSE rows[s].ran

\* A step creates one session, or writes the copy of one, or moves none.
LEMMA LifeStep ==
  ASSUME RanInv, [Next]_vars
  PROVE  \/ \A s \in Sessions : SameLife(s)
         \/ \E s \in Sessions : /\ \A o \in Sessions \ {s} : SameLife(o)
                               /\ (Born(s) \/ \E p \in Procs : Moves(p, s))
<1>i. IInv /\ RanOnce
  BY DEF RanInv, RunInv
<1>t. TypeOK /\ rows \in [Sessions -> Row] /\ op \in [Procs -> Op]
  BY <1>i DEF IInv, TypeOK
<1>0. CASE UNCHANGED rows
  BY <1>0 DEF SameLife
<1>1. ASSUME NEW p \in Procs, Update(p), rows' # rows
      PROVE  \E s \in Sessions : /\ \A o \in Sessions \ {s} : SameLife(o)
                                /\ Moves(p, s)
  <2>1. /\ op[p].pc = "write" /\ op[p].s \in Sessions
        /\ op[p].target \in {"RUNNING", "STOPPED", "FAILED", "CANCELLED"}
        /\ op[p].snap \in Row
    BY <1>i, <1>1, <1>t DEF Update, IInv, OpOK, CallOK, Op
  <2>2. /\ Written(op[p]).state = op[p].target
        /\ Written(op[p]).rental = IF op[p].target = "RUNNING" THEN op[p].rental
                                                              ELSE op[p].snap.rental
        /\ Written(op[p]).ran = IF op[p].target = "RUNNING" THEN op[p].rental
                                                           ELSE rows[op[p].s].ran
    BY <2>1 DEF Written, Row, TransitionToRunning, TransitionToStopped,
       TransitionToFailed, TransitionToCancelled
  <2>3. rows' = [rows EXCEPT ![op[p].s] = Written(op[p])] /\ Continue(p, op[p].onOk)
    BY <1>1 DEF Update
  <2>4. op'[p].pc # "write"
    BY <1>t, <2>3, NoOpFields DEF Continue, Return, Op
  <2>5. Moves(p, op[p].s)
    BY <1>t, <2>1, <2>2, <2>3, <2>4 DEF Moves
  <2>6. \A o \in Sessions \ {op[p].s} : SameLife(o)
    BY <1>t, <2>3 DEF SameLife
  <2>7. QED
    BY <2>1, <2>5, <2>6
<1>2. ASSUME NEW p \in Procs, SetTxHash(p)
      PROVE  \A s \in Sessions : SameLife(s)
  BY <1>2, <1>t DEF SetTxHash, Row, SameLife
<1>3. ASSUME NEW p \in Procs, CreateInsert(p)
      PROVE  \E s \in Sessions : Born(s) /\ \A o \in Sessions \ {s} : SameLife(o)
  <2>1. /\ op[p].s \in Sessions /\ rows[op[p].s].state = "NONE"
        /\ rows[op[p].s].rental = NULL /\ rows[op[p].s].ran = NULL
    BY <1>i, <1>3 DEF CreateInsert, IInv, OpOK, RowOK, RanOnce
  <2>2. /\ NewRow.state = "PENDING" /\ NewRow.rental = NULL /\ NewRow.ran = NULL
    BY DEF NewRow, NoRow
  <2>3. rows' = [rows EXCEPT ![op[p].s] = NewRow]
    BY <1>3 DEF CreateInsert
  <2>4. QED
    BY <1>t, <2>1, <2>2, <2>3 DEF Born, SameLife
<1>4. ASSUME NEW old \in SUBSET Sessions, SoftDeletePendingBefore(old)
      PROVE  \A s \in Sessions : SameLife(s)
  BY <1>4, <1>t DEF SoftDeletePendingBefore, Row, SameLife
<1>5. QED
  BY <1>0, <1>1, <1>2, <1>3, <1>4, WhoWritesRows DEF WritesRows

\* The same seen from one session.
LEMMA LifeOf ==
  ASSUME RanInv, [Next]_vars, NEW s \in Sessions
  PROVE  SameLife(s) \/ Born(s) \/ \E p \in Procs : Moves(p, s)
<1>1. CASE \A x \in Sessions : SameLife(x)
  BY <1>1
<1>2. ASSUME NEW x \in Sessions, \A o \in Sessions \ {x} : SameLife(o),
             Born(x) \/ \E p \in Procs : Moves(p, x)
      PROVE  SameLife(s) \/ Born(s) \/ \E p \in Procs : Moves(p, s)
  <2>1. CASE s = x
    BY <1>2, <2>1
  <2>2. CASE s # x
    BY <1>2, <2>2
  <2>3. QED
    BY <2>1, <2>2
<1>3. QED
  BY <1>1, <1>2, LifeStep

\* RanOnce is inductive together with RunInv.
LEMMA NextRanInv ==
  RanInv /\ [Next]_vars => RanInv'
<1> SUFFICES ASSUME RanInv, [Next]_vars
             PROVE  RanInv'
  OBVIOUS
<1>i. IInv /\ OnlyWorkerRuns /\ RunsFirst /\ RunInv /\ RanOnce
  BY DEF RanInv, RunInv
<1>s. ASSUME NEW s \in Sessions
      PROVE  SameLife(s) \/ Born(s) \/ \E p \in Procs : Moves(p, s)
  BY LifeOf
<1>1. ASSUME NEW s \in Sessions
      PROVE  /\ rows'[s].rental \in {NULL, rows'[s].ran}
             /\ rows'[s].state \in {"NONE", "PENDING"} => rows'[s].ran = NULL
  <2>1. CASE SameLife(s) \/ Born(s)
    BY <1>i, <2>1 DEF SameLife, Born, RanOnce
  <2>2. ASSUME NEW p \in Procs, Moves(p, s)
        PROVE  /\ rows'[s].rental \in {NULL, rows'[s].ran}
               /\ rows'[s].state \in {"NONE", "PENDING"} => rows'[s].ran = NULL
    BY <1>i, <2>2 DEF Moves, RanOnce
  <2>3. QED
    BY <1>s, <2>1, <2>2
<1>2. ASSUME NEW q \in Procs, op'[q].pc = "write"
      PROVE  /\ op'[q].snap.rental \in {NULL, rows'[op'[q].s].ran}
             /\ op'[q].target = "RUNNING" => rows'[op'[q].s].ran = NULL
  <2>1. CASE op'[q] = op[q]
    <3> DEFINE s == op[q].s
    <3>1. /\ s \in Sessions /\ rows[s].state # "NONE" /\ RowOK(s, op[q].snap)
      BY <1>i, <1>2, <2>1 DEF IInv, OpOK, CallOK, CopyOK
    <3>2. CASE rows'[s].ran = rows[s].ran
      BY <1>i, <1>2, <2>1, <3>2 DEF RanOnce
    <3>3. ASSUME NEW p \in Procs, Moves(p, s), op[p].target = "RUNNING"
          PROVE  op[q].snap.rental = NULL /\ op[q].target # "RUNNING"
      <4>1. p # q
        BY <1>2, <3>3 DEF Moves
      <4>2. op[q].snap.state = "PENDING"
        BY <1>i, <1>2, <2>1, <3>3 DEF Moves, RunsFirst
      <4>3. op[q].target # "RUNNING"
        BY <1>i, <1>2, <2>1, <3>3, <4>1 DEF Moves, OnlyWorkerRuns
      <4>4. QED
        BY <3>1, <4>2, <4>3 DEF RowOK
    <3>4. SameLife(s) \/ Born(s) \/ \E p \in Procs : Moves(p, s)
      BY <1>s, <3>1
    <3>5. QED
      BY <2>1, <3>2, <3>3, <3>4 DEF SameLife, Born, Moves
  <2>2. CASE op'[q] # op[q]
    <3>1. /\ LoadAndValidate(q) /\ op[q].pc = "load" /\ op'[q].s = op[q].s
          /\ op'[q].target = op[q].target /\ op'[q].snap = rows[op[q].s]
          /\ CanTransitionTo(rows[op[q].s], op[q].target)
      BY <1>i, <1>2, <2>2, NewCopies
    <3>2. op[q].s \in Sessions /\ rows[op[q].s].state # "NONE"
      BY <1>i, <3>1 DEF IInv, OpOK, CallOK
    <3>3. rows[op[q].s].state \in States
      BY <1>i, <3>2 DEF IInv, TypeOK, Row
    <3>4. op[q].target = "RUNNING" => rows[op[q].s].state = "PENDING"
      BY <3>1, <3>3, AllowedFacts
    <3>5. UNCHANGED rows
      BY <3>1 DEF LoadAndValidate
    <3>6. QED
      BY <1>i, <3>1, <3>2, <3>4, <3>5 DEF RanOnce
  <2>3. QED
    BY <2>1, <2>2
<1>3. QED
  BY <1>i, <1>1, <1>2, NextRunInv DEF RanInv, RanOnce

\* It holds initially: nobody has run.
LEMMA InitRanInv ==
  Init => RanInv
<1>1. Init => \A p \in Procs : op[p].pc = "idle"
  BY NoOpFields DEF Init
<1>2. NewRow.rental = NULL /\ NewRow.ran = NULL /\ NoRow.rental = NULL /\ NoRow.ran = NULL
  BY DEF NewRow, NoRow
<1>3. Init => RanOnce
  BY <1>1, <1>2 DEF Init, RanOnce
<1>4. QED
  BY <1>1, <1>3, InitIInv DEF RanInv, RunInv, OnlyWorkerRuns, RunsFirst

\* A session that has its rental never changes to another, for any number of
\* hashes submitted for it and any number of stale copies written back.
THEOREM RentalKept ==
  Spec => RentalIsForLife
<1> DEFINE Step == \A s \in Sessions :
                     rows[s].rental # NULL => rows'[s].rental \in {rows[s].rental, NULL}
<1>1. RanInv /\ [Next]_vars => [Step]_vars
  <2> SUFFICES ASSUME RanInv, [Next]_vars, NEW s \in Sessions, rows[s].rental # NULL
               PROVE  rows'[s].rental \in {rows[s].rental, NULL}
    OBVIOUS
  <2>1. RanOnce /\ rows[s].ran = rows[s].rental
    BY DEF RanInv, RanOnce
  <2>2. CASE SameLife(s) \/ Born(s)
    BY <2>2 DEF SameLife, Born
  <2>3. ASSUME NEW p \in Procs, Moves(p, s)
        PROVE  rows'[s].rental \in {rows[s].rental, NULL}
    BY <2>1, <2>3 DEF Moves, RanOnce
  <2>4. QED
    BY <2>2, <2>3, LifeOf
<1>2. QED
  BY <1>1, InitRanInv, NextRanInv, PTL DEF Spec, RentalIsForLife

\* Whatever the writers and however old the copies they write: every step of
\* the hub creates one session, runs one that never ran on a mined rental of its
\* parties, stops one that ran, fails or cancels one, or moves none.
THEOREM LifecycleImplemented ==
  Spec => ImplementsLifecycle
<1> DEFINE st == [s \in Sessions |-> rows[s].state]
           rn == [s \in Sessions |-> rows[s].ran]
           re == [s \in Sessions |-> rows[s].rental]
           mi == {r \in Rentals : chain[r] \in {"active", "stopped"}}
<1>1. Init => Lifecycle!Init
  <2>1. /\ NewRow.state = "PENDING" /\ NewRow.rental = NULL /\ NewRow.ran = NULL
        /\ NoRow.state = "NONE" /\ NoRow.rental = NULL /\ NoRow.ran = NULL
    BY DEF NewRow, NoRow
  <2>2. QED
    BY <2>1 DEF Init, Lifecycle!Init
<1>2. RanInv /\ [Next]_vars => [Lifecycle!Next]_<<st, rn, re, mi>>
  <2> SUFFICES ASSUME RanInv, [Next]_vars, <<st, rn, re, mi>>' # <<st, rn, re, mi>>
               PROVE  Lifecycle!Next
    OBVIOUS
  <2>i. IInv /\ RunsFirst /\ RanOnce
    BY DEF RanInv, RunInv
  <2>t. chain \in [Rentals -> ChainStatus]
    BY <2>i DEF IInv, TypeOK
  <2>1. CASE UNCHANGED rows /\ \E q \in Rentals : MineStart(q) \/ StopOnChain(q)
    <3>1. st' = st /\ rn' = rn /\ re' = re
      BY <2>1
    <3>2. PICK q \in Rentals : MineStart(q) \/ StopOnChain(q)
      BY <2>1
    <3>3. mi' = mi \/ mi' = mi \cup {q}
      BY <3>2, <2>t DEF MineStart, StopOnChain
    <3>4. mi' = mi \cup {q}
      BY <3>1, <3>3
    <3>5. QED
      BY <3>1, <3>4 DEF Lifecycle!Next, Lifecycle!Mine
  <2>2. CASE UNCHANGED chain
    <3>m. mi' = mi
      BY <2>2
    <3>1. ASSUME \A s \in Sessions : SameLife(s)
          PROVE  FALSE
      BY <3>m, <3>1 DEF SameLife
    <3>2. PICK s \in Sessions : /\ \A o \in Sessions \ {s} : SameLife(o)
                               /\ (Born(s) \/ \E p \in Procs : Moves(p, s))
      BY <3>1, LifeStep
    <3>o. \A o \in Sessions : o # s => /\ rows'[o].state = rows[o].state
                                     /\ rows'[o].rental = rows[o].rental
                                     /\ rows'[o].ran = rows[o].ran
      BY <3>2 DEF SameLife
    <3>e1. st' = [st EXCEPT ![s] = rows'[s].state]
      BY <3>o
    <3>e2. rn' = [rn EXCEPT ![s] = rows'[s].ran]
      BY <3>o
    <3>e3. re' = [re EXCEPT ![s] = rows'[s].rental]
      BY <3>o
    <3>e. /\ st' = [st EXCEPT ![s] = rows'[s].state]
          /\ rn' = [rn EXCEPT ![s] = rows'[s].ran]
          /\ re' = [re EXCEPT ![s] = rows'[s].rental]
      BY <3>e1, <3>e2, <3>e3
    <3>v. st[s] = rows[s].state /\ rn[s] = rows[s].ran /\ re[s] = rows[s].rental
      OBVIOUS
    <3>k. ASSUME rows'[s].ran = rows[s].ran
          PROVE  rn' = rn
      BY <3>e, <3>k
    <3>3. CASE Born(s)
      <4>1. rn' = rn /\ re' = re
        BY <3>3, <3>e DEF Born
      <4>2. QED
        BY <3>3, <3>e, <3>m, <3>v, <4>1 DEF Born, Lifecycle!Next, Lifecycle!Create
    <3>4. ASSUME NEW p \in Procs, Moves(p, s)
          PROVE  Lifecycle!Next
      <4>1. /\ CallOK(op[p]) /\ CopyOK(op[p]) /\ op[p].s = s
            /\ rows[s].state # "NONE"
        BY <2>i, <3>4 DEF Moves, IInv, OpOK, CallOK
      <4>2. op[p].snap.rental \in {NULL, rows[s].ran}
        BY <2>i, <3>4 DEF Moves, RanOnce
      <4>3. CASE op[p].target = "RUNNING"
        <5>1. rows[s].ran = NULL /\ Paid(s, op[p].rental)
          BY <2>i, <3>4, <4>1, <4>3 DEF Moves, RanOnce, CallOK
        <5>2. op[p].rental \in mi /\ s \in Renter[op[p].rental] /\ op[p].rental \in Rentals
          BY <5>1 DEF Paid
        <5>r. PICK r \in Rentals : r = op[p].rental
          BY <5>2
        <5>3. Lifecycle!Run(s, r)
          BY <3>4, <3>e, <3>m, <3>v, <4>1, <4>3, <5>1, <5>2, <5>r DEF Moves, Lifecycle!Run
        <5>4. QED
          BY <5>3 DEF Lifecycle!Next
      <4>4. CASE op[p].target = "STOPPED"
        <5>1. op[p].snap.state = "RUNNING"
          BY <4>1, <4>4, AllowedFacts DEF CopyOK
        <5>2. op[p].snap.rental # NULL /\ rows[s].ran = op[p].snap.rental
          BY <4>1, <4>2, <5>1 DEF CopyOK, RowOK
        <5>3. /\ rows'[s].state = "STOPPED" /\ rows'[s].rental = rows[s].ran
              /\ rows'[s].ran = rows[s].ran /\ rows[s].ran # NULL
          BY <3>4, <4>4, <5>2 DEF Moves
        <5>4. rn' = rn
          BY <3>k, <5>3
        <5>5. Lifecycle!Stop(s)
          BY <3>e, <3>m, <3>v, <5>3, <5>4 DEF Lifecycle!Stop
        <5>6. QED
          BY <5>5 DEF Lifecycle!Next
      <4>5. CASE op[p].target = "FAILED"
        <5>1. Lifecycle!Fail(s)
          BY <3>4, <3>e, <3>k, <3>m, <3>v, <4>1, <4>2, <4>5 DEF Moves, Lifecycle!Fail
        <5>2. QED
          BY <5>1 DEF Lifecycle!Next
      <4>6. CASE op[p].target = "CANCELLED"
        <5>1. op[p].snap.state = "PENDING"
          BY <4>1, <4>6, AllowedFacts DEF CopyOK
        <5>2. op[p].snap.rental = NULL
          BY <4>1, <5>1 DEF CopyOK, RowOK
        <5>3. Lifecycle!Cancel(s)
          BY <3>4, <3>e, <3>k, <3>m, <3>v, <4>1, <4>6, <5>2 DEF Moves, Lifecycle!Cancel
        <5>4. QED
          BY <5>3 DEF Lifecycle!Next
      <4>7. QED
        BY <3>4, <4>3, <4>4, <4>5, <4>6 DEF Moves
    <3>5. QED
      BY <3>2, <3>3, <3>4
  <2>3. QED
    BY <2>1, <2>2, WhoWritesChain
<1>3. QED
  BY <1>1, <1>2, InitRanInv, NextRanInv, PTL DEF Spec, ImplementsLifecycle, Lifecycle!Spec,
     Lifecycle!lifeVars
=============================================================================
