----------------------- MODULE EventListener_proofs -----------------------
(***************************************************************************)
(* Proofs about EventListener: the inductive invariant IInv is preserved   *)
(* by every step, for any set of readers, any logs and any number of       *)
(* faults.                                                                 *)
(***************************************************************************)
EXTENDS EventListener, TLAPS

\* The facts about the constants that the steps need.
LEMMA Constants ==
  /\ \A l \in Logs : BlockOf[l] \in Nat /\ BlockOf[l] > 0 /\ TxOf[l] \in Txs
  /\ Known \subseteq Logs
  /\ BackfillBatchSize \in Nat /\ BackfillBatchSize > 0
  /\ MaxBlock \in Nat /\ MaxFaults \in Nat
  /\ StartHead \in Nat /\ StartHead <= MaxBlock
  BY LogsAssumption

\* The readers start with empty tables.
LEMMA InitIInv == Init => IInv
<1> SUFFICES ASSUME Init PROVE IInv
  OBVIOUS
<1>1. TypeOK
  <2>1. ConnTypeOK
    BY Constants DEF Init, ConnTypeOK
  <2>2. LogTypeOK
    BY DEF Init, LogTypeOK, NoLog
  <2>3. TablesTypeOK
    BY DEF Init, TablesTypeOK
  <2>4. HistoryTypeOK
    BY DEF Init, HistoryTypeOK
  <2> QED
    BY <2>1, <2>2, <2>3, <2>4 DEF TypeOK
<1>2. \A p \in Readers : StepOK(p)
  BY DEF Init, StepOK
<1>3. \A p \in Readers : FetchedOK(p)
  <2>1. 0 <= head
    BY Constants DEF Init
  <2> QED
    BY <2>1 DEF Init, FetchedOK
<1>4. \A p \in Readers, l \in Logs : CountOK(p, l)
  BY DEF Init, CountOK
<1>5. RemembersOnlyHandled
  BY Constants DEF Init, RemembersOnlyHandled
<1>6. BackfillHasNoGaps
  BY DEF Init, BackfillHasNoGaps
<1> QED
  BY <1>1, <1>2, <1>3, <1>4, <1>5, <1>6 DEF IInv

\* A new block only adds logs up to the new head.
LEMMA StepNewBlock ==
  ASSUME IInv, NewBlock
  PROVE  IInv'
<1> USE Constants
<1>1. TypeOK'
  <2>1. ConnTypeOK'
    BY DEF IInv, TypeOK, ConnTypeOK, LogTypeOK, NewBlock, LogsIn, connVars,
           dbVars, history
  <2>2. LogTypeOK'
    BY DEF IInv, TypeOK, LogTypeOK, NewBlock, LogsIn, connVars, dbVars, history
  <2>3. TablesTypeOK'
    BY DEF IInv, TypeOK, TablesTypeOK, LogTypeOK, NewBlock, LogsIn, connVars,
           dbVars, history
  <2>4. HistoryTypeOK'
    BY DEF IInv, TypeOK, HistoryTypeOK, LogTypeOK, NewBlock, LogsIn, connVars,
           dbVars, history
  <2> QED
    BY <2>1, <2>2, <2>3, <2>4 DEF TypeOK
<1>2. \A q \in Readers : StepOK(q)'
  BY DEF IInv, TypeOK, ConnTypeOK, LogTypeOK, TablesTypeOK, HistoryTypeOK, StepOK,
         CountOK, NewBlock, LogsIn, connVars, dbVars, history
<1>3. \A q \in Readers : FetchedOK(q)'
  BY DEF IInv, TypeOK, ConnTypeOK, LogTypeOK, FetchedOK, NewBlock, LogsIn,
         connVars, dbVars, history
<1>4. \A q \in Readers, m \in Logs : CountOK(q, m)'
  BY DEF IInv, TypeOK, ConnTypeOK, LogTypeOK, TablesTypeOK, HistoryTypeOK, StepOK,
         CountOK, NewBlock, LogsIn, connVars, dbVars, history
<1>5. RemembersOnlyHandled'
  BY DEF IInv, TypeOK, ConnTypeOK, LogTypeOK, TablesTypeOK, HistoryTypeOK, StepOK,
         RemembersOnlyHandled, NewBlock, LogsIn, connVars, dbVars, history
<1>6. BackfillHasNoGaps'
  BY DEF IInv, TypeOK, ConnTypeOK, LogTypeOK, TablesTypeOK, HistoryTypeOK,
         BackfillHasNoGaps, NewBlock, LogsIn, connVars, dbVars, history
<1> QED
  BY <1>1, <1>2, <1>3, <1>4, <1>5, <1>6 DEF IInv

\* A backfill starts right behind the checkpoint.
LEMMA StepStartBackfill ==
  ASSUME IInv, NEW p \in Readers, StartBackfill(p)
  PROVE  IInv'
<1> USE Constants
<1>1. TypeOK'
  <2>1. ConnTypeOK'
    BY DEF IInv, TypeOK, ConnTypeOK, TablesTypeOK, StartBackfill, Fault,
           chainVars, blockVars, dbVars, history
  <2>2. LogTypeOK'
    BY DEF IInv, TypeOK, LogTypeOK, StartBackfill, Fault, chainVars, blockVars,
           dbVars, history
  <2>3. TablesTypeOK'
    BY DEF IInv, TypeOK, TablesTypeOK, LogTypeOK, StartBackfill, Fault, chainVars,
           blockVars, dbVars, history
  <2>4. HistoryTypeOK'
    BY DEF IInv, TypeOK, HistoryTypeOK, LogTypeOK, StartBackfill, Fault,
           chainVars, blockVars, dbVars, history
  <2> QED
    BY <2>1, <2>2, <2>3, <2>4 DEF TypeOK
<1>2. \A q \in Readers : StepOK(q)'
  BY DEF IInv, TypeOK, ConnTypeOK, LogTypeOK, TablesTypeOK, HistoryTypeOK, StepOK,
         CountOK, StartBackfill, Fault, chainVars, blockVars, dbVars, history
<1>3. \A q \in Readers : FetchedOK(q)'
  BY DEF IInv, TypeOK, ConnTypeOK, LogTypeOK, FetchedOK, StartBackfill, Fault,
         chainVars, blockVars, dbVars, history
<1>4. \A q \in Readers, m \in Logs : CountOK(q, m)'
  BY DEF IInv, TypeOK, ConnTypeOK, LogTypeOK, TablesTypeOK, HistoryTypeOK, StepOK,
         CountOK, StartBackfill, Fault, chainVars, blockVars, dbVars, history
<1>5. RemembersOnlyHandled'
  BY DEF IInv, TypeOK, ConnTypeOK, LogTypeOK, TablesTypeOK, HistoryTypeOK, StepOK,
         RemembersOnlyHandled, StartBackfill, Fault, chainVars, blockVars, dbVars,
         history
<1>6. BackfillHasNoGaps'
  <2> SUFFICES ASSUME NEW q \in Readers, conn'[q] = "backfill", NEW l \in Logs,
                      lastBlock'[q] < BlockOf[l], BlockOf[l] < fromBlock'[q],
                      BlockOf[l] <= currentBlock'[q]
               PROVE  l \in todo[q] \cup seen[q]
    BY DEF BackfillHasNoGaps, StartBackfill, history
  <2>1. checkpoint[q] \in Nat
    BY DEF IInv, TypeOK, TablesTypeOK
  <2>2. q # p
    BY <2>1 DEF IInv, TypeOK, ConnTypeOK, StartBackfill, blockVars
  <2> QED
    BY <2>2 DEF IInv, TypeOK, ConnTypeOK, BackfillHasNoGaps, StartBackfill,
                blockVars
<1> QED
  BY <1>1, <1>2, <1>3, <1>4, <1>5, <1>6 DEF IInv

\* A batch holds every log of its blocks.
LEMMA StepFetchBatch ==
  ASSUME IInv, NEW p \in Readers, FetchBatch(p)
  PROVE  IInv'
<1> USE Constants
<1>1. TypeOK'
  <2>1. ConnTypeOK'
    BY DEF IInv, TypeOK, ConnTypeOK, LogTypeOK, FetchBatch, Resting, LogsIn,
           ToBlock, Fault, chainVars, blockVars, dbVars, history
  <2>2. LogTypeOK'
    BY DEF IInv, TypeOK, LogTypeOK, FetchBatch, Resting, LogsIn, ToBlock, Fault,
           chainVars, blockVars, dbVars, history
  <2>3. TablesTypeOK'
    BY DEF IInv, TypeOK, TablesTypeOK, LogTypeOK, FetchBatch, Resting, LogsIn,
           ToBlock, Fault, chainVars, blockVars, dbVars, history
  <2>4. HistoryTypeOK'
    BY DEF IInv, TypeOK, HistoryTypeOK, LogTypeOK, FetchBatch, Resting, LogsIn,
           ToBlock, Fault, chainVars, blockVars, dbVars, history
  <2> QED
    BY <2>1, <2>2, <2>3, <2>4 DEF TypeOK
<1>2. \A q \in Readers : StepOK(q)'
  BY DEF IInv, TypeOK, ConnTypeOK, LogTypeOK, TablesTypeOK, HistoryTypeOK, StepOK,
         CountOK, FetchBatch, Resting, LogsIn, ToBlock, Fault, chainVars,
         blockVars, dbVars, history
<1>3. \A q \in Readers : FetchedOK(q)'
  BY DEF IInv, TypeOK, ConnTypeOK, LogTypeOK, FetchedOK, FetchBatch, Resting,
         LogsIn, ToBlock, Fault, chainVars, blockVars, dbVars, history
<1>4. \A q \in Readers, m \in Logs : CountOK(q, m)'
  BY DEF IInv, TypeOK, ConnTypeOK, LogTypeOK, TablesTypeOK, HistoryTypeOK, StepOK,
         CountOK, FetchBatch, Resting, LogsIn, ToBlock, Fault, chainVars,
         blockVars, dbVars, history
<1>5. RemembersOnlyHandled'
  BY DEF IInv, TypeOK, ConnTypeOK, LogTypeOK, TablesTypeOK, HistoryTypeOK, StepOK,
         RemembersOnlyHandled, FetchBatch, Resting, LogsIn, ToBlock, Fault,
         chainVars, blockVars, dbVars, history
<1>6. BackfillHasNoGaps'
  <2> SUFFICES ASSUME NEW q \in Readers, conn'[q] = "backfill", NEW l \in Logs,
                      lastBlock[q] < BlockOf[l], BlockOf[l] < fromBlock'[q],
                      BlockOf[l] <= currentBlock[q]
               PROVE  l \in todo'[q] \cup seen[q]
    BY DEF BackfillHasNoGaps, FetchBatch, history
  <2>1. CASE q # p
    BY <2>1 DEF IInv, TypeOK, ConnTypeOK, LogTypeOK, BackfillHasNoGaps, FetchBatch
  <2>2. CASE q = p
    <3>1. /\ conn[p] = "backfill" /\ todo[p] = {}
          /\ todo' = [todo EXCEPT ![p] = LogsIn(fromBlock[p], ToBlock(p))]
          /\ fromBlock' = [fromBlock EXCEPT ![p] = @ + BackfillBatchSize]
      BY <2>2 DEF IInv, TypeOK, ConnTypeOK, FetchBatch, Resting
    <3>2. CASE BlockOf[l] < fromBlock[p]
      BY <2>2, <3>1, <3>2 DEF IInv, BackfillHasNoGaps
    <3>3. CASE BlockOf[l] >= fromBlock[p]
      <4>1. BlockOf[l] < fromBlock[p] + BackfillBatchSize
        BY <2>2, <3>1 DEF IInv, TypeOK, ConnTypeOK
      <4>2. BlockOf[l] <= ToBlock(p)
        BY <2>2, <4>1 DEF IInv, TypeOK, ConnTypeOK, ToBlock
      <4>3. l \in LogsIn(fromBlock[p], ToBlock(p))
        BY <3>3, <4>2 DEF LogsIn
      <4> QED
        BY <2>2, <3>1, <4>3 DEF IInv, TypeOK, LogTypeOK
    <3> QED
      BY <3>2, <3>3 DEF IInv, TypeOK, ConnTypeOK
  <2> QED
    BY <2>1, <2>2
<1> QED
  BY <1>1, <1>2, <1>3, <1>4, <1>5, <1>6 DEF IInv

\* The end of a backfill changes the connection only.
LEMMA StepEndBackfill ==
  ASSUME IInv, NEW p \in Readers, EndBackfill(p)
  PROVE  IInv'
<1> USE Constants
<1>1. TypeOK'
  <2>1. ConnTypeOK'
    BY DEF IInv, TypeOK, ConnTypeOK, LogTypeOK, EndBackfill, chainVars, blockVars,
           dbVars, history
  <2>2. LogTypeOK'
    BY DEF IInv, TypeOK, LogTypeOK, EndBackfill, chainVars, blockVars, dbVars,
           history
  <2>3. TablesTypeOK'
    BY DEF IInv, TypeOK, TablesTypeOK, LogTypeOK, EndBackfill, chainVars,
           blockVars, dbVars, history
  <2>4. HistoryTypeOK'
    BY DEF IInv, TypeOK, HistoryTypeOK, LogTypeOK, EndBackfill, chainVars,
           blockVars, dbVars, history
  <2> QED
    BY <2>1, <2>2, <2>3, <2>4 DEF TypeOK
<1>2. \A q \in Readers : StepOK(q)'
  BY DEF IInv, TypeOK, ConnTypeOK, LogTypeOK, TablesTypeOK, HistoryTypeOK, StepOK,
         CountOK, EndBackfill, chainVars, blockVars, dbVars, history
<1>3. \A q \in Readers : FetchedOK(q)'
  BY DEF IInv, TypeOK, ConnTypeOK, LogTypeOK, FetchedOK, EndBackfill, chainVars,
         blockVars, dbVars, history
<1>4. \A q \in Readers, m \in Logs : CountOK(q, m)'
  BY DEF IInv, TypeOK, ConnTypeOK, LogTypeOK, TablesTypeOK, HistoryTypeOK, StepOK,
         CountOK, EndBackfill, chainVars, blockVars, dbVars, history
<1>5. RemembersOnlyHandled'
  BY DEF IInv, TypeOK, ConnTypeOK, LogTypeOK, TablesTypeOK, HistoryTypeOK, StepOK,
         RemembersOnlyHandled, EndBackfill, chainVars, blockVars, dbVars, history
<1>6. BackfillHasNoGaps'
  BY DEF IInv, TypeOK, ConnTypeOK, LogTypeOK, TablesTypeOK, HistoryTypeOK,
         BackfillHasNoGaps, EndBackfill, chainVars, blockVars, dbVars, history
<1> QED
  BY <1>1, <1>2, <1>3, <1>4, <1>5, <1>6 DEF IInv

\* Subscribing changes the connection only.
LEMMA StepSubscribe ==
  ASSUME IInv, NEW p \in Readers, Subscribe(p)
  PROVE  IInv'
<1> USE Constants
<1>1. TypeOK'
  <2>1. ConnTypeOK'
    BY DEF IInv, TypeOK, ConnTypeOK, LogTypeOK, Subscribe, Fault, chainVars,
           blockVars, dbVars, history
  <2>2. LogTypeOK'
    BY DEF IInv, TypeOK, LogTypeOK, Subscribe, Fault, chainVars, blockVars,
           dbVars, history
  <2>3. TablesTypeOK'
    BY DEF IInv, TypeOK, TablesTypeOK, LogTypeOK, Subscribe, Fault, chainVars,
           blockVars, dbVars, history
  <2>4. HistoryTypeOK'
    BY DEF IInv, TypeOK, HistoryTypeOK, LogTypeOK, Subscribe, Fault, chainVars,
           blockVars, dbVars, history
  <2> QED
    BY <2>1, <2>2, <2>3, <2>4 DEF TypeOK
<1>2. \A q \in Readers : StepOK(q)'
  BY DEF IInv, TypeOK, ConnTypeOK, LogTypeOK, TablesTypeOK, HistoryTypeOK, StepOK,
         CountOK, Subscribe, Fault, chainVars, blockVars, dbVars, history
<1>3. \A q \in Readers : FetchedOK(q)'
  BY DEF IInv, TypeOK, ConnTypeOK, LogTypeOK, FetchedOK, Subscribe, Fault,
         chainVars, blockVars, dbVars, history
<1>4. \A q \in Readers, m \in Logs : CountOK(q, m)'
  BY DEF IInv, TypeOK, ConnTypeOK, LogTypeOK, TablesTypeOK, HistoryTypeOK, StepOK,
         CountOK, Subscribe, Fault, chainVars, blockVars, dbVars, history
<1>5. RemembersOnlyHandled'
  BY DEF IInv, TypeOK, ConnTypeOK, LogTypeOK, TablesTypeOK, HistoryTypeOK, StepOK,
         RemembersOnlyHandled, Subscribe, Fault, chainVars, blockVars, dbVars,
         history
<1>6. BackfillHasNoGaps'
  BY DEF IInv, TypeOK, ConnTypeOK, LogTypeOK, TablesTypeOK, HistoryTypeOK,
         BackfillHasNoGaps, Subscribe, Fault, chainVars, blockVars, dbVars,
         history
<1> QED
  BY <1>1, <1>2, <1>3, <1>4, <1>5, <1>6 DEF IInv

\* A disconnection drops logs that were not taken.
LEMMA StepDisconnect ==
  ASSUME IInv, NEW p \in Readers, Disconnect(p)
  PROVE  IInv'
<1> USE Constants
<1>1. TypeOK'
  <2>1. ConnTypeOK'
    BY DEF IInv, TypeOK, ConnTypeOK, LogTypeOK, Disconnect, Fault, chainVars,
           blockVars, dbVars, history
  <2>2. LogTypeOK'
    BY DEF IInv, TypeOK, LogTypeOK, Disconnect, Fault, chainVars, blockVars,
           dbVars, history
  <2>3. TablesTypeOK'
    BY DEF IInv, TypeOK, TablesTypeOK, LogTypeOK, Disconnect, Fault, chainVars,
           blockVars, dbVars, history
  <2>4. HistoryTypeOK'
    BY DEF IInv, TypeOK, HistoryTypeOK, LogTypeOK, Disconnect, Fault, chainVars,
           blockVars, dbVars, history
  <2> QED
    BY <2>1, <2>2, <2>3, <2>4 DEF TypeOK
<1>2. \A q \in Readers : StepOK(q)'
  BY DEF IInv, TypeOK, ConnTypeOK, LogTypeOK, TablesTypeOK, HistoryTypeOK, StepOK,
         CountOK, Disconnect, Fault, chainVars, blockVars, dbVars, history
<1>3. \A q \in Readers : FetchedOK(q)'
  BY DEF IInv, TypeOK, ConnTypeOK, LogTypeOK, FetchedOK, Disconnect, Fault,
         chainVars, blockVars, dbVars, history
<1>4. \A q \in Readers, m \in Logs : CountOK(q, m)'
  BY DEF IInv, TypeOK, ConnTypeOK, LogTypeOK, TablesTypeOK, HistoryTypeOK, StepOK,
         CountOK, Disconnect, Fault, chainVars, blockVars, dbVars, history
<1>5. RemembersOnlyHandled'
  BY DEF IInv, TypeOK, ConnTypeOK, LogTypeOK, TablesTypeOK, HistoryTypeOK, StepOK,
         RemembersOnlyHandled, Disconnect, Fault, chainVars, blockVars, dbVars,
         history
<1>6. BackfillHasNoGaps'
  BY DEF IInv, TypeOK, ConnTypeOK, LogTypeOK, TablesTypeOK, HistoryTypeOK,
         BackfillHasNoGaps, Disconnect, Fault, chainVars, blockVars, dbVars,
         history
<1> QED
  BY <1>1, <1>2, <1>3, <1>4, <1>5, <1>6 DEF IInv

\* A crash between the handler and MarkProcessed is counted.
LEMMA StepCrash ==
  ASSUME IInv, NEW p \in Readers, Crash(p)
  PROVE  IInv'
<1> USE Constants
<1>1. TypeOK'
  <2>1. ConnTypeOK'
    BY DEF IInv, TypeOK, ConnTypeOK, LogTypeOK, Crash, Forget, Fault, NoLog,
           chainVars, blockVars, dbVars
  <2>2. LogTypeOK'
    BY DEF IInv, TypeOK, LogTypeOK, Crash, Forget, Fault, NoLog, chainVars,
           blockVars, dbVars
  <2>3. TablesTypeOK'
    BY DEF IInv, TypeOK, TablesTypeOK, LogTypeOK, Crash, Forget, Fault, NoLog,
           chainVars, blockVars, dbVars
  <2>4. HistoryTypeOK'
    BY DEF IInv, TypeOK, HistoryTypeOK, LogTypeOK, Crash, Forget, Fault, NoLog,
           chainVars, blockVars, dbVars
  <2> QED
    BY <2>1, <2>2, <2>3, <2>4 DEF TypeOK
<1>2. \A q \in Readers : StepOK(q)'
  BY DEF IInv, TypeOK, ConnTypeOK, LogTypeOK, TablesTypeOK, HistoryTypeOK, StepOK,
         CountOK, Crash, Forget, Fault, NoLog, chainVars, blockVars, dbVars
<1>3. \A q \in Readers : FetchedOK(q)'
  BY DEF IInv, TypeOK, ConnTypeOK, LogTypeOK, FetchedOK, Crash, Forget, Fault,
         NoLog, chainVars, blockVars, dbVars
<1>4. \A q \in Readers, m \in Logs : CountOK(q, m)'
  BY DEF IInv, TypeOK, ConnTypeOK, LogTypeOK, TablesTypeOK, HistoryTypeOK, StepOK,
         CountOK, Crash, Forget, Fault, NoLog, chainVars, blockVars, dbVars
<1>5. RemembersOnlyHandled'
  BY DEF IInv, TypeOK, ConnTypeOK, LogTypeOK, TablesTypeOK, HistoryTypeOK, StepOK,
         RemembersOnlyHandled, Crash, Forget, Fault, NoLog, chainVars, blockVars,
         dbVars
<1>6. BackfillHasNoGaps'
  BY DEF IInv, TypeOK, ConnTypeOK, LogTypeOK, TablesTypeOK, HistoryTypeOK,
         BackfillHasNoGaps, Crash, Forget, Fault, NoLog, chainVars, blockVars,
         dbVars
<1> QED
  BY <1>1, <1>2, <1>3, <1>4, <1>5, <1>6 DEF IInv

\* A log is handled only if its transaction is not in processed_events.
LEMMA StepIsProcessed ==
  ASSUME IInv, NEW p \in Readers, NEW l \in Logs, IsProcessed(p, l)
  PROVE  IInv'
<1> USE Constants
<1>1. TypeOK'
  <2>1. ConnTypeOK'
    BY DEF IInv, TypeOK, ConnTypeOK, LogTypeOK, IsProcessed, Skipped, Fault,
           chainVars, connVars, dbVars
  <2>2. LogTypeOK'
    BY DEF IInv, TypeOK, LogTypeOK, IsProcessed, Skipped, Fault, chainVars,
           connVars, dbVars
  <2>3. TablesTypeOK'
    BY DEF IInv, TypeOK, TablesTypeOK, LogTypeOK, IsProcessed, Skipped, Fault,
           chainVars, connVars, dbVars
  <2>4. HistoryTypeOK'
    BY DEF IInv, TypeOK, HistoryTypeOK, LogTypeOK, IsProcessed, Skipped, Fault,
           chainVars, connVars, dbVars
  <2> QED
    BY <2>1, <2>2, <2>3, <2>4 DEF TypeOK
<1>2. \A q \in Readers : StepOK(q)'
  BY DEF IInv, TypeOK, ConnTypeOK, LogTypeOK, TablesTypeOK, HistoryTypeOK, StepOK,
         CountOK, IsProcessed, Skipped, Fault, chainVars, connVars, dbVars
<1>3. \A q \in Readers : FetchedOK(q)'
  BY DEF IInv, TypeOK, ConnTypeOK, LogTypeOK, FetchedOK, IsProcessed, Skipped,
         Fault, chainVars, connVars, dbVars
<1>4. \A q \in Readers, m \in Logs : CountOK(q, m)'
  BY DEF IInv, TypeOK, ConnTypeOK, LogTypeOK, TablesTypeOK, HistoryTypeOK, StepOK,
         CountOK, IsProcessed, Skipped, Fault, chainVars, connVars, dbVars
<1>5. RemembersOnlyHandled'
  BY DEF IInv, TypeOK, ConnTypeOK, LogTypeOK, TablesTypeOK, HistoryTypeOK, StepOK,
         RemembersOnlyHandled, IsProcessed, Skipped, Fault, chainVars, connVars,
         dbVars
<1>6. BackfillHasNoGaps'
  BY DEF IInv, TypeOK, ConnTypeOK, LogTypeOK, TablesTypeOK, HistoryTypeOK,
         BackfillHasNoGaps, IsProcessed, Skipped, Fault, chainVars, connVars,
         dbVars
<1> QED
  BY <1>1, <1>2, <1>3, <1>4, <1>5, <1>6 DEF IInv

\* The handler runs for a log that every earlier run of it has forgotten.
LEMMA StepHandle ==
  ASSUME IInv, NEW p \in Readers, Handle(p)
  PROVE  IInv'
<1> USE Constants
<1>0. /\ pc[p] = "handle" /\ cur[p] \in Known /\ cur[p] \in Logs
      /\ UNCHANGED <<head, conn, lastBlock, fromBlock, currentBlock, todo,
                     checkpoint, processed, seen, unmarked>>
  BY DEF IInv, TypeOK, LogTypeOK, Handle, chainVars, connVars
<1>1. CASE /\ handled' = [handled EXCEPT ![p][cur[p]] = @ + 1]
           /\ pc' = [pc EXCEPT ![p] = "mark"]
           /\ UNCHANGED <<cur, failed, faults>>
  <2>0. \A q \in Readers, m \in Logs :
          handled'[q][m] = IF q = p /\ m = cur[p] THEN handled[q][m] + 1
                                                 ELSE handled[q][m]
    BY <1>0, <1>1 DEF IInv, TypeOK, HistoryTypeOK
  <2>1. TypeOK'
    <3>1. HistoryTypeOK'
      <4>1. [handled[p] EXCEPT ![cur[p]] = @ + 1] \in [Logs -> Nat]
        BY <1>0 DEF IInv, TypeOK, HistoryTypeOK
      <4>2. handled' = [handled EXCEPT ![p] = [handled[p] EXCEPT ![cur[p]] = @ + 1]]
        BY <1>1
      <4> QED
        BY <1>0, <4>1, <4>2 DEF IInv, TypeOK, HistoryTypeOK
    <3>2. LogTypeOK'
      BY <1>0, <1>1 DEF IInv, TypeOK, LogTypeOK
    <3> QED
      BY <1>0, <1>1, <3>1, <3>2 DEF IInv, TypeOK, ConnTypeOK, TablesTypeOK
  <2>2. \A q \in Readers : StepOK(q)'
    BY <1>0, <1>1, <2>0 DEF IInv, TypeOK, LogTypeOK, HistoryTypeOK, StepOK
  <2>3. \A q \in Readers : FetchedOK(q)'
    BY <1>0, <1>1 DEF IInv, TypeOK, LogTypeOK, FetchedOK
  <2>4. \A q \in Readers, m \in Logs : CountOK(q, m)'
    <3> SUFFICES ASSUME NEW q \in Readers, NEW m \in Logs PROVE CountOK(q, m)'
      OBVIOUS
    <3>1. handled[q][m] \in Nat /\ unmarked[q][m] \in Nat
      BY DEF IInv, TypeOK, HistoryTypeOK
    <3>2. CASE q = p /\ m = cur[p]
      BY <1>0, <1>1, <2>0, <3>1, <3>2 DEF IInv, TypeOK, LogTypeOK, StepOK, CountOK
    <3>3. CASE ~(q = p /\ m = cur[p])
      BY <1>0, <1>1, <2>0, <3>1, <3>3 DEF IInv, TypeOK, LogTypeOK, CountOK
    <3> QED
      BY <3>2, <3>3
  <2>5. RemembersOnlyHandled'
    <3>1. \A q \in Readers, m \in Logs : handled[q][m] > 0 => handled'[q][m] > 0
      BY <2>0 DEF IInv, TypeOK, HistoryTypeOK
    <3> QED
      BY <1>0, <3>1 DEF IInv, RemembersOnlyHandled
  <2>6. BackfillHasNoGaps'
    BY <1>0 DEF IInv, BackfillHasNoGaps
  <2> QED
    BY <2>1, <2>2, <2>3, <2>4, <2>5, <2>6 DEF IInv
<1>2. CASE /\ \E saved \in {{}, {cur[p]}} :
                failed' = [failed EXCEPT ![p] = @ \cup saved]
           /\ Finish(p) /\ Fault /\ UNCHANGED handled
  <2>1. TypeOK'
    BY <1>0, <1>2 DEF IInv, TypeOK, ConnTypeOK, LogTypeOK, TablesTypeOK,
                      HistoryTypeOK,
                      Finish, Fault, NoLog
  <2>2. \A q \in Readers : StepOK(q)' /\ FetchedOK(q)'
    BY <1>0, <1>2 DEF IInv, TypeOK, LogTypeOK, StepOK, FetchedOK, Finish
  <2>3. \A q \in Readers, m \in Logs : CountOK(q, m)'
    BY <1>0, <1>2 DEF IInv, TypeOK, LogTypeOK, CountOK, Finish
  <2>4. RemembersOnlyHandled' /\ BackfillHasNoGaps'
    BY <1>0, <1>2 DEF IInv, RemembersOnlyHandled, BackfillHasNoGaps
  <2> QED
    BY <2>1, <2>2, <2>3, <2>4 DEF IInv
<1> QED
  BY <1>1, <1>2 DEF Handle

\* A transaction is marked after its handler.
LEMMA StepMarkProcessed ==
  ASSUME IInv, NEW p \in Readers, MarkProcessed(p)
  PROVE  IInv'
<1> USE Constants
<1>0. /\ pc[p] = "mark" /\ cur[p] \in Known /\ cur[p] \in Logs
      /\ UNCHANGED <<head, conn, lastBlock, fromBlock, currentBlock, todo,
                     checkpoint, failed, seen, handled>>
  BY DEF IInv, TypeOK, LogTypeOK, MarkProcessed, chainVars, connVars
<1>1. CASE /\ processed' = processed \cup {TxOf[cur[p]]}
           /\ pc' = [pc EXCEPT ![p] = "checkpoint"]
           /\ UNCHANGED <<cur, faults, unmarked>>
  <2>1. TypeOK'
    BY <1>0, <1>1 DEF IInv, TypeOK, ConnTypeOK, LogTypeOK, TablesTypeOK,
                      HistoryTypeOK
  <2>2. \A q \in Readers : StepOK(q)' /\ FetchedOK(q)'
    BY <1>0, <1>1 DEF IInv, TypeOK, LogTypeOK, StepOK, FetchedOK
  <2>3. \A q \in Readers, m \in Logs : CountOK(q, m)'
    BY <1>0, <1>1 DEF IInv, TypeOK, LogTypeOK, CountOK
  <2>4. RemembersOnlyHandled'
    <3>1. handled[p][cur[p]] > 0
      BY <1>0 DEF IInv, StepOK
    <3> QED
      BY <1>0, <1>1, <3>1 DEF IInv, RemembersOnlyHandled
  <2>5. BackfillHasNoGaps'
    BY <1>0 DEF IInv, BackfillHasNoGaps
  <2> QED
    BY <2>1, <2>2, <2>3, <2>4, <2>5 DEF IInv
<1>2. CASE Finish(p) /\ Forget(p) /\ Fault /\ UNCHANGED processed
  <2>0. \A q \in Readers, m \in Logs :
          unmarked'[q][m] = IF q = p /\ m = cur[p] THEN unmarked[q][m] + 1
                                                  ELSE unmarked[q][m]
    BY <1>0, <1>2 DEF IInv, TypeOK, HistoryTypeOK, Forget
  <2>1. TypeOK'
    <3>1. HistoryTypeOK'
      <4>1. [unmarked[p] EXCEPT ![cur[p]] = @ + 1] \in [Logs -> Nat]
        BY <1>0 DEF IInv, TypeOK, HistoryTypeOK
      <4>2. unmarked' = [unmarked EXCEPT ![p] = [unmarked[p] EXCEPT ![cur[p]] = @ + 1]]
        BY <1>0, <1>2 DEF Forget
      <4> QED
        BY <1>0, <4>1, <4>2 DEF IInv, TypeOK, HistoryTypeOK
    <3> QED
      BY <1>0, <1>2, <3>1 DEF IInv, TypeOK, ConnTypeOK, LogTypeOK, TablesTypeOK,
                              Finish, Fault, NoLog
  <2>2. \A q \in Readers : StepOK(q)' /\ FetchedOK(q)'
    BY <1>0, <1>2, <2>0 DEF IInv, TypeOK, LogTypeOK, StepOK, FetchedOK, Finish
  <2>3. \A q \in Readers, m \in Logs : CountOK(q, m)'
    <3> SUFFICES ASSUME NEW q \in Readers, NEW m \in Logs PROVE CountOK(q, m)'
      OBVIOUS
    <3>1. handled[q][m] \in Nat /\ unmarked[q][m] \in Nat
      BY DEF IInv, TypeOK, HistoryTypeOK
    <3>2. CASE q = p /\ m = cur[p]
      BY <1>0, <1>2, <2>0, <3>1, <3>2 DEF IInv, CountOK
    <3>3. CASE ~(q = p /\ m = cur[p])
      BY <1>0, <1>2, <2>0, <3>1, <3>3 DEF IInv, TypeOK, LogTypeOK, CountOK, Finish
    <3> QED
      BY <3>2, <3>3
  <2>4. RemembersOnlyHandled' /\ BackfillHasNoGaps'
    BY <1>0, <1>2 DEF IInv, RemembersOnlyHandled, BackfillHasNoGaps
  <2> QED
    BY <2>1, <2>2, <2>3, <2>4 DEF IInv
<1> QED
  BY <1>1, <1>2 DEF MarkProcessed

\* The checkpoint moves to the block of a handled log.
LEMMA StepUpdateCheckpoint ==
  ASSUME IInv, NEW p \in Readers, UpdateCheckpoint(p)
  PROVE  IInv'
<1> USE Constants
<1>1. TypeOK'
  <2>1. ConnTypeOK'
    BY DEF IInv, TypeOK, ConnTypeOK, LogTypeOK, UpdateCheckpoint, Finish, Fault,
           NoLog, chainVars, connVars, history
  <2>2. LogTypeOK'
    BY DEF IInv, TypeOK, LogTypeOK, UpdateCheckpoint, Finish, Fault, NoLog,
           chainVars, connVars, history
  <2>3. TablesTypeOK'
    BY DEF IInv, TypeOK, TablesTypeOK, LogTypeOK, UpdateCheckpoint, Finish, Fault,
           NoLog, chainVars, connVars, history
  <2>4. HistoryTypeOK'
    BY DEF IInv, TypeOK, HistoryTypeOK, LogTypeOK, UpdateCheckpoint, Finish,
           Fault, NoLog, chainVars, connVars, history
  <2> QED
    BY <2>1, <2>2, <2>3, <2>4 DEF TypeOK
<1>2. \A q \in Readers : StepOK(q)'
  BY DEF IInv, TypeOK, ConnTypeOK, LogTypeOK, TablesTypeOK, HistoryTypeOK, StepOK,
         CountOK, UpdateCheckpoint, Finish, Fault, NoLog, chainVars, connVars,
         history
<1>3. \A q \in Readers : FetchedOK(q)'
  BY DEF IInv, TypeOK, ConnTypeOK, LogTypeOK, FetchedOK, UpdateCheckpoint, Finish,
         Fault, NoLog, chainVars, connVars, history
<1>4. \A q \in Readers, m \in Logs : CountOK(q, m)'
  BY DEF IInv, TypeOK, ConnTypeOK, LogTypeOK, TablesTypeOK, HistoryTypeOK, StepOK,
         CountOK, UpdateCheckpoint, Finish, Fault, NoLog, chainVars, connVars,
         history
<1>5. RemembersOnlyHandled'
  <2>1. /\ cur[p] \in Known /\ handled[p][cur[p]] > 0 /\ BlockOf[cur[p]] <= head
        /\ UNCHANGED <<head, processed, handled>>
    BY DEF IInv, TypeOK, LogTypeOK, StepOK, FetchedOK, UpdateCheckpoint,
           chainVars, history
  <2>2. \A q \in Readers : \/ checkpoint'[q] = checkpoint[q]
                           \/ q = p /\ checkpoint'[q] = BlockOf[cur[p]]
    <3>1. CASE UNCHANGED checkpoint
      BY <3>1
    <3>2. CASE checkpoint' = [checkpoint EXCEPT ![p] = BlockOf[cur[p]]]
      BY <3>2 DEF IInv, TypeOK, TablesTypeOK
    <3> QED
      BY <3>1, <3>2 DEF IInv, TypeOK, TablesTypeOK, UpdateCheckpoint
  <2> QED
    BY <2>1, <2>2 DEF IInv, RemembersOnlyHandled
<1>6. BackfillHasNoGaps'
  BY DEF IInv, TypeOK, ConnTypeOK, LogTypeOK, TablesTypeOK, HistoryTypeOK,
         BackfillHasNoGaps, UpdateCheckpoint, Finish, Fault, NoLog, chainVars,
         connVars, history
<1> QED
  BY <1>1, <1>2, <1>3, <1>4, <1>5, <1>6 DEF IInv

\* Every step of the listener preserves the invariant.
LEMMA NextIInv == IInv /\ [Next]_vars => IInv'
<1> SUFFICES ASSUME IInv, [Next]_vars PROVE IInv'
  OBVIOUS
<1>1. CASE NewBlock
  BY <1>1, StepNewBlock
<1>2. ASSUME NEW p \in Readers, Listen(p) PROVE IInv'
  BY <1>2, StepStartBackfill, StepFetchBatch, StepEndBackfill, StepSubscribe
     DEF Listen
<1>3. ASSUME NEW p \in Readers, ProcessLog(p) PROVE IInv'
  BY <1>3, StepIsProcessed, StepHandle, StepMarkProcessed, StepUpdateCheckpoint
     DEF ProcessLog
<1>4. ASSUME NEW p \in Readers, Disconnect(p) \/ Crash(p) PROVE IInv'
  BY <1>4, StepDisconnect, StepCrash
<1>5. CASE UNCHANGED vars
  BY <1>5 DEF IInv, TypeOK, ConnTypeOK, LogTypeOK, TablesTypeOK, HistoryTypeOK,
              StepOK, FetchedOK, CountOK, RemembersOnlyHandled, BackfillHasNoGaps,
              vars
<1> QED
  BY <1>1, <1>2, <1>3, <1>4, <1>5 DEF Next

\* IInv holds in every reachable state.
THEOREM Invariance == Spec => []IInv
<1> QED
  BY InitIInv, NextIInv, PTL DEF Spec

\* Every variable keeps its type.
THEOREM TypeCorrect == Spec => []TypeOK
<1>1. IInv => TypeOK
  BY DEF IInv
<1> QED
  BY Invariance, <1>1, PTL

\* processLog's IsProcessed check: an event is handled again only as often as
\* MarkProcessed did not follow its handler.
THEOREM Deduplication == Spec => []HandledOncePerFault
<1>1. IInv => HandledOncePerFault
  BY DEF IInv, CountOK, HandledOncePerFault
<1> QED
  BY Invariance, <1>1, PTL

\* processed_events and event_checkpoint only remember what was handled.
THEOREM TablesAreEarned == Spec => []RemembersOnlyHandled
<1>1. IInv => RemembersOnlyHandled
  BY DEF IInv
<1> QED
  BY Invariance, <1>1, PTL

\* backfill's batches leave no gap, for any batch size.
THEOREM BackfillIsComplete == Spec => []BackfillHasNoGaps
<1>1. IInv => BackfillHasNoGaps
  BY DEF IInv
<1> QED
  BY Invariance, <1>1, PTL
=============================================================================
