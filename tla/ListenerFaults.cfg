CONSTANTS
  t1 = t1
  t2 = t2
  t3 = t3
  t4 = t4
  Readers = {"rental_events", "indexer_events"}
  Checkpointed = {"rental_events"}
  Logs <- FourLogs
  BlockOf <- FourBlocks
  TxOf <- FourTxs
  Txs = {t1, t2, t3, t4}
  Known = {1, 2, 3}
  BackfillBatchSize = 2
  StartHead = 1
  MaxBlock = 3
  MaxFaults = 2
SPECIFICATION FairSpec
CHECK_DEADLOCK FALSE
INVARIANT TypeOK
INVARIANT HandledOncePerFault
INVARIANT RemembersOnlyHandled
INVARIANT BackfillHasNoGaps
PROPERTY ListenerRecovers
