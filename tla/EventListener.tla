---------------------------- MODULE EventListener ----------------------------
(***************************************************************************)
(* The blockchain event listener: EventListener.Start keeps reconnecting;  *)
(* each connection backfills from the checkpoint and then subscribes; every *)
(* log goes through processLog:                                            *)
(*                                                                         *)
(*    IsProcessed  ->  handler  ->  MarkProcessed  ->  UpdateCheckpoint    *)
(*                                                                         *)
(* four separate database or handler calls, between which the process may  *)
(* die.  The hub and the standalone indexer run the same code: each reader *)
(* has its own row of event_checkpoint (if the row exists at all), but     *)
(* processed_events is one table without a reader column.                  *)
(*                                                                         *)
(* The chain only grows here: there are no reorganisations.                *)
(***************************************************************************)
EXTENDS Naturals

CONSTANTS
  Readers,           \* checkpoint ids: "rental_events", "indexer_events"
  Checkpointed,      \* the readers with a row in event_checkpoint
  Logs,              \* the contract's logs, numbered in chain order
  BlockOf,           \* [Logs -> block number]
  TxOf,              \* [Logs -> Txs]
  Txs,
  Known,             \* the logs of the four event types IdentifyEvent knows
  BackfillBatchSize,
  StartHead,         \* the chain when the readers first start
  MaxBlock,          \* bound on the chain
  MaxFaults          \* bound on crashes, errors and disconnections

ASSUME LogsAssumption ==
  /\ Checkpointed \subseteq Readers
  /\ Logs \subseteq Nat \ {0}
  /\ BlockOf \in [Logs -> Nat \ {0}]
  /\ \A l, m \in Logs : l < m => BlockOf[l] <= BlockOf[m]
  /\ TxOf \in [Logs -> Txs]
  /\ \A l, m \in Logs : TxOf[l] = TxOf[m] => BlockOf[l] = BlockOf[m]
  /\ Known \subseteq Logs
  /\ BackfillBatchSize \in Nat \ {0}
  /\ MaxBlock \in Nat /\ StartHead \in 0..MaxBlock
  /\ MaxFaults \in Nat

NoLog == 0

VARIABLES
  head,        \* the chain's latest block
  conn,        \* where subscribe() is: "down", "backfill", "subscribe", "live"
  lastBlock, fromBlock, currentBlock,   \* the local variables of backfill
  todo,        \* logs fetched, or delivered by the subscription, not yet taken
  pc, cur,     \* the step of processLog, and its log
  checkpoint,  \* event_checkpoint.block_number
  processed,   \* processed_events.tx_hash
  failed,      \* failed_events, by reader
  faults,
  seen,        \* history: the logs processLog was called with
  handled,     \* history: how often a handler succeeded for a log
  unmarked     \* history: how often MarkProcessed did not follow

chainVars == <<head>>
blockVars == <<lastBlock, fromBlock, currentBlock>>
connVars  == <<conn, lastBlock, fromBlock, currentBlock>>
dbVars    == <<checkpoint, processed, failed>>
history   == <<seen, handled, unmarked>>
vars == <<head, conn, lastBlock, fromBlock, currentBlock, todo, pc, cur,
          checkpoint, processed, failed, faults, seen, handled, unmarked>>

ConnTypeOK ==
  /\ head \in 0..MaxBlock
  /\ conn \in [Readers -> {"down", "backfill", "subscribe", "live"}]
  /\ lastBlock \in [Readers -> Nat]
  /\ fromBlock \in [Readers -> Nat]
  /\ currentBlock \in [Readers -> Nat]
  /\ faults \in 0..MaxFaults

LogTypeOK ==
  /\ todo \in [Readers -> SUBSET Logs]
  /\ pc \in [Readers -> {"idle", "handle", "mark", "checkpoint"}]
  /\ cur \in [Readers -> Logs \cup {NoLog}]
  /\ \A p \in Readers : pc[p] # "idle" => cur[p] \in Known

TablesTypeOK ==
  /\ checkpoint \in [Readers -> Nat]
  /\ processed \subseteq Txs
  /\ failed \in [Readers -> SUBSET Logs]

HistoryTypeOK ==
  /\ seen \in [Readers -> SUBSET Logs]
  /\ handled \in [Readers -> [Logs -> Nat]]
  /\ unmarked \in [Readers -> [Logs -> Nat]]

TypeOK == ConnTypeOK /\ LogTypeOK /\ TablesTypeOK /\ HistoryTypeOK

Init ==
  /\ head = StartHead
  /\ conn = [p \in Readers |-> "down"]
  /\ lastBlock = [p \in Readers |-> 0]
  /\ fromBlock = [p \in Readers |-> 0]
  /\ currentBlock = [p \in Readers |-> 0]
  /\ todo = [p \in Readers |-> {}]
  /\ pc = [p \in Readers |-> "idle"]
  /\ cur = [p \in Readers |-> NoLog]
  /\ checkpoint = [p \in Readers |-> 0]
  /\ processed = {}
  /\ failed = [p \in Readers |-> {}]
  /\ faults = 0
  /\ seen = [p \in Readers |-> {}]
  /\ handled = [p \in Readers |-> [l \in Logs |-> 0]]
  /\ unmarked = [p \in Readers |-> [l \in Logs |-> 0]]

Fault == faults < MaxFaults /\ faults' = faults + 1

-----------------------------------------------------------------------------
(* The chain (external).                                                   *)

LogsIn(from, to) == {l \in Logs : from <= BlockOf[l] /\ BlockOf[l] <= to}

\* A block is mined: the subscription pushes its logs to connected readers.
NewBlock ==
  /\ head < MaxBlock
  /\ head' = head + 1
  /\ todo' = [p \in Readers |->
                IF conn[p] = "live" THEN todo[p] \cup LogsIn(head + 1, head + 1)
                                    ELSE todo[p]]
  /\ UNCHANGED <<connVars, pc, cur, dbVars, faults, history>>

-----------------------------------------------------------------------------
(* subscribe(): dial, backfill, subscribe, loop.                           *)

\* Dialling succeeds, the checkpoint is read and then the chain's head.  If
\* either fails (there may be no checkpoint row), or nothing was missed, the
\* listener goes on to subscribe.
StartBackfill(p) ==
  LET last == checkpoint[p] IN
  /\ conn[p] = "down"
  /\ \/ /\ p \in Checkpointed /\ last < head
        /\ conn' = [conn EXCEPT ![p] = "backfill"]
        /\ lastBlock' = [lastBlock EXCEPT ![p] = last]
        /\ fromBlock' = [fromBlock EXCEPT ![p] = last + 1]
        /\ currentBlock' = [currentBlock EXCEPT ![p] = head]
        /\ UNCHANGED faults
     \/ /\ p \notin Checkpointed \/ last >= head
        /\ conn' = [conn EXCEPT ![p] = "subscribe"]
        /\ UNCHANGED <<blockVars, faults>>
     \/ /\ p \in Checkpointed
        /\ conn' = [conn EXCEPT ![p] = "subscribe"]
        /\ Fault
        /\ UNCHANGED blockVars
  /\ UNCHANGED <<chainVars, todo, pc, cur, dbVars, history>>

Resting(p) == pc[p] = "idle" /\ todo[p] = {}

\* Mutant: a batch is one block short at its end.
ToBlockShort(p) ==
  IF fromBlock[p] + BackfillBatchSize - 1 > currentBlock[p]
    THEN currentBlock[p] ELSE fromBlock[p] + BackfillBatchSize - 2

ToBlock(p) ==
  IF fromBlock[p] + BackfillBatchSize - 1 > currentBlock[p]
    THEN currentBlock[p] ELSE fromBlock[p] + BackfillBatchSize - 1

\* One FilterLogs call; its error ends the backfill.
FetchBatch(p) ==
  /\ conn[p] = "backfill" /\ Resting(p)
  /\ fromBlock[p] <= currentBlock[p]
  /\ \/ /\ todo' = [todo EXCEPT ![p] = LogsIn(fromBlock[p], ToBlock(p))]
        /\ fromBlock' = [fromBlock EXCEPT ![p] = @ + BackfillBatchSize]
        /\ UNCHANGED <<conn, faults>>
     \/ /\ conn' = [conn EXCEPT ![p] = "subscribe"]
        /\ Fault
        /\ UNCHANGED <<todo, fromBlock>>
  /\ UNCHANGED <<chainVars, lastBlock, currentBlock, pc, cur, dbVars, history>>

\* Mutant: the loop only ends right behind the last block.
EndBackfillExact(p) ==
  /\ conn[p] = "backfill" /\ Resting(p)
  /\ fromBlock[p] = currentBlock[p] + 1
  /\ conn' = [conn EXCEPT ![p] = "subscribe"]
  /\ UNCHANGED <<chainVars, blockVars, todo, pc, cur, dbVars, faults, history>>

EndBackfill(p) ==
  /\ conn[p] = "backfill" /\ Resting(p)
  /\ fromBlock[p] > currentBlock[p]
  /\ conn' = [conn EXCEPT ![p] = "subscribe"]
  /\ UNCHANGED <<chainVars, blockVars, todo, pc, cur, dbVars, faults, history>>

\* SubscribeFilterLogs; its error goes back to Start's retry loop.
Subscribe(p) ==
  /\ conn[p] = "subscribe"
  /\ \/ /\ conn' = [conn EXCEPT ![p] = "live"]
        /\ UNCHANGED faults
     \/ /\ conn' = [conn EXCEPT ![p] = "down"]
        /\ Fault
  /\ UNCHANGED <<chainVars, blockVars, todo, pc, cur, dbVars, history>>

\* The select loop sees sub.Err(): logs it has not taken are gone.
Disconnect(p) ==
  /\ conn[p] = "live" /\ pc[p] = "idle"
  /\ conn' = [conn EXCEPT ![p] = "down"]
  /\ todo' = [todo EXCEPT ![p] = {}]
  /\ Fault
  /\ UNCHANGED <<chainVars, blockVars, pc, cur, dbVars, history>>

\* What follows a successful handler and precedes MarkProcessed is lost.
Forget(p) ==
  unmarked' = IF pc[p] = "mark"
                THEN [unmarked EXCEPT ![p][cur[p]] = @ + 1] ELSE unmarked

\* The process dies and is started again.
Crash(p) ==
  /\ conn' = [conn EXCEPT ![p] = "down"]
  /\ todo' = [todo EXCEPT ![p] = {}]
  /\ pc' = [pc EXCEPT ![p] = "idle"]
  /\ cur' = [cur EXCEPT ![p] = NoLog]
  /\ Forget(p)
  /\ Fault
  /\ UNCHANGED <<chainVars, blockVars, dbVars, seen, handled>>

-----------------------------------------------------------------------------
(* processLog.                                                             *)

Finish(p) == /\ pc' = [pc EXCEPT ![p] = "idle"]
             /\ cur' = [cur EXCEPT ![p] = NoLog]

\* Mutants: unknown events are not skipped; processed ones are not.
SkippedIfProcessed(l) == TxOf[l] \in processed
SkippedIfUnknown(l) == l \notin Known

\* processLog returns early for a transaction that is in processed_events and
\* for an event it does not know.
Skipped(l) == TxOf[l] \in processed \/ l \notin Known

\* The next log is taken and looked up by its transaction; it is dropped if it
\* is to be skipped or if the lookup fails.
IsProcessed(p, l) ==
  /\ pc[p] = "idle" /\ l \in todo[p]
  /\ \A m \in todo[p] : l <= m
  /\ todo' = [todo EXCEPT ![p] = @ \ {l}]
  /\ seen' = [seen EXCEPT ![p] = @ \cup {l}]
  /\ \/ /\ ~Skipped(l)
        /\ pc' = [pc EXCEPT ![p] = "handle"]
        /\ cur' = [cur EXCEPT ![p] = l]
        /\ UNCHANGED faults
     \/ Skipped(l) /\ UNCHANGED <<pc, cur, faults>>
     \/ Fault /\ UNCHANGED <<pc, cur>>
  /\ UNCHANGED <<chainVars, connVars, dbVars, handled, unmarked>>

\* Mutant: after a handler's failure the event is marked all the same.
HandleIgnoringError(p) ==
  /\ pc[p] = "handle"
  /\ \/ /\ handled' = [handled EXCEPT ![p][cur[p]] = @ + 1]
        /\ UNCHANGED <<failed, faults>>
     \/ /\ failed' = [failed EXCEPT ![p] = @ \cup {cur[p]}]
        /\ Fault
        /\ UNCHANGED handled
  /\ pc' = [pc EXCEPT ![p] = "mark"]
  /\ UNCHANGED <<chainVars, connVars, todo, cur, checkpoint, processed, seen,
                 unmarked>>

\* The handler runs.  Its failure puts the log into failed_events (unless that
\* insert fails too) and the log is dropped, unmarked.
Handle(p) ==
  /\ pc[p] = "handle"
  /\ \/ /\ handled' = [handled EXCEPT ![p][cur[p]] = @ + 1]
        /\ pc' = [pc EXCEPT ![p] = "mark"]
        /\ UNCHANGED <<cur, failed, faults>>
     \/ /\ \E saved \in {{}, {cur[p]}} :
             failed' = [failed EXCEPT ![p] = @ \cup saved]
        /\ Finish(p)
        /\ Fault
        /\ UNCHANGED handled
  /\ UNCHANGED <<chainVars, connVars, todo, checkpoint, processed, seen,
                 unmarked>>

MarkProcessed(p) ==
  /\ pc[p] = "mark"
  /\ \/ /\ processed' = processed \cup {TxOf[cur[p]]}
        /\ pc' = [pc EXCEPT ![p] = "checkpoint"]
        /\ UNCHANGED <<cur, faults, unmarked>>
     \/ Finish(p) /\ Forget(p) /\ Fault /\ UNCHANGED processed
  /\ UNCHANGED <<chainVars, connVars, todo, checkpoint, failed, seen, handled>>

\* UPDATE event_checkpoint ... AND block_number < $1; an error is only logged.
UpdateCheckpoint(p) ==
  LET block == BlockOf[cur[p]] IN
  /\ pc[p] = "checkpoint"
  /\ \/ /\ checkpoint' = [checkpoint EXCEPT ![p] =
                            IF p \in Checkpointed /\ @ < block THEN block ELSE @]
        /\ UNCHANGED faults
     \/ Fault /\ UNCHANGED checkpoint
  /\ Finish(p)
  /\ UNCHANGED <<chainVars, connVars, todo, processed, failed, history>>

ProcessLog(p) ==
  \/ \E l \in Logs : IsProcessed(p, l)
  \/ Handle(p) \/ MarkProcessed(p) \/ UpdateCheckpoint(p)

Listen(p) == StartBackfill(p) \/ FetchBatch(p) \/ EndBackfill(p) \/ Subscribe(p)

Next ==
  \/ NewBlock
  \/ \E p \in Readers : Listen(p) \/ ProcessLog(p) \/ Disconnect(p) \/ Crash(p)

Spec == Init /\ [][Next]_vars

\* backoff.Retry never gives up, and a reader's goroutine keeps running.
FairSpec == Spec /\ \A p \in Readers : WF_vars(Listen(p) \/ ProcessLog(p))

-----------------------------------------------------------------------------
(* What holds.                                                             *)

\* An event is handled again only if something went wrong between its
\* handler and the row of processed_events: once more for each time it did,
\* although reconnections, backfill and subscription deliver logs twice and
\* checkpoints are lost.
HandledOncePerFault ==
  \A p \in Readers, l \in Logs : handled[p][l] <= 1 + unmarked[p][l]

\* What the tables remember has happened: a processed transaction was handled
\* by some reader, and a reader's checkpoint is a block of which it handled an
\* event, never ahead of the chain.
RemembersOnlyHandled ==
  /\ \A t \in processed : \E p \in Readers, l \in Known :
       TxOf[l] = t /\ handled[p][l] > 0
  /\ \A p \in Readers :
       /\ checkpoint[p] <= head
       /\ checkpoint[p] > 0 =>
            \E l \in Known : BlockOf[l] = checkpoint[p] /\ handled[p][l] > 0

\* Backfill's batches leave no gap: every log between the checkpoint it started
\* from and the block it has reached is taken or about to be.
BackfillHasNoGaps ==
  \A p \in Readers : conn[p] = "backfill" =>
    \A l \in Logs :
      (/\ lastBlock[p] < BlockOf[l] /\ BlockOf[l] < fromBlock[p]
       /\ BlockOf[l] <= currentBlock[p])
        => l \in todo[p] \cup seen[p]

\* However connections fail, each reader is again and again subscribed with
\* nothing left to do.
ListenerRecovers ==
  \A p \in Readers : []<>(conn[p] = "live" /\ Resting(p))

-----------------------------------------------------------------------------
(* The inductive invariant behind HandledOncePerFault and                  *)
(* RemembersOnlyHandled.                                                   *)

\* A reader beyond the handler has handled its log; before it, every earlier
\* handling of it was one that was not remembered.
StepOK(p) ==
  /\ pc[p] \in {"mark", "checkpoint"} => handled[p][cur[p]] > 0
  /\ pc[p] = "handle" => handled[p][cur[p]] <= unmarked[p][cur[p]]
  /\ pc[p] = "checkpoint" => TxOf[cur[p]] \in processed

\* Nothing a reader has in hand is ahead of the chain.
FetchedOK(p) ==
  /\ pc[p] # "idle" => BlockOf[cur[p]] <= head
  /\ \A l \in todo[p] : BlockOf[l] <= head
  /\ currentBlock[p] <= head

CountOK(p, l) ==
  /\ handled[p][l] <= 1 + unmarked[p][l]
  /\ handled[p][l] > unmarked[p][l] =>
       TxOf[l] \in processed \/ (pc[p] = "mark" /\ cur[p] = l)

IInv ==
  /\ TypeOK
  /\ \A p \in Readers : StepOK(p) /\ FetchedOK(p)
  /\ \A p \in Readers, l \in Logs : CountOK(p, l)
  /\ RemembersOnlyHandled
  /\ BackfillHasNoGaps

-----------------------------------------------------------------------------
(* What the repository's comments say, and some behaviour breaks.          *)

\* migrations/004: the same event is not processed twice.
HandledOnce == \A p \in Readers, l \in Logs : handled[p][l] <= 1

\* checkpoint.go: the checkpoint is the last processed block, from which a
\* restart may go on.  Every known log up to it is processed, dead-lettered or in hand.
CheckpointCovers ==
  \A p \in Readers, l \in Known :
    BlockOf[l] <= checkpoint[p] =>
      \/ TxOf[l] \in processed \/ l \in failed[p]
      \/ l \in todo[p] \/ (pc[p] # "idle" /\ cur[p] = l)

\* listener.go: what processLog skips is a duplicate.  Every known log a reader
\* took was handled by this reader or dead-lettered.
SkipsOnlyDuplicates ==
  \A p \in Readers, l \in Known :
    (l \in seen[p] /\ cur[p] # l) => handled[p][l] > 0 \/ l \in failed[p]

\* indexer/config.go: indexing starts from a block of the past on the first run.
HistoryIsIndexed ==
  \A p \in Readers, l \in Known : BlockOf[l] <= StartHead => <>(l \in seen[p])
=============================================================================
