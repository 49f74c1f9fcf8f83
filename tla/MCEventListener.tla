-------------------------- MODULE MCEventListener --------------------------
(* Small chains for EventListener.  Logs are numbered in chain order.      *)
EXTENDS EventListener

CONSTANTS t1, t2, t3, t4

\* Four events in three blocks, one of a type the hub does not know.
FourLogs == 1..4
FourBlocks == <<1, 2, 2, 3>>
FourTxs == <<t1, t2, t3, t4>>

\* Two events in two blocks.
TwoLogs == 1..2
TwoBlocks == <<1, 2>>
TwoTxs == <<t1, t2>>

\* Two events of one transaction.
OneTx == <<t1, t1>>
OneBlock == <<1, 1>>
=============================================================================
