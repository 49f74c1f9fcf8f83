-------------------------- MODULE SettlementLedger --------------------------
(***************************************************************************)
(* What settlement promises of a session's money: what is stopped may be   *)
(* billed, and a bill may be lost; what is billed gets one amount          *)
(* recorded, for good; and at most one transfer is made for a session, of  *)
(* the recorded amount.                                                    *)
(***************************************************************************)
CONSTANT Sessions
VARIABLES stopped,   \* the sessions that are stopped
          billed,    \* the sessions that have a bill
          recorded,  \* [Sessions -> sets of at most one amount]
          paid       \* [Sessions -> amount], 0 if nothing was transferred

Init ==
  /\ stopped = {} /\ billed = {}
  /\ recorded = [s \in Sessions |-> {}]
  /\ paid = [s \in Sessions |-> 0]

\* A stopped session may fail afterwards.
StopOrFail(s) ==
  /\ stopped' \in {stopped \cup {s}, stopped \ {s}}
  /\ UNCHANGED <<billed, recorded, paid>>

Bill ==
  /\ billed = {}
  /\ billed' \subseteq {s \in stopped : recorded[s] = {}}
  /\ UNCHANGED <<stopped, recorded, paid>>

LoseBills ==
  /\ billed' \subseteq billed
  /\ UNCHANGED <<stopped, recorded, paid>>

Record(s) ==
  /\ s \in billed /\ recorded[s] = {}
  /\ billed' = billed \ {s}
  /\ \E amount \in recorded'[s] : recorded' = [recorded EXCEPT ![s] = {amount}]
  /\ UNCHANGED <<stopped, paid>>

Transfer(s) ==
  /\ paid[s] = 0
  /\ \E amount \in recorded[s] : paid' = [paid EXCEPT ![s] = amount]
  /\ UNCHANGED <<stopped, billed, recorded>>

Next ==
  \/ Bill \/ LoseBills
  \/ \E s \in Sessions : StopOrFail(s) \/ Record(s) \/ Transfer(s)

Spec == Init /\ [][Next]_<<stopped, billed, recorded, paid>>
=============================================================================
