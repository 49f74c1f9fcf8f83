-------------------------- MODULE SessionLifecycle --------------------------
(***************************************************************************)
(* What the hub promises of a rental session although its writers check a  *)
(* transition on a copy and write the copy back later.  Such a write may   *)
(* put FAILED or CANCELLED over any later state and STOPPED over those;    *)
(* what it cannot do is undo the creation, start a session twice, stop one *)
(* that never ran, or name a rental other than the one it ran with.        *)
(***************************************************************************)
CONSTANTS Sessions, Rentals,
          Renter,    \* [Rentals -> SUBSET Sessions]: same user and provider
          NULL
VARIABLES state,     \* lifecycle state of each session, "NONE" before creation
          ran,       \* the rental a session was started with, NULL before
          rental,    \* the rental its row names
          mined      \* rentals the contract has started

lifeVars == <<state, ran, rental, mined>>

Init == /\ state \in [Sessions -> {"NONE", "PENDING"}]
        /\ ran = [s \in Sessions |-> NULL]
        /\ rental = ran
        /\ mined = {}

Mine(r) == mined' = mined \cup {r} /\ UNCHANGED <<state, ran, rental>>

Create(s) == /\ state[s] = "NONE"
             /\ state' = [state EXCEPT ![s] = "PENDING"]
             /\ UNCHANGED <<ran, rental, mined>>

Run(s, r) == /\ state[s] # "NONE" /\ ran[s] = NULL
             /\ r \in mined /\ s \in Renter[r]
             /\ state'  = [state EXCEPT ![s] = "RUNNING"]
             /\ ran'    = [ran EXCEPT ![s] = r]
             /\ rental' = [rental EXCEPT ![s] = r]
             /\ UNCHANGED mined

Stop(s) == /\ ran[s] # NULL
           /\ state'  = [state EXCEPT ![s] = "STOPPED"]
           /\ rental' = [rental EXCEPT ![s] = ran[s]]
           /\ UNCHANGED <<ran, mined>>

\* The copy is from before the run (no rental) or from after it.
Fail(s) == /\ state[s] # "NONE"
           /\ state' = [state EXCEPT ![s] = "FAILED"]
           /\ \E r \in {NULL, ran[s]} : rental' = [rental EXCEPT ![s] = r]
           /\ UNCHANGED <<ran, mined>>

Cancel(s) == /\ state[s] # "NONE"
             /\ state'  = [state EXCEPT ![s] = "CANCELLED"]
             /\ rental' = [rental EXCEPT ![s] = NULL]
             /\ UNCHANGED <<ran, mined>>

Next == \/ \E r \in Rentals : Mine(r)
        \/ \E s \in Sessions : \/ Create(s) \/ Stop(s) \/ Fail(s) \/ Cancel(s)
                               \/ \E r \in Rentals : Run(s, r)

Spec == Init /\ [][Next]_lifeVars
=============================================================================
