------------------------- MODULE MCCapacityTracker -------------------------
(* A node with two GPUs, three cores and two GB of memory.                 *)
EXTENDS CapacityTracker

CONSTANTS s1, s2

NodeTotal == [r \in Resources |-> IF r = "cpu" THEN 3 ELSE 2]

\* Their pods run beside each other, but they cannot reserve together: the second
\* fails at the cores, and s1 itself, reserving again, at the memory.
Conflict ==
  [s \in Sessions |-> [r \in Resources |->
     IF r = "cpu" /\ s = s2 THEN 3 ELSE IF r = "mem" /\ s = s1 THEN 2 ELSE 1]]

\* One session fills the node; it asks for more cores than there are.
Whole == [s \in Sessions |-> [r \in Resources |-> IF r = "cpu" THEN 4 ELSE 2]]

\* The first session is worked on twice, the second once.
FirstTwice == [s \in Sessions |-> IF s = s1 THEN 2 ELSE 1]
Once == [s \in Sessions |-> 1]
=============================================================================
