------------------------------ MODULE AtLeastOnce ------------------------------
(***************************************************************************)
(* What an outbox promises of the items handed to it: an item is settled   *)
(* only after the outside service has taken it, stays settled, and an item *)
(* that was asked for is never forgotten, so that in the end it is settled.*)
(***************************************************************************)
CONSTANT Item

VARIABLES
    wanted,    \* items somebody committed to deliver
    taken,     \* items the outside service holds, each perhaps several times over
    settled    \* items recorded as delivered

vars == <<wanted, taken, settled>>

Init == wanted = {} /\ taken = {} /\ settled = {}

Want(i) ==
    /\ i \notin wanted
    /\ wanted' = wanted \cup {i}
    /\ UNCHANGED <<taken, settled>>

Take(i) ==
    /\ i \in wanted \ taken
    /\ taken' = taken \cup {i}
    /\ UNCHANGED <<wanted, settled>>

Settle(i) ==
    /\ i \in taken \ settled
    /\ settled' = settled \cup {i}
    /\ UNCHANGED <<wanted, taken>>

Next == \E i \in Item : Want(i) \/ Take(i) \/ Settle(i)

Spec == Init /\ [][Next]_vars
=============================================================================
