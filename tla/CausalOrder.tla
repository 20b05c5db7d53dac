------------------------------ MODULE CausalOrder ------------------------------
(***************************************************************************)
(* What the graph scheduler promises, without reservations, signatures,    *)
(* attempts or an event log: in every iteration of every run, nodes occur  *)
(* one at a time, each at most once, each leaving facts that stay, and     *)
(* only where the manifest supports them on facts already left.            *)
(***************************************************************************)
EXTENDS TransitionMonitor

CONSTANTS
    Instance,   \* (run, iteration) pairs
    Outcome     \* node -> the facts it may leave

VARIABLE left   \* instance -> node -> the facts it left, or NoFacts

Occurred(i) == {n \in Node : left[i][n] # NoFacts}

Init == left = [i \in Instance |-> [n \in Node |-> NoFacts]]

Occur(i, n, p) ==
    /\ n \notin Occurred(i)
    /\ Supported(n, Occurred(i), left[i], p)
    /\ left' = [left EXCEPT ![i][n] = p]

Next == \E i \in Instance, n \in Node : \E p \in Outcome[n] : Occur(i, n, p)

Spec == Init /\ [][Next]_left

=============================================================================
