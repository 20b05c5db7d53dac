--------------------------- MODULE MCVerifiedMemory ---------------------------
(* Small runs of the evidence ledger, the memory ledger and their workers. *)
EXTENDS VerifiedMemory, TLC

MCEvidence == {[type |-> "final-goal.completed", run |-> "r1", verdict |-> "pass"],
               [type |-> "verification.completed", run |-> "r2", verdict |-> "fail"]}
OnePassing == {[type |-> "final-goal.completed", run |-> "r1", verdict |-> "pass"]}

\* Every process is a worker of its own id.
AnchorOwnId  == [p \in Anchorer |-> p]
ProjectOwnId == [p \in Projector |-> p]

Alike == Permutations(Committer)
=============================================================================
