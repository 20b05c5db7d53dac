--------------------------- MODULE MCHarnessRegistry ---------------------------
(* Small runs of the harness registry: two changes of one component, each  *)
(* by its own proposer, and evaluations of every kind.                     *)
EXTENDS HarnessRegistry, TLC

Draft(x, base, target, who) ==
    [change |-> x, component |-> "c", base |-> base, target |-> target, proposer |-> who,
     metric |-> "success", minimum |-> 1]

\* x2 starts from the same base as x1 or builds on it; x1 may be proposed twice.
MCIntended == {Draft("x1", "v1", "v2", "ann"), Draft("x1", "v1", "v3", "bob"),
               Draft("x2", "v1", "v3", "bob"), Draft("x2", "v2", "v3", "bob")}

Good(x) == [change |-> x, metric |-> "success", improvement |-> 1, lower |-> 1, declared |-> 1,
            regresses |-> FALSE, trusted |-> TRUE]

\* Besides the good one: modest in what it declares, too modest for the
\* proposal, uncertain, of another metric, regressing, of an unknown signer.
Kinds(x) == {Good(x),
             [Good(x) EXCEPT !.declared = 0, !.lower = 0],
             [Good(x) EXCEPT !.declared = 0, !.lower = 0, !.improvement = 0],
             [Good(x) EXCEPT !.lower = 0],
             [Good(x) EXCEPT !.metric = "speed"],
             [Good(x) EXCEPT !.regresses = TRUE],
             [Good(x) EXCEPT !.trusted = FALSE]}
MCEvaluations == UNION {Kinds(x) : x \in Change}

Alike == Permutations(Recorder)
=============================================================================
