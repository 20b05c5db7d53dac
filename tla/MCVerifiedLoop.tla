----------------------------- MODULE MCVerifiedLoop -----------------------------
(* Small runs of the loop. *)
EXTENDS VerifiedLoop

MCRuleOf == [i \in Intent |-> IF i = "i2" THEN "r1" ELSE "r0"]
OneGuard  == <<"g0">>
TwoGuards == <<"g0", "g1">>

\* One plan for every guard, under its name.
NamedPlans == [g \in Guards |-> g]

\* cancel_run as its docstring describes its use.
DocumentedCancel == {"awaiting-approval", "reconciliation-required"}
=============================================================================
