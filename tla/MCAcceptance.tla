----------------------------- MODULE MCAcceptance -----------------------------
(* Two signed checks about two workspaces with the same artifacts. *)
EXTENDS Acceptance

MCPlans == <<"tests", "bench">>
MCCategoryOf == [c \in Check |-> IF c = "tests" THEN "correctness" ELSE "quality"]
MCBindings == [s \in Conditions |-> {"tests"}]
MCManifestOf == [w \in Workspace |-> "artifacts"]
MCOffsetOf == [c \in Check |-> IF c = "bench" THEN 1 ELSE 0]
MCTtlOf == [c \in Check |-> 1]
MCForeign == {[check |-> "tests", run |-> "other", intent |-> "i", instance |-> 1, manifest |-> "artifacts",
               workspace |-> "w2", terms |-> "other", result |-> "pass", issued |-> 0]}
===============================================================================
