----------------------------- MODULE ControlGraph -----------------------------
(***************************************************************************)
(* The manifest _compile_control_graph builds from a task contract         *)
(* (graph.py): every node, every edge with the fact it asks of its source, *)
(* and the three joins.                                                    *)
(*                                                                         *)
(* A node is <<template, index>>; index "" for the nodes there is one of.  *)
(* Rules are the contract's allowed_actions, Guards its completion guards, *)
(* Verifiers its required verifiers; a name that is both would give two    *)
(* evaluator nodes one identity, which validate() refuses.  PlanReceipt is *)
(* what the evaluation plans bring: a check and the receipt type it signs; *)
(* of a check that the contract already names, the receipt type is ignored.*)
(***************************************************************************)
EXTENDS Naturals, FiniteSets

CONSTANTS Rules, Guards, Verifiers, PlanReceipt

ASSUME ContractAssumption ==
    /\ IsFiniteSet(Rules) /\ IsFiniteSet(Guards) /\ IsFiniteSet(Verifiers)
    /\ Rules # {} /\ Guards # {}
    /\ Guards \cap Verifiers = {}
    /\ IsFiniteSet(DOMAIN PlanReceipt)
    /\ \A c, d \in DOMAIN PlanReceipt : PlanReceipt[c] = PlanReceipt[d] => c = d

The(t) == <<t, "">>
Each(t, S) == {<<t, x>> : x \in S}

Checks == Guards \cup Verifiers \cup DOMAIN PlanReceipt

ReceiptOf(c) == IF c \in Guards \cup Verifiers THEN c ELSE PlanReceipt[c]

Receipts == {ReceiptOf(c) : c \in Checks}

Singles ==
    {"task.contract", "principal.contract", "action.intent", "join.action.rule.any", "policy.decision",
     "join.action.authority.any", "capability.execute", "operation.prepared", "executor.dispatch",
     "executor.result", "operation.reconcile", "snapshot.request", "snapshot.materialized",
     "artifact.manifest", "join.guards.all", "decision.accept", "decision.escalate"}

ControlNodes ==
    {The(t) : t \in Singles} \cup Each("action.rule", Rules) \cup Each("approval.rule", Rules)
        \cup Each("evaluator", Checks) \cup Each("receipt", Receipts) \cup Each("criterion", Guards)

Arc(s, t) == [source |-> s, target |-> t, condition |-> "", kind |-> "always", field |-> "success", values |-> {}]
ArcUnconditional(s, t, cond) == Arc(s, t)    \* mutant: the condition is dropped
ArcIf(s, t, cond) == [Arc(s, t) EXCEPT !.condition = cond]
ArcUnguarded(s, t, f, v) == Arc(s, t)        \* mutant: the predicate is dropped
ArcWhen(s, t, f, v) == [Arc(s, t) EXCEPT !.kind = "field-equals", !.field = f, !.values = {v}]

OpeningEdges == {Arc(The("task.contract"), The(t)) : t \in {"principal.contract", "action.intent", "snapshot.request"}}

RuleEdges ==
    {ArcWhen(The("action.intent"), <<"action.rule", r>>, "rule_index", r) : r \in Rules}
    \cup {Arc(<<"action.rule", r>>, The("join.action.rule.any")) : r \in Rules}
    \cup {ArcWhen(The("policy.decision"), <<"approval.rule", r>>, "approval_required", "true") : r \in Rules}
    \cup {Arc(<<"approval.rule", r>>, The("join.action.authority.any")) : r \in Rules}

SpineEdges ==
    {Arc(The("join.action.rule.any"), The("policy.decision")),
     ArcWhen(The("policy.decision"), The("join.action.authority.any"), "approval_required", "false"),
     Arc(The("principal.contract"), The("capability.execute")),
     Arc(The("join.action.authority.any"), The("capability.execute")),
     Arc(The("capability.execute"), The("operation.prepared")),
     Arc(The("operation.prepared"), The("executor.dispatch")),
     Arc(The("executor.dispatch"), The("executor.result")),
     ArcIf(The("executor.result"), The("artifact.manifest"), "execution.success"),
     ArcIf(The("executor.result"), The("operation.reconcile"), "outcome-unknown-or-failed"),
     Arc(The("operation.reconcile"), The("decision.escalate")),
     Arc(The("snapshot.request"), The("snapshot.materialized")),
     Arc(The("join.guards.all"), The("decision.accept"))}

CheckEdges ==
    {ArcIf(The("artifact.manifest"), <<"evaluator", c>>, "execution.success") : c \in Checks}
    \cup {Arc(The("snapshot.materialized"), <<"evaluator", c>>) : c \in Checks}
    \cup {Arc(<<"evaluator", c>>, <<"receipt", ReceiptOf(c)>>) : c \in Checks}
    \cup {Arc(<<"receipt", g>>, <<"criterion", g>>) : g \in Guards}

GuardEdges == {ArcIf(<<"criterion", g>>, The("join.guards.all"), "guard-pass") : g \in Guards}

ControlEdges == OpeningEdges \cup RuleEdges \cup SpineEdges \cup CheckEdges \cup GuardEdges

JoinNodes == {The("join.action.rule.any"), The("join.action.authority.any"), The("join.guards.all")}

ControlJoins == [n \in JoinNodes |->
    [predecessors |-> CASE n[1] = "join.action.rule.any"      -> Each("action.rule", Rules)
                        [] n[1] = "join.action.authority.any" -> {The("policy.decision")} \cup Each("approval.rule", Rules)
                        [] OTHER                              -> Each("criterion", Guards),
     policy    |-> IF n[1] = "join.guards.all" THEN "all" ELSE "any",
     threshold |-> 0]]

ControlFields == {"success", "passed", "rule_index", "approval_required"}
ControlValues == {"None", "True", "False", "true", "false", "succeeded", "failed", "indeterminate"} \cup Rules
Blank == [f \in ControlFields |-> "None"]
=============================================================================
