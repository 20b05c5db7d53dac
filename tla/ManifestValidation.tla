-------------------------- MODULE ManifestValidation --------------------------
(***************************************************************************)
(* GraphManifest.validate of graph.py, the static law a manifest must pass *)
(* before the monitor runs it, and what it is for: whatever order the      *)
(* nodes of an accepted manifest occur in, no effect precedes its          *)
(* capability and no acceptance its guards.                                *)
(*                                                                         *)
(* A manifest is a record of nodes (a function on their identities), edges *)
(* [source, target, type] and joins (a function on the nodes they govern); *)
(* the ports of the edges and what edges ask of facts are left out.        *)
(***************************************************************************)
EXTENDS ControlAuthority

CONSTANT Manifests   \* manifests that may be brought to validate()

ASSUME ManifestsAreFinite ==
    \A m \in Manifests : /\ IsFiniteSet(DOMAIN m.nodes)
                         /\ \A j \in DOMAIN m.joins : m.joins[j].threshold \in Nat

-------------------------------------------------------------------------------
(* The manifest of ControlGraph with what its nodes and edges declare.     *)
NodeType(t) ==
    CASE t \in {"action.intent", "action.rule"}                      -> "action"
      [] t \in {"policy.decision", "capability.execute"}             -> "capability"
      [] t \in {"operation.prepared", "operation.reconcile"}         -> "operation"
      [] t \in {"executor.dispatch", "executor.result"}              -> "executor"
      [] t \in {"snapshot.request", "snapshot.materialized"}         -> "snapshot"
      [] t \in {"decision.accept", "decision.escalate"}              -> "decision"
      [] t \in {"join.action.rule.any", "join.action.authority.any", "join.guards.all"} -> "join"
      [] t = "task.contract"      -> "task"
      [] t = "principal.contract" -> "principal"
      [] t = "approval.rule"      -> "approval"
      [] t = "artifact.manifest"  -> "artifact"
      [] OTHER                    -> t      \* evaluator, receipt, criterion

EdgeKind(s, t) ==
    CASE NodeType(t) = "join" \/ s \in {"join.action.authority.any", "join.guards.all"} -> "satisfies"
      [] t \in {"approval.rule", "operation.prepared"} \/ s = "principal.contract"      -> "authorised-by"
      [] t = "executor.dispatch"                                                        -> "dispatched-to"
      [] t \in {"executor.result", "artifact.manifest", "receipt"}                      -> "produced"
      [] t = "operation.reconcile"                                                      -> "reconciles"
      [] t = "decision.escalate"                                                        -> "escalates-to"
      [] s = "snapshot.materialized"                                                    -> "requires"
      [] t = "criterion" \/ (t = "evaluator" /\ s = "artifact.manifest")                -> "verified-by"
      [] OTHER                                                                          -> "depends-on"

Marks == {"terminal", "recovery", "approval_required", "human_control", "untrusted", "budget", "timeout"}

Declared(n) ==
    [type   |-> NodeType(n[1]),
     effect |-> IF n[1] = "executor.dispatch" THEN "side-effect"
                ELSE IF NodeType(n[1]) = "decision" THEN "terminal" ELSE "read-only",
     marks  |-> (IF n[1] = "receipt" THEN {"terminal"} ELSE {})
                   \cup (IF n[1] = "operation.reconcile" THEN {"recovery"} ELSE {}),
     guard  |-> IF n[1] = "criterion" THEN n[2] ELSE "",
     required_guards |-> IF n[1] = "decision.accept" THEN Guards ELSE {}]

Compiled ==
    [nodes |-> [n \in ControlNodes |-> Declared(n)],
     edges |-> {[source |-> e.source, target |-> e.target, type |-> EdgeKind(e.source[1], e.target[1])]
                   : e \in ControlEdges},
     joins |-> ControlJoins]

-------------------------------------------------------------------------------
(* _EDGE_COMPATIBILITY; edges of the other types join what they like.      *)
EdgeCompatibility ==
    [t \in {"authorised-by", "dispatched-to", "produced", "verified-by", "satisfies", "reconciles", "requires"} |->
        CASE t = "authorised-by" -> {<<"action", "approval">>, <<"capability", "approval">>,
                                     <<"principal", "capability">>, <<"approval", "capability">>,
                                     <<"capability", "operation">>}
          [] t = "dispatched-to" -> {<<"operation", "executor">>}
          [] t = "produced"      -> {<<"executor", "executor">>, <<"executor", "artifact">>,
                                     <<"evaluator", "receipt">>}
          [] t = "verified-by"   -> {<<"artifact", "evaluator">>, <<"receipt", "criterion">>}
          [] t = "satisfies"     -> {<<"action", "join">>, <<"approval", "join">>, <<"capability", "join">>,
                                     <<"criterion", "join">>, <<"join", "capability">>, <<"join", "decision">>}
          [] t = "reconciles"    -> {<<"executor", "operation">>}
          [] OTHER               -> {<<"snapshot", "evaluator">>}]

EdgePairIsValid(s, t, d) == t \in DOMAIN EdgeCompatibility => <<s, d>> \in EdgeCompatibility[t]

Targets(S, E, barred) == {e.target : e \in {d \in E : d.source \in S}} \ barred

(* The walks of graph.py: what edges lead to from S, past no barred node.  *)
Spread(S, E, barred) ==
    LET seen[T \in SUBSET (S \cup {e.target : e \in E})] ==
            LET more == Targets(T, E, barred)
            IN  IF more \subseteq T THEN T ELSE seen[T \cup more]
    IN  seen[S]

Reverse(E) == {[source |-> e.target, target |-> e.source, type |-> e.type] : e \in E}
Of(E, types) == {e \in E : e.type \in types}
Into(m, n) == {e \in m.edges : e.target = n}
From(m, n) == {e \in m.edges : e.source = n}
Typed(m, type) == {n \in DOMAIN m.nodes : m.nodes[n].type = type}
Marked(m, mark) == {n \in DOMAIN m.nodes : mark \in m.nodes[n].marks}
Entries(m) == {n \in DOMAIN m.nodes : Into(m, n) = {}}
SideEffects(m) == {n \in DOMAIN m.nodes : m.nodes[n].effect = "side-effect"}
Accept == The("decision.accept")

Authorities == {"authorised-by", "dispatched-to"}
Downstream(m, n) == Spread({n}, m.edges, {})

HasCapabilityPath(m, n) ==
    (Spread({n}, Reverse(Of(m.edges, Authorities)), {}) \ {n}) \cap Typed(m, "capability") # {}
HasApprovalPath(m, n) ==
    (Spread({n}, Reverse(Of(m.edges, {"authorised-by"})), {}) \ {n}) \cap Typed(m, "approval") # {}

(* A decision whose name ends with escalate or cancel.                     *)
HumanExits(m) == {n \in Typed(m, "decision") : n[1] \in {"decision.escalate", "decision.cancel"}}
ReachesHumanExit(m, n) == (Downstream(m, n) \ {n}) \cap HumanExits(m) # {}
ReachesRecovery(m, n)  == Downstream(m, n) \cap Typed(m, "operation") \cap Marked(m, "recovery") # {}
ReachesAuthority(m, n) ==
    (Downstream(m, n) \ {n}) \cap (Typed(m, "approval") \cup Typed(m, "capability")) # {}
ReachableWithout(m, target, excluded) == target \in Spread(Entries(m) \ excluded, m.edges, excluded)

(* The strongly connected components that form a cycle.                    *)
OnCycle(m) == {n \in DOMAIN m.nodes : \E e \in From(m, n) : n \in Downstream(m, e.target)}
CyclicComponents(m) == {{k \in Downstream(m, n) : n \in Downstream(m, k)} : n \in OnCycle(m)}

EdgesAreValid(m) ==
    \A e \in m.edges :
        /\ {e.source, e.target} \subseteq DOMAIN m.nodes
        /\ EdgePairIsValid(m.nodes[e.source].type, e.type, m.nodes[e.target].type)

NothingDangles(m) ==
    /\ Spread(Entries(m), m.edges, {}) = DOMAIN m.nodes
    /\ \A n \in DOMAIN m.nodes \ Marked(m, "terminal") :
           From(m, n) # {} \/ m.nodes[n].effect \in {"terminal", "side-effect"}

EffectsAreAuthorised(m) ==
    \A n \in SideEffects(m) :
        /\ Of(Into(m, n), Authorities) # {} /\ HasCapabilityPath(m, n) /\ ReachesRecovery(m, n)

HumansAreAsked(m) ==
    /\ \A n \in Marked(m, "approval_required") : HasApprovalPath(m, n)
    /\ \A n \in Marked(m, "human_control") : ReachesHumanExit(m, n)

GuardedByAnyJoin(m) ==    \* mutant: a join that does not ask for all guards will do
    LET barriers == {e \in Of(Into(m, Accept), {"satisfies"}) : m.nodes[e.source].type = "join"}
    IN  /\ Cardinality(barriers) = 1
        /\ \A e \in barriers :
              /\ e.source \in DOMAIN m.joins /\ m.joins[e.source].predecessors \subseteq DOMAIN m.nodes
              /\ m.nodes[Accept].required_guards
                     \subseteq {m.nodes[p].guard : p \in m.joins[e.source].predecessors}

AcceptIsGuarded(m) ==
    LET barriers == {e \in Of(Into(m, Accept), {"satisfies"}) : m.nodes[e.source].type = "join"}
    IN  Accept \in Typed(m, "decision") =>
        /\ m.nodes[Accept].required_guards # {}
        /\ Cardinality(barriers) = 1
        /\ \A e \in barriers :
              /\ e.source \in DOMAIN m.joins /\ m.joins[e.source].policy = "all"
              /\ LET guards == m.joins[e.source].predecessors
                 IN  /\ guards \subseteq DOMAIN m.nodes
                     /\ m.nodes[Accept].required_guards \subseteq {m.nodes[g].guard : g \in guards}
                     /\ ~ ReachableWithout(m, Accept, guards)

JoinsAreDeclared(m) ==
    \A j \in DOMAIN m.joins :
        /\ j \in Typed(m, "join")
        /\ {e.source : e \in Of(Into(m, j), {"satisfies"})} = m.joins[j].predecessors

CyclesAreBounded(m) ==
    \A C \in CyclicComponents(m) :
        /\ C \subseteq Marked(m, "budget") \cap Marked(m, "timeout")
        /\ \E e \in Of(m.edges, {"escalates-to"}) : e.source \in C /\ e.target \notin C

TrustIsKept(m) == \A n \in Marked(m, "untrusted") : ~ ReachesAuthority(m, n)

Validate(m) ==
    /\ EdgesAreValid(m) /\ NothingDangles(m) /\ EffectsAreAuthorised(m) /\ HumansAreAsked(m)
    /\ AcceptIsGuarded(m) /\ JoinsAreDeclared(m) /\ CyclesAreBounded(m) /\ TrustIsKept(m)

-------------------------------------------------------------------------------
(* The nodes that can occur if those of `barred` do not, whatever the      *)
(* facts: TransitionMonitor.enabled, run until nothing more is enabled.    *)
Before(m, n) == {e.source : e \in Into(m, n)}

Enabled(m, done, barred) ==
    {n \in DOMAIN m.nodes \ barred :
        IF n \in DOMAIN m.joins THEN Law!SatisfiedBy(m.joins[n], Before(m, n) \cap done)
        ELSE Before(m, n) \subseteq done}

MayOccur(m, barred) ==
    LET run[done \in SUBSET DOMAIN m.nodes] ==
            LET more == Enabled(m, done, barred)
            IN  IF more \subseteq done THEN done ELSE run[done \cup more]
    IN  run[{}]

(* The static checks of validate() are enough for the runs.  A monitor asks *)
(* for them before it admits its first node (graph_monitor.py __init__),   *)
(* and in whatever order it then lets the nodes of an accepted manifest    *)
(* occur, a side effect comes after a capability, a node that needs        *)
(* approval after an approval and acceptance after every required guard;   *)
(* no authority waits for an untrusted node.  And the compiler's own       *)
(* manifest is accepted.                                                   *)
ValidManifestsAreSafe ==
    Law!Init =>
    /\ Validate(Compiled)
    /\ \A m \in Manifests : Validate(m) =>
          /\ \A n \in SideEffects(m) : n \notin MayOccur(m, Typed(m, "capability") \ {n})
          /\ \A n \in Marked(m, "approval_required") : n \notin MayOccur(m, Typed(m, "approval") \ {n})
          /\ Accept \in Typed(m, "decision") =>
                \A g \in m.nodes[Accept].required_guards :
                    Accept \notin MayOccur(m, {n \in DOMAIN m.nodes : m.nodes[n].guard = g})
          /\ LET authority == (Typed(m, "approval") \cup Typed(m, "capability")) \ Marked(m, "untrusted")
             IN  authority \cap MayOccur(m, {}) \subseteq MayOccur(m, Marked(m, "untrusted"))
=============================================================================
