-------------------------- MODULE TransitionMonitor --------------------------
(***************************************************************************)
(* The transition monitor of a compiled manifest (graph_monitor.py): which *)
(* node may start, given the nodes already completed, the facts they left  *)
(* and the facts the caller brings.  The monitor is a pure function of its *)
(* arguments; GraphScheduler keeps the durable state it is applied to.     *)
(*                                                                         *)
(* A payload maps each field of interest to the value Python would print   *)
(* for it: the booleans are "True" and "False", an absent field is "None", *)
(* and a textual "true" (a signed fact) stays different from the boolean.  *)
(***************************************************************************)
EXTENDS Naturals, FiniteSets

CONSTANTS
    Node,       \* the template nodes of the manifest
    Edge,       \* [source, target, condition, kind, field, values]
    Join,       \* join node -> [predecessors, policy, threshold]
    Field,      \* payload fields that edges look at
    Value       \* values of those fields

Payload == [Field -> Value]

(***************************************************************************)
(* GraphPredicate.evaluate: str(None) is "None" and str(True) is "True",   *)
(* so the printed value is all a textual comparison sees.                  *)
(***************************************************************************)
Falsy == {"None", "False", ""}

PredicateHolds(e, p) ==
    CASE e.kind = "always"       -> TRUE
      [] e.kind = "field-truthy" -> p[e.field] \notin Falsy
      [] OTHER                   -> p[e.field] \in e.values

(* The closed vocabulary of legacy edge conditions. *)
ConditionHolds(e, p) ==
    CASE e.condition = ""                          -> TRUE
      [] e.condition = "execution.success"         -> p["success"] = "True"
      [] e.condition = "outcome-unknown-or-failed" -> p["success"] \in {"False", "indeterminate"}
      [] e.condition = "guard-pass"                -> p["passed"] = "True"
      [] OTHER                                     -> FALSE

(* A node that has left no facts; it has no `success` field either.        *)
NoFacts == [f \in {} |-> "None"]

CallersFacts(e, facts, p) == p    \* mutant: the caller's word unlocks the edge

(* `events.get(edge.source, payload)`: the source's own facts if it left   *)
(* any, and only otherwise what the caller of the transition brings.       *)
SourceFacts(e, facts, p) == IF facts[e.source] # NoFacts THEN facts[e.source] ELSE p

ConditionMatches(e, facts, p) ==
    /\ ConditionHolds(e, SourceFacts(e, facts, p))
    /\ PredicateHolds(e, SourceFacts(e, facts, p))

(* GraphJoin.satisfied_by *)
SatisfiedBy(j, done) ==
    LET count == Cardinality(j.predecessors \cap done)
    IN  CASE j.policy = "all" -> count = Cardinality(j.predecessors)
          [] j.policy = "any" -> count >= 1
          [] OTHER            -> count >= j.threshold

Incoming(n) == {e \in Edge : e.target = n}

(* The predecessors whose edge into n is traversable. *)
Traversable(n, done, facts, p) ==
    {e.source : e \in {d \in Incoming(n) : d.source \in done /\ ConditionMatches(d, facts, p)}}

(* The part of `enabled` that looks at the edges into n. *)
Supported(n, done, facts, p) ==
    IF n \in DOMAIN Join
    THEN SatisfiedBy(Join[n], Traversable(n, done, facts, p))
    ELSE \A e \in Incoming(n) : e.source \in done /\ ConditionMatches(e, facts, p)

EnabledUnsupported(n, done, begun, facts, p) ==  \* mutant: the edges are not looked at
    /\ n \in Node \ (done \cup begun)
    /\ n \notin DOMAIN Join /\ Incoming(n) = {} => done = {}

(* TransitionMonitor.enabled.  A node without incoming edges opens the     *)
(* iteration: it is enabled only while nothing is completed.               *)
Enabled(n, done, begun, facts, p) ==
    /\ n \in Node \ (done \cup begun)
    /\ n \notin DOMAIN Join /\ Incoming(n) = {} => done = {}
    /\ Supported(n, done, facts, p)

(***************************************************************************)
(* What a compiled manifest guarantees about the constants: GraphManifest. *)
(* validate ties edges and joins to nodes, GraphJoin bounds its threshold. *)
(***************************************************************************)
EdgeType == [source : Node, target : Node,
             condition : {"", "execution.success", "outcome-unknown-or-failed", "guard-pass"},
             kind : {"always", "field-truthy", "field-equals", "field-in"},
             field : Field, values : SUBSET Value]

JoinType == [predecessors : SUBSET Node, policy : {"all", "any", "threshold"}, threshold : Nat]

ASSUME ManifestAssumption ==
    /\ IsFiniteSet(Node)
    /\ Edge \subseteq EdgeType
    /\ DOMAIN Join \subseteq Node
    /\ \A n \in DOMAIN Join :
          /\ Join[n] \in JoinType
          /\ Join[n].predecessors # {}
          /\ Join[n].policy = "threshold" => Join[n].threshold \in 1..Cardinality(Join[n].predecessors)
          /\ Join[n].predecessors \subseteq {e.source : e \in Incoming(n)}
    /\ {"success", "passed"} \subseteq Field
    /\ {"None", "True", "False"} \subseteq Value
=============================================================================
