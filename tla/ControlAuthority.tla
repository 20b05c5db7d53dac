--------------------------- MODULE ControlAuthority ---------------------------
(***************************************************************************)
(* The control graph of a task contract, executed under the causal order   *)
(* the scheduler keeps: what the compiled law itself guarantees, for every *)
(* contract and whatever order callers ask for its nodes in.               *)
(***************************************************************************)
EXTENDS ControlGraph

CONSTANTS
    Instances,   \* (run, iteration) pairs
    Outcomes     \* node -> the facts its producer may leave

ASSUME OutcomeAssumption == \A n \in ControlNodes : Outcomes[n] \subseteq [ControlFields -> ControlValues]

VARIABLE left

Law == INSTANCE CausalOrder WITH
           Node <- ControlNodes, Edge <- ControlEdges, Join <- ControlJoins,
           Field <- ControlFields, Value <- ControlValues,
           Instance <- Instances, Outcome <- Outcomes

Spec == Law!Spec

Happened(i, n) == left[i][n] # Law!NoFacts

(* No effect is dispatched in an iteration without that iteration's        *)
(* capability, its policy decision, an intent and the rule it names.       *)
EffectNeedsAuthority ==
    \A i \in Instances :
        Happened(i, The("executor.dispatch")) =>
            /\ Happened(i, The("capability.execute"))
            /\ Happened(i, The("principal.contract"))
            /\ Happened(i, The("policy.decision"))
            /\ \E r \in Rules : /\ Happened(i, <<"action.rule", r>>)
                                /\ left[i][The("action.intent")]["rule_index"] = r

(* If the policy decision asks for approval, the capability rests on an    *)
(* approval node; if it does not, no approval node ever occurs.            *)
CapabilityNeedsApproval ==
    \A i \in Instances :
        /\ /\ Happened(i, The("capability.execute"))
           /\ left[i][The("policy.decision")]["approval_required"] # "false"
           => \E r \in Rules : Happened(i, <<"approval.rule", r>>)
        /\ (\E r \in Rules : Happened(i, <<"approval.rule", r>>)) =>
               left[i][The("policy.decision")]["approval_required"] = "true"

(* Acceptance needs every guard of the contract to have passed, each on a  *)
(* receipt and an evaluation of the artifact that a successful execution   *)
(* of the same iteration produced.                                         *)
AcceptNeedsEveryGuard ==
    \A i \in Instances :
        Happened(i, The("decision.accept")) =>
            /\ \A g \in Guards : /\ left[i][<<"criterion", g>>]["passed"] = "True"
                                 /\ Happened(i, <<"receipt", g>>)
                                 /\ Happened(i, <<"evaluator", g>>)
            /\ Happened(i, The("snapshot.materialized"))
            /\ left[i][The("artifact.manifest")]["success"] = "True"
            /\ left[i][The("executor.result")]["success"] = "True"

(* One iteration either accepts or reconciles and escalates, never both:   *)
(* the two terminal decisions rest on opposite outcomes of the execution.  *)
AcceptExcludesReconcile ==
    \A i \in Instances :
        ~ (Happened(i, The("decision.accept")) /\ Happened(i, The("operation.reconcile")))
=============================================================================
