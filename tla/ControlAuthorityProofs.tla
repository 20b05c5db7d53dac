------------------------- MODULE ControlAuthorityProofs -------------------------
(***************************************************************************)
(* The compiled control graph guarantees authority, approval, acceptance   *)
(* and the exclusion of opposite decisions for every contract: any number  *)
(* of rules, guards, verifiers and evaluation plans.                       *)
(*                                                                         *)
(* The invariant is Rooted: every node that occurred has its basis, the    *)
(* edges into it met, in the facts as they are now.  The properties follow *)
(* from it by walking the compiled edges backwards.                        *)
(*                                                                         *)
(* The second half is about validate(): its walks, and the runs it is to   *)
(* make safe, are least closed sets of nodes, so that a set no edge leaves *)
(* bounds a walk and a set nothing more is enabled by bounds the runs.     *)
(* From that the safety of every finite manifest it accepts, and that it   *)
(* accepts the compiled one.                                               *)
(***************************************************************************)
EXTENDS ManifestValidation, FiniteSetTheorems, WellFoundedInduction, TLAPS

In(n) == {e \in ControlEdges : e.target = n}

Met(i, e) ==
    /\ Happened(i, e.source)
    /\ Law!ConditionHolds(e, left[i][e.source])
    /\ Law!PredicateHolds(e, left[i][e.source])

AnyJoins == {The("join.action.rule.any"), The("join.action.authority.any")}

Basis(i, n) == IF n \in AnyJoins THEN \E e \in In(n) : Met(i, e) ELSE \A e \in In(n) : Met(i, e)

Rooted == \A i \in Instances : \A n \in ControlNodes : Happened(i, n) => Basis(i, n)

Shape == left \in [Instances -> [ControlNodes -> Law!Payload \cup {Law!NoFacts}]]

-------------------------------------------------------------------------------
LEMMA SameCardinality == \A S : Law!Cardinality(S) = Cardinality(S)
BY Zenon DEF Cardinality, Law!Cardinality

LEMMA NoFactsIsNoPayload == Law!NoFacts \notin Law!Payload
<1>1. "success" \in ControlFields BY DEF ControlFields
<1>2. \A p \in Law!Payload : DOMAIN p = ControlFields BY DEF Law!Payload
<1>3. DOMAIN Law!NoFacts = {} BY DEF Law!NoFacts
<1> QED BY <1>1, <1>2, <1>3

LEMMA GuardsFinite == IsFiniteSet(Each("criterion", Guards))
<1> DEFINE f == [g \in Guards |-> <<"criterion", g>>]
<1>1. f \in Surjection(Guards, Each("criterion", Guards))
  BY DEF Surjection, Each
<1> QED BY <1>1, FS_Surjection, ContractAssumption

(* A set of which every element is counted is counted in full.             *)
LEMMA AllCounted ==
    ASSUME NEW P, NEW A, IsFiniteSet(P), Cardinality(P \cap A) = Cardinality(P)
    PROVE  P \subseteq A
BY FS_Subset, P \cap A \in SUBSET P

LEMMA NoneCounted ==
    ASSUME NEW A, Cardinality(A) >= 1
    PROVE  A # {}
BY FS_EmptySet

(* The three kinds of edges keep their ends, and ask what they say.        *)
LEMMA ArcFields ==
    /\ \A s, t : /\ Arc(s, t).source = s /\ Arc(s, t).target = t
    /\ \A s, t, c : /\ ArcIf(s, t, c).source = s /\ ArcIf(s, t, c).target = t
                    /\ ArcIf(s, t, c).condition = c /\ ArcIf(s, t, c).kind = "always"
    /\ \A s, t, f, v : /\ ArcWhen(s, t, f, v).source = s /\ ArcWhen(s, t, f, v).target = t
                       /\ ArcWhen(s, t, f, v).kind = "field-equals"
                       /\ ArcWhen(s, t, f, v).field = f /\ ArcWhen(s, t, f, v).values = {v}
BY DEF Arc, ArcIf, ArcWhen

LEMMA TheIsInjective ==
    /\ \A s, t : The(s) = The(t) => s = t
    /\ \A s, t, x : The(s) = <<t, x>> => s = t
    /\ \A t : The(t)[1] = t
BY DEF The

(* The only edges into the guard join are those from the criteria, each    *)
(* under guard-pass.                                                       *)
LEMMA IntoGuardJoin ==
    ASSUME NEW e \in In(The("join.guards.all"))
    PROVE  \E g \in Guards : e = ArcIf(<<"criterion", g>>, The("join.guards.all"), "guard-pass")
<1>1. e \in ControlEdges /\ e.target = The("join.guards.all")
  BY DEF In
<1>2. e \notin OpeningEdges
  BY <1>1, ArcFields, TheIsInjective DEF OpeningEdges
<1>3. e \notin RuleEdges
  <2>1. ASSUME NEW r \in Rules
        PROVE  /\ ArcWhen(The("action.intent"), <<"action.rule", r>>, "rule_index", r) # e
               /\ Arc(<<"action.rule", r>>, The("join.action.rule.any")) # e
               /\ ArcWhen(The("policy.decision"), <<"approval.rule", r>>, "approval_required", "true") # e
               /\ Arc(<<"approval.rule", r>>, The("join.action.authority.any")) # e
    BY <1>1, ArcFields, TheIsInjective
  <2> QED BY <2>1 DEF RuleEdges
<1>4. e \notin SpineEdges
  <2>1. \A d \in SpineEdges : \E t \in Singles \ {"join.guards.all"} : d.target = The(t)
    BY ArcFields DEF SpineEdges, Singles
  <2> QED BY <1>1, <2>1, TheIsInjective
<1>5. e \notin CheckEdges
  <2>1. ASSUME NEW c, NEW d
        PROVE  /\ ArcIf(The("artifact.manifest"), <<"evaluator", c>>, "execution.success") # e
               /\ Arc(The("snapshot.materialized"), <<"evaluator", c>>) # e
               /\ Arc(<<"evaluator", c>>, <<"receipt", d>>) # e
               /\ Arc(<<"receipt", c>>, <<"criterion", c>>) # e
    BY <1>1, ArcFields, TheIsInjective
  <2> QED BY <2>1 DEF CheckEdges
<1>6. e \in GuardEdges
  BY <1>1, <1>2, <1>3, <1>4, <1>5 DEF ControlEdges
<1> QED BY <1>6 DEF GuardEdges

(* Edges run between the graph's nodes.                                    *)
LEMMA EdgesJoinNodes ==
    ASSUME NEW e \in ControlEdges
    PROVE  e.source \in ControlNodes /\ e.target \in ControlNodes
<1>1. \A t \in Singles : The(t) \in ControlNodes
  BY DEF ControlNodes
<1>2. ASSUME NEW r \in Rules
      PROVE  <<"action.rule", r>> \in ControlNodes /\ <<"approval.rule", r>> \in ControlNodes
  BY DEF ControlNodes, Each
<1>3. ASSUME NEW c \in Checks
      PROVE  <<"evaluator", c>> \in ControlNodes /\ <<"receipt", ReceiptOf(c)>> \in ControlNodes
  BY DEF ControlNodes, Each, Receipts
<1>4. ASSUME NEW g \in Guards
      PROVE  <<"receipt", g>> \in ControlNodes /\ <<"criterion", g>> \in ControlNodes
  <2>1. g \in Checks /\ ReceiptOf(g) = g BY DEF Checks, ReceiptOf
  <2> QED BY <1>3, <2>1 DEF ControlNodes, Each
<1>5. CASE e \in OpeningEdges
  BY <1>1, <1>5, ArcFields DEF OpeningEdges, Singles
<1>6. CASE e \in RuleEdges
  <2>1. PICK r \in Rules :
          \/ e = ArcWhen(The("action.intent"), <<"action.rule", r>>, "rule_index", r)
          \/ e = Arc(<<"action.rule", r>>, The("join.action.rule.any"))
          \/ e = ArcWhen(The("policy.decision"), <<"approval.rule", r>>, "approval_required", "true")
          \/ e = Arc(<<"approval.rule", r>>, The("join.action.authority.any"))
    BY <1>6 DEF RuleEdges
  <2>2. {"action.intent", "policy.decision", "join.action.rule.any", "join.action.authority.any"} \subseteq Singles
    BY DEF Singles
  <2> QED BY <1>1, <1>2, <2>1, <2>2, ArcFields
<1>7. CASE e \in SpineEdges
  BY <1>1, <1>7, ArcFields DEF SpineEdges, Singles
<1>8. CASE e \in CheckEdges
  <2>1. \/ \E c \in Checks : \/ e = ArcIf(The("artifact.manifest"), <<"evaluator", c>>, "execution.success")
                              \/ e = Arc(The("snapshot.materialized"), <<"evaluator", c>>)
                              \/ e = Arc(<<"evaluator", c>>, <<"receipt", ReceiptOf(c)>>)
        \/ \E g \in Guards : e = Arc(<<"receipt", g>>, <<"criterion", g>>)
    BY <1>8 DEF CheckEdges
  <2>2. The("artifact.manifest") \in ControlNodes /\ The("snapshot.materialized") \in ControlNodes
    BY <1>1 DEF Singles
  <2>3. CASE \E g \in Guards : e = Arc(<<"receipt", g>>, <<"criterion", g>>)
    BY <1>4, <2>3, ArcFields
  <2>4. ASSUME NEW c \in Checks,
               \/ e = ArcIf(The("artifact.manifest"), <<"evaluator", c>>, "execution.success")
               \/ e = Arc(The("snapshot.materialized"), <<"evaluator", c>>)
               \/ e = Arc(<<"evaluator", c>>, <<"receipt", ReceiptOf(c)>>)
        PROVE  e.source \in ControlNodes /\ e.target \in ControlNodes
    BY <1>3, <2>2, <2>4, ArcFields
  <2> QED BY <2>1, <2>3, <2>4
<1>9. CASE e \in GuardEdges
  <2>1. PICK g \in Guards : e = ArcIf(<<"criterion", g>>, The("join.guards.all"), "guard-pass")
    BY <1>9 DEF GuardEdges
  <2>2. The("join.guards.all") \in ControlNodes
    BY <1>1 DEF Singles
  <2>3. <<"criterion", g>> \in ControlNodes
    BY <1>4
  <2> QED BY <2>1, <2>2, <2>3, ArcFields
<1> QED BY <1>5, <1>6, <1>7, <1>8, <1>9 DEF ControlEdges

(* Into the rule join lead the action rules.                               *)
LEMMA IntoRuleJoin ==
    ASSUME NEW e \in In(The("join.action.rule.any"))
    PROVE  \E r \in Rules : e = Arc(<<"action.rule", r>>, The("join.action.rule.any"))
<1>1. e \in ControlEdges /\ e.target = The("join.action.rule.any")
  BY DEF In
<1>2. e \notin OpeningEdges
  BY <1>1, ArcFields, TheIsInjective DEF OpeningEdges
<1>3. e \notin SpineEdges
  BY <1>1, ArcFields, TheIsInjective DEF SpineEdges
<1>4. e \notin CheckEdges \cup GuardEdges
  <2>1. ASSUME NEW c, NEW d
        PROVE  /\ ArcIf(The("artifact.manifest"), <<"evaluator", c>>, "execution.success") # e
               /\ Arc(The("snapshot.materialized"), <<"evaluator", c>>) # e
               /\ Arc(<<"evaluator", c>>, <<"receipt", d>>) # e
               /\ Arc(<<"receipt", c>>, <<"criterion", c>>) # e
               /\ ArcIf(<<"criterion", c>>, The("join.guards.all"), "guard-pass") # e
    BY <1>1, ArcFields, TheIsInjective
  <2> QED BY <2>1 DEF CheckEdges, GuardEdges
<1>5. e \in RuleEdges
  BY <1>1, <1>2, <1>3, <1>4 DEF ControlEdges
<1>6. ASSUME NEW r \in Rules
      PROVE  /\ ArcWhen(The("action.intent"), <<"action.rule", r>>, "rule_index", r) # e
             /\ ArcWhen(The("policy.decision"), <<"approval.rule", r>>, "approval_required", "true") # e
             /\ Arc(<<"approval.rule", r>>, The("join.action.authority.any")) # e
  BY <1>1, ArcFields, TheIsInjective
<1> QED BY <1>5, <1>6 DEF RuleEdges

(* Into the authority join lead a policy decision that needs no approval,  *)
(* and the approvals.                                                      *)
LEMMA IntoAuthorityJoin ==
    ASSUME NEW e \in In(The("join.action.authority.any"))
    PROVE  \/ e = ArcWhen(The("policy.decision"), The("join.action.authority.any"), "approval_required", "false")
           \/ \E r \in Rules : e = Arc(<<"approval.rule", r>>, The("join.action.authority.any"))
<1>1. e \in ControlEdges /\ e.target = The("join.action.authority.any")
  BY DEF In
<1>2. e \notin OpeningEdges
  BY <1>1, ArcFields, TheIsInjective DEF OpeningEdges
<1>3. e \in SpineEdges =>
         e = ArcWhen(The("policy.decision"), The("join.action.authority.any"), "approval_required", "false")
  BY <1>1, ArcFields, TheIsInjective DEF SpineEdges
<1>4. e \notin CheckEdges \cup GuardEdges
  <2>1. ASSUME NEW c, NEW d
        PROVE  /\ ArcIf(The("artifact.manifest"), <<"evaluator", c>>, "execution.success") # e
               /\ Arc(The("snapshot.materialized"), <<"evaluator", c>>) # e
               /\ Arc(<<"evaluator", c>>, <<"receipt", d>>) # e
               /\ Arc(<<"receipt", c>>, <<"criterion", c>>) # e
               /\ ArcIf(<<"criterion", c>>, The("join.guards.all"), "guard-pass") # e
    BY <1>1, ArcFields, TheIsInjective
  <2> QED BY <2>1 DEF CheckEdges, GuardEdges
<1>5. ASSUME NEW r \in Rules
      PROVE  /\ ArcWhen(The("action.intent"), <<"action.rule", r>>, "rule_index", r) # e
             /\ Arc(<<"action.rule", r>>, The("join.action.rule.any")) # e
             /\ ArcWhen(The("policy.decision"), <<"approval.rule", r>>, "approval_required", "true") # e
  BY <1>1, ArcFields, TheIsInjective
<1>6. e \in RuleEdges => \E r \in Rules : e = Arc(<<"approval.rule", r>>, The("join.action.authority.any"))
  BY <1>5 DEF RuleEdges
<1> QED BY <1>1, <1>2, <1>3, <1>4, <1>6 DEF ControlEdges

(* What the monitor's `enabled` finds supported has its basis.             *)
LEMMA SupportedHasBasis ==
    ASSUME NEW i \in Instances, NEW n \in ControlNodes, NEW p,
           Law!Supported(n, Law!Occurred(i), left[i], p)
    PROVE  Basis(i, n)
<1>1. ASSUME NEW e, e.source \in Law!Occurred(i), Law!ConditionMatches(e, left[i], p)
      PROVE  Met(i, e)
  BY <1>1 DEF Met, Happened, Law!Occurred, Law!ConditionMatches, Law!SourceFacts
<1>2. Law!Incoming(n) = In(n)
  BY DEF Law!Incoming, In
<1>3. CASE n \notin JoinNodes
  <2>1. n \notin DOMAIN ControlJoins /\ n \notin AnyJoins
    BY <1>3 DEF ControlJoins, AnyJoins, JoinNodes
  <2> QED BY <1>1, <1>2, <2>1 DEF Law!Supported, Basis
<1>4. CASE n \in AnyJoins
  <2> DEFINE T == Law!Traversable(n, Law!Occurred(i), left[i], p)
             P == ControlJoins[n].predecessors
  <2>1. n \in DOMAIN ControlJoins /\ ControlJoins[n].policy = "any"
    <3>1. n \in JoinNodes /\ n # The("join.guards.all")
      BY <1>4, TheIsInjective DEF AnyJoins, JoinNodes
    <3>2. n[1] # "join.guards.all"
      BY <1>4, TheIsInjective DEF AnyJoins
    <3> QED BY <3>1, <3>2 DEF ControlJoins
  <2>2. Law!SatisfiedBy(ControlJoins[n], T)
    BY <2>1 DEF Law!Supported
  <2>3. Cardinality(P \cap T) >= 1
    BY <2>1, <2>2, SameCardinality DEF Law!SatisfiedBy
  <2>4. T # {} BY <2>3, NoneCounted
  <2> QED BY <1>1, <1>2, <1>4, <2>4 DEF Law!Traversable, Basis
<1>5. CASE n = The("join.guards.all")
  <2> DEFINE T == Law!Traversable(n, Law!Occurred(i), left[i], p)
             P == Each("criterion", Guards)
  <2>1. /\ n \in DOMAIN ControlJoins /\ ControlJoins[n].policy = "all"
        /\ ControlJoins[n].predecessors = P
        /\ n \notin AnyJoins
    BY <1>5 DEF ControlJoins, AnyJoins, JoinNodes, The
  <2>2. Law!SatisfiedBy(ControlJoins[n], T)
    BY <2>1 DEF Law!Supported
  <2>3. Cardinality(P \cap T) = Cardinality(P)
    BY <2>1, <2>2, SameCardinality DEF Law!SatisfiedBy
  <2>4. P \subseteq T BY <2>3, AllCounted, GuardsFinite
  <2>5. ASSUME NEW e \in In(n) PROVE Met(i, e)
    <3>1. PICK g \in Guards : e = ArcIf(<<"criterion", g>>, n, "guard-pass")
      BY <1>5, IntoGuardJoin
    <3>2. PICK d \in In(n) : d.source = <<"criterion", g>> /\ Met(i, d)
      BY <1>1, <1>2, <2>4 DEF Law!Traversable, Each
    <3>3. d = e
      <4>1. PICK h \in Guards : d = ArcIf(<<"criterion", h>>, n, "guard-pass")
        BY <1>5, IntoGuardJoin
      <4> QED BY <3>1, <3>2, <4>1, ArcFields
    <3> QED BY <3>2, <3>3
  <2> QED BY <2>1, <2>5 DEF Basis
<1> QED BY <1>3, <1>4, <1>5 DEF JoinNodes, AnyJoins

-------------------------------------------------------------------------------
(* Every node that occurred has its basis, in every reachable state.       *)
LEMMA ShapeHolds == Spec => []Shape
<1>1. Law!Init => Shape
  BY DEF Law!Init, Shape
<1>2. Shape /\ [Law!Next]_left => Shape'
  BY OutcomeAssumption DEF Shape, Law!Next, Law!Occur, Law!Payload
<1> QED BY <1>1, <1>2, PTL DEF Spec, Law!Spec

LEMMA RootedHolds == Spec => []Rooted
<1>1. Law!Init => Rooted
  BY DEF Law!Init, Rooted, Happened
<1>2. Shape /\ Rooted /\ [Law!Next]_left => Rooted'
  <2> SUFFICES ASSUME Shape, Rooted, Law!Next PROVE Rooted'
    BY DEF Rooted, Basis, Met, Happened
  <2>1. PICK i \in Instances, n \in ControlNodes : \E p \in Outcomes[n] : Law!Occur(i, n, p)
    BY DEF Law!Next
  <2>2. PICK p \in Outcomes[n] : Law!Occur(i, n, p)
    BY <2>1
  <2>3. left' = [left EXCEPT ![i][n] = p] /\ ~Happened(i, n) /\ p # Law!NoFacts
    BY <2>2, OutcomeAssumption, NoFactsIsNoPayload DEF Law!Occur, Law!Occurred, Happened, Law!Payload
  <2>4. ASSUME NEW j \in Instances, NEW m, Happened(j, m), m \in ControlNodes
        PROVE  Happened(j, m)' /\ left'[j][m] = left[j][m]
    BY <2>3, <2>4 DEF Happened, Shape
  <2>5. ASSUME NEW e \in ControlEdges PROVE e.source \in ControlNodes
    BY EdgesJoinNodes
  <2>6. ASSUME NEW j \in Instances, NEW m, Basis(j, m)
        PROVE  Basis(j, m)'
    <3>1. ASSUME NEW e \in ControlEdges, Met(j, e) PROVE Met(j, e)'
      BY <2>4, <2>5, <3>1 DEF Met, Law!ConditionHolds, Law!PredicateHolds
    <3> QED BY <2>6, <3>1 DEF Basis, In
  <2>7. Basis(i, n)
    BY <2>2, SupportedHasBasis DEF Law!Occur
  <2>8. ASSUME NEW j \in Instances, NEW m \in ControlNodes, Happened(j, m)'
        PROVE  Happened(j, m) \/ (j = i /\ m = n)
    BY <2>3, <2>8 DEF Happened, Shape
  <2> QED BY <2>6, <2>7, <2>8 DEF Rooted
<1> QED BY <1>1, <1>2, ShapeHolds, PTL DEF Spec, Law!Spec

-------------------------------------------------------------------------------
(* Walking an edge backwards: what its occurred target says of its source. *)
LEMMA Back ==
    ASSUME Rooted, NEW i \in Instances, NEW e \in ControlEdges,
           e.target \notin AnyJoins, Happened(i, e.target)
    PROVE  Met(i, e)
BY EdgesJoinNodes DEF Rooted, Basis, In

LEMMA BackArc ==
    ASSUME Rooted, NEW i \in Instances, NEW s, NEW t, Arc(s, t) \in ControlEdges,
           t \notin AnyJoins, Happened(i, t)
    PROVE  Happened(i, s)
BY Back, ArcFields DEF Met

LEMMA BackIf ==
    ASSUME Rooted, NEW i \in Instances, NEW s, NEW t, NEW c, ArcIf(s, t, c) \in ControlEdges,
           t \notin AnyJoins, Happened(i, t)
    PROVE  /\ Happened(i, s)
           /\ c = "execution.success" => left[i][s]["success"] = "True"
           /\ c = "outcome-unknown-or-failed" => left[i][s]["success"] \in {"False", "indeterminate"}
           /\ c = "guard-pass" => left[i][s]["passed"] = "True"
<1> DEFINE e == ArcIf(s, t, c)
<1>1. e.source = s /\ e.target = t /\ e.condition = c
  BY ArcFields
<1>2. Met(i, e)
  BY <1>1, Back
<1>3. Happened(i, s) /\ Law!ConditionHolds(e, left[i][s])
  BY <1>1, <1>2 DEF Met
<1> HIDE DEF e
<1> QED BY <1>1, <1>3 DEF Law!ConditionHolds

LEMMA MetWhen ==
    ASSUME NEW i, NEW s, NEW t, NEW f, NEW v, Met(i, ArcWhen(s, t, f, v))
    PROVE  Happened(i, s) /\ left[i][s][f] = v
BY ArcFields DEF Met, Law!PredicateHolds

(* The nodes walked back over are no any-joins.                            *)
LEMMA NotAnyJoin ==
    /\ \A t \in Singles \ {"join.action.rule.any", "join.action.authority.any"} : The(t) \notin AnyJoins
    /\ \A t \in {"action.rule", "approval.rule", "evaluator", "receipt", "criterion"} : \A x : <<t, x>> \notin AnyJoins
BY TheIsInjective DEF AnyJoins

(* A policy decision stands on a rule, and the rule on an intent that      *)
(* names it.                                                               *)
LEMMA DecisionNeedsRule ==
    ASSUME Rooted, NEW i \in Instances, Happened(i, The("policy.decision"))
    PROVE  \E r \in Rules : /\ Happened(i, <<"action.rule", r>>)
                            /\ left[i][The("action.intent")]["rule_index"] = r
<1> DEFINE j == The("join.action.rule.any")
<1>1. Arc(j, The("policy.decision")) \in ControlEdges
  BY DEF ControlEdges, SpineEdges
<1>2. The("policy.decision") \notin AnyJoins
  BY NotAnyJoin DEF Singles
<1>3. Happened(i, j)
  BY <1>1, <1>2, BackArc
<1>4. j \in AnyJoins /\ j \in ControlNodes
  BY DEF AnyJoins, ControlNodes, Singles
<1>5. PICK e \in In(j) : Met(i, e)
  BY <1>3, <1>4 DEF Rooted, Basis
<1>6. PICK r \in Rules : e = Arc(<<"action.rule", r>>, j)
  BY IntoRuleJoin
<1>7. Happened(i, <<"action.rule", r>>)
  BY <1>5, <1>6, ArcFields DEF Met
<1> DEFINE d == ArcWhen(The("action.intent"), <<"action.rule", r>>, "rule_index", r)
<1>8. d \in ControlEdges /\ d.target = <<"action.rule", r>>
  BY ArcFields DEF ControlEdges, RuleEdges
<1>9. Met(i, d)
  BY <1>7, <1>8, Back, NotAnyJoin
<1> QED BY <1>7, <1>9, MetWhen

(* The authority join stands on a policy decision that needs no approval,  *)
(* or on an approval, and an approval on a decision that asked for one.    *)
LEMMA ApprovalNeedsDecision ==
    ASSUME Rooted, NEW i \in Instances, NEW r \in Rules, Happened(i, <<"approval.rule", r>>)
    PROVE  /\ Happened(i, The("policy.decision"))
           /\ left[i][The("policy.decision")]["approval_required"] = "true"
<1> DEFINE d == ArcWhen(The("policy.decision"), <<"approval.rule", r>>, "approval_required", "true")
<1>1. d \in ControlEdges /\ d.target = <<"approval.rule", r>>
  BY ArcFields DEF ControlEdges, RuleEdges
<1>2. Met(i, d)
  BY <1>1, Back, NotAnyJoin
<1> QED BY <1>2, MetWhen

LEMMA CapabilityNeedsDecision ==
    ASSUME Rooted, NEW i \in Instances, Happened(i, The("capability.execute"))
    PROVE  /\ Happened(i, The("policy.decision"))
           /\ \/ left[i][The("policy.decision")]["approval_required"] = "false"
              \/ \E r \in Rules : Happened(i, <<"approval.rule", r>>)
<1> DEFINE j == The("join.action.authority.any")
<1>1. Arc(j, The("capability.execute")) \in ControlEdges
  BY DEF ControlEdges, SpineEdges
<1>2. The("capability.execute") \notin AnyJoins
  BY NotAnyJoin DEF Singles
<1>3. Happened(i, j)
  BY <1>1, <1>2, BackArc
<1>4. j \in AnyJoins /\ j \in ControlNodes
  BY DEF AnyJoins, ControlNodes, Singles
<1>5. PICK e \in In(j) : Met(i, e)
  BY <1>3, <1>4 DEF Rooted, Basis
<1>6. CASE e = ArcWhen(The("policy.decision"), j, "approval_required", "false")
  BY <1>5, <1>6, MetWhen
<1>7. ASSUME NEW r \in Rules, e = Arc(<<"approval.rule", r>>, j)
      PROVE  Happened(i, The("policy.decision")) /\ Happened(i, <<"approval.rule", r>>)
  <2>1. Happened(i, <<"approval.rule", r>>)
    BY <1>5, <1>7, ArcFields DEF Met
  <2> QED BY <2>1, ApprovalNeedsDecision
<1> QED BY <1>6, <1>7, IntoAuthorityJoin

-------------------------------------------------------------------------------
(* No effect is dispatched in an iteration without that iteration's        *)
(* capability, its policy decision, an intent and the rule it names.       *)
THEOREM Authority == Spec => []EffectNeedsAuthority
<1>1. Rooted => EffectNeedsAuthority
  <2> SUFFICES ASSUME Rooted, NEW i \in Instances, Happened(i, The("executor.dispatch"))
               PROVE  /\ Happened(i, The("capability.execute"))
                      /\ Happened(i, The("principal.contract"))
                      /\ Happened(i, The("policy.decision"))
                      /\ \E r \in Rules : /\ Happened(i, <<"action.rule", r>>)
                                          /\ left[i][The("action.intent")]["rule_index"] = r
    BY DEF EffectNeedsAuthority
  <2>1. /\ Arc(The("operation.prepared"), The("executor.dispatch")) \in ControlEdges
        /\ Arc(The("capability.execute"), The("operation.prepared")) \in ControlEdges
        /\ Arc(The("principal.contract"), The("capability.execute")) \in ControlEdges
    BY DEF ControlEdges, SpineEdges
  <2>2. /\ The("executor.dispatch") \notin AnyJoins /\ The("operation.prepared") \notin AnyJoins
        /\ The("capability.execute") \notin AnyJoins
    BY NotAnyJoin DEF Singles
  <2>3. Happened(i, The("operation.prepared")) BY <2>1, <2>2, BackArc
  <2>4. Happened(i, The("capability.execute")) BY <2>1, <2>2, <2>3, BackArc
  <2>5. Happened(i, The("principal.contract")) BY <2>1, <2>2, <2>4, BackArc
  <2>6. Happened(i, The("policy.decision")) BY <2>4, CapabilityNeedsDecision
  <2> QED BY <2>4, <2>5, <2>6, DecisionNeedsRule
<1> QED BY <1>1, RootedHolds, PTL

(* If the policy decision asks for approval, the capability rests on an    *)
(* approval node; if it does not, no approval node ever occurs.            *)
THEOREM Approval == Spec => []CapabilityNeedsApproval
<1>1. Rooted => CapabilityNeedsApproval
  BY CapabilityNeedsDecision, ApprovalNeedsDecision DEF CapabilityNeedsApproval
<1> QED BY <1>1, RootedHolds, PTL

(* What acceptance stands on, guard by guard.                              *)
LEMMA AcceptStandsOn ==
    ASSUME Rooted, NEW i \in Instances, Happened(i, The("decision.accept")), NEW g \in Guards
    PROVE  /\ left[i][<<"criterion", g>>]["passed"] = "True"
           /\ Happened(i, <<"receipt", g>>)
           /\ Happened(i, <<"evaluator", g>>)
           /\ Happened(i, The("snapshot.materialized"))
           /\ left[i][The("artifact.manifest")]["success"] = "True"
           /\ left[i][The("executor.result")]["success"] = "True"
<1>1. /\ Arc(The("join.guards.all"), The("decision.accept")) \in ControlEdges
      /\ ArcIf(The("executor.result"), The("artifact.manifest"), "execution.success") \in ControlEdges
  BY DEF ControlEdges, SpineEdges
<1>2. ArcIf(<<"criterion", g>>, The("join.guards.all"), "guard-pass") \in ControlEdges
  BY DEF ControlEdges, GuardEdges
<1>3. g \in Checks /\ ReceiptOf(g) = g
  BY DEF Checks, ReceiptOf
<1>4. /\ ArcIf(The("artifact.manifest"), <<"evaluator", g>>, "execution.success") \in ControlEdges
      /\ Arc(The("snapshot.materialized"), <<"evaluator", g>>) \in ControlEdges
      /\ Arc(<<"evaluator", g>>, <<"receipt", g>>) \in ControlEdges
      /\ Arc(<<"receipt", g>>, <<"criterion", g>>) \in ControlEdges
  BY <1>3 DEF ControlEdges, CheckEdges
<1>5. /\ The("decision.accept") \notin AnyJoins /\ The("join.guards.all") \notin AnyJoins
      /\ The("artifact.manifest") \notin AnyJoins
      /\ <<"criterion", g>> \notin AnyJoins /\ <<"receipt", g>> \notin AnyJoins
      /\ <<"evaluator", g>> \notin AnyJoins
  BY NotAnyJoin DEF Singles
<1>6. Happened(i, The("join.guards.all")) BY <1>1, <1>5, BackArc
<1>7. Happened(i, <<"criterion", g>>) /\ left[i][<<"criterion", g>>]["passed"] = "True"
  BY <1>2, <1>5, <1>6, BackIf
<1>8. Happened(i, <<"receipt", g>>) BY <1>4, <1>5, <1>7, BackArc
<1>9. Happened(i, <<"evaluator", g>>) BY <1>4, <1>5, <1>8, BackArc
<1>10. Happened(i, The("snapshot.materialized")) BY <1>4, <1>5, <1>9, BackArc
<1>11. Happened(i, The("artifact.manifest")) /\ left[i][The("artifact.manifest")]["success"] = "True"
  BY <1>4, <1>5, <1>9, BackIf
<1>12. left[i][The("executor.result")]["success"] = "True"
  BY <1>1, <1>5, <1>11, BackIf
<1> QED BY <1>7, <1>8, <1>9, <1>10, <1>11, <1>12

(* Acceptance needs every guard of the contract to have passed, each on a  *)
(* receipt and an evaluation of the artifact that a successful execution   *)
(* of the same iteration produced.                                         *)
THEOREM Acceptance == Spec => []AcceptNeedsEveryGuard
<1>1. Rooted => AcceptNeedsEveryGuard
  <2>1. PICK g \in Guards : TRUE BY ContractAssumption
  <2> QED BY <2>1, AcceptStandsOn DEF AcceptNeedsEveryGuard
<1> QED BY <1>1, RootedHolds, PTL

(* One iteration either accepts or reconciles, never both: the two rest on *)
(* opposite outcomes of the one execution.                                 *)
THEOREM Exclusion == Spec => []AcceptExcludesReconcile
<1>1. Rooted => AcceptExcludesReconcile
  <2> SUFFICES ASSUME Rooted, NEW i \in Instances, Happened(i, The("decision.accept")),
                      Happened(i, The("operation.reconcile"))
               PROVE  FALSE
    BY DEF AcceptExcludesReconcile
  <2>1. PICK g \in Guards : TRUE BY ContractAssumption
  <2>2. left[i][The("executor.result")]["success"] = "True"
    BY <2>1, AcceptStandsOn
  <2>3. ArcIf(The("executor.result"), The("operation.reconcile"), "outcome-unknown-or-failed") \in ControlEdges
    BY DEF ControlEdges, SpineEdges
  <2>4. The("operation.reconcile") \notin AnyJoins
    BY NotAnyJoin DEF Singles
  <2>5. left[i][The("executor.result")]["success"] \in {"False", "indeterminate"}
    BY <2>3, <2>4, BackIf
  <2> QED BY <2>2, <2>5
<1> QED BY <1>1, RootedHolds, PTL

-------------------------------------------------------------------------------
(* What runs until nothing more comes of it: whatever order the rounds     *)
(* take, they end in the least set that is closed under `next`.            *)
Runs(N, next, f) == f = [T \in SUBSET N |-> IF next[T] \subseteq T THEN T ELSE f[T \cup next[T]]]

Closed(N, next, U) == U \in SUBSET N /\ next[U] \subseteq U

Least(N, next, T) == {x \in N : \A U : Closed(N, next, U) /\ T \subseteq U => x \in U}

LEMMA LeastIsClosed ==
    ASSUME NEW N, NEW next \in [SUBSET N -> SUBSET N],
           \A T, U \in SUBSET N : T \subseteq U => next[T] \subseteq next[U],
           NEW T \in SUBSET N
    PROVE  /\ T \subseteq Least(N, next, T) /\ Closed(N, next, Least(N, next, T))
           /\ \A U : Closed(N, next, U) /\ T \subseteq U => Least(N, next, T) \subseteq U
<1> DEFINE L == Least(N, next, T)
<1>1. T \subseteq L /\ L \subseteq N BY DEF Least
<1>2. \A U : Closed(N, next, U) /\ T \subseteq U => L \subseteq U BY DEF Least
<1>3. ASSUME NEW x \in next[L] PROVE x \in L
  <2>1. x \in N BY <1>1
  <2>2. ASSUME NEW U, Closed(N, next, U), T \subseteq U PROVE x \in U
    <3>1. L \subseteq U BY <1>2, <2>2
    <3>2. next[L] \subseteq next[U] BY <1>1, <2>2, <3>1 DEF Closed
    <3> QED BY <1>3, <2>2, <3>2 DEF Closed
  <2> QED BY <2>1, <2>2 DEF Least
<1> QED BY <1>1, <1>2, <1>3 DEF Closed

(* The least closed set is a fixed point of the recursion...               *)
LEMMA LeastRuns ==
    ASSUME NEW N, NEW next \in [SUBSET N -> SUBSET N],
           \A T, U \in SUBSET N : T \subseteq U => next[T] \subseteq next[U]
    PROVE  Runs(N, next, [T \in SUBSET N |-> Least(N, next, T)])
<1> DEFINE f == [T \in SUBSET N |-> Least(N, next, T)]
<1>1. ASSUME NEW T \in SUBSET N
      PROVE  Least(N, next, T) = IF next[T] \subseteq T THEN T ELSE f[T \cup next[T]]
  <2>1. CASE next[T] \subseteq T
    <3>1. Closed(N, next, T) BY <2>1 DEF Closed
    <3>2. T \subseteq Least(N, next, T) /\ Least(N, next, T) \subseteq T BY <3>1, LeastIsClosed
    <3> QED BY <2>1, <3>2
  <2>2. CASE ~(next[T] \subseteq T)
    <3> DEFINE V == T \cup next[T]
    <3>1. V \in SUBSET N OBVIOUS
    <3>2. ASSUME NEW U, Closed(N, next, U) PROVE T \subseteq U <=> V \subseteq U
      <4>1. T \subseteq U => next[T] \subseteq next[U] BY <3>2 DEF Closed
      <4> QED BY <3>2, <4>1 DEF Closed
    <3>3. Least(N, next, T) = Least(N, next, V) BY <3>2 DEF Least
    <3> QED BY <2>2, <3>1, <3>3
  <2> QED BY <2>1, <2>2
<1>2. f = [T \in SUBSET N |-> IF next[T] \subseteq T THEN T ELSE f[T \cup next[T]]]
  BY <1>1
<1> QED BY <1>2 DEF Runs

(* ...and, the nodes being finite, the only one: a set where two solutions *)
(* differed would lead to a larger one where they differ too.              *)
LEMMA RunsToLeast ==
    ASSUME NEW N, IsFiniteSet(N), NEW next \in [SUBSET N -> SUBSET N],
           \A T, U \in SUBSET N : T \subseteq U => next[T] \subseteq next[U],
           NEW f, Runs(N, next, f), NEW T \in SUBSET N
    PROVE  f[T] = Least(N, next, T)
<1> DEFINE g == [S \in SUBSET N |-> Least(N, next, S)]
           Left == {N \ S : S \in {X \in SUBSET N : f[X] # g[X]}}
<1>1. Runs(N, next, g) BY LeastRuns
<1>2. ASSUME NEW S \in SUBSET N
      PROVE  /\ f[S] = IF next[S] \subseteq S THEN S ELSE f[S \cup next[S]]
             /\ g[S] = IF next[S] \subseteq S THEN S ELSE g[S \cup next[S]]
  <2>1. f = [X \in SUBSET N |-> IF next[X] \subseteq X THEN X ELSE f[X \cup next[X]]] BY DEF Runs
  <2> HIDE DEF g
  <2>2. g = [X \in SUBSET N |-> IF next[X] \subseteq X THEN X ELSE g[X \cup next[X]]] BY <1>1 DEF Runs
  <2> QED BY <2>1, <2>2
<1>3. ASSUME Left # {} PROVE FALSE
  <2>1. IsWellFoundedOn(StrictSubsetOrdering(N), SUBSET N)
    BY FS_StrictSubsetOrderingWellFounded, FS_FiniteSubsetsOfFinite
  <2>2. Left \subseteq SUBSET N OBVIOUS
  <2>3. PICK D \in Left : \A C \in Left : <<C, D>> \notin StrictSubsetOrdering(N)
    <3> HIDE DEF Left
    <3> QED BY <1>3, <2>1, <2>2, WFMin
  <2>4. PICK S \in SUBSET N : D = N \ S /\ f[S] # g[S] BY <2>3
  <2> DEFINE V == S \cup next[S]
  <2>5. V \in SUBSET N /\ ~(next[S] \subseteq S) /\ f[V] # g[V]
    <3> HIDE DEF g
    <3> QED BY <1>2, <2>4
  <2>6. N \ V \in Left BY <2>5
  <2>7. N \ V \subseteq D /\ N \ V # D BY <2>4, <2>5
  <2>8. <<N \ V, D>> \in StrictSubsetOrdering(N) BY <2>2, <2>3, <2>6, <2>7 DEF StrictSubsetOrdering
  <2> QED BY <2>3, <2>6, <2>8
<1>4. ASSUME f[T] # g[T] PROVE FALSE
  <2>1. N \ T \in Left BY <1>4
  <2> QED BY <1>3, <2>1
<1> QED BY <1>4

(* What the walks over edges find: all that is led to, and no more.        *)
LEMMA SpreadIsLeast ==
    ASSUME NEW N, IsFiniteSet(N), NEW S \in SUBSET N, NEW barred,
           NEW E, \A e \in E : e.target \in N
    PROVE  /\ S \subseteq Spread(S, E, barred) /\ Spread(S, E, barred) \subseteq N
           /\ \A e \in E : e.source \in Spread(S, E, barred) /\ e.target \notin barred
                  => e.target \in Spread(S, E, barred)
           /\ \A U \in SUBSET N : S \subseteq U /\ Targets(U, E, barred) \subseteq U
                                   => Spread(S, E, barred) \subseteq U
<1> DEFINE M == S \cup {e.target : e \in E}
           next == [T \in SUBSET M |-> Targets(T, E, barred)]
           L == Least(M, next, S)
           f == CHOOSE f : Runs(M, next, f)
<1>1. M \subseteq N /\ IsFiniteSet(M) /\ S \in SUBSET M BY FS_Subset
<1>2. \A T : Targets(T, E, barred) \in SUBSET M BY DEF Targets
<1>3. next \in [SUBSET M -> SUBSET M] /\ \A T \in SUBSET M : next[T] = Targets(T, E, barred) BY <1>2
<1>4. \A T, U \in SUBSET M : T \subseteq U => next[T] \subseteq next[U]
  <2>1. \A T, U : T \subseteq U => Targets(T, E, barred) \subseteq Targets(U, E, barred) BY DEF Targets
  <2> QED BY <1>3, <2>1
<1>5. \A h : Runs(M, next, h) <=>
             h = [T \in SUBSET M |-> IF Targets(T, E, barred) \subseteq T THEN T
                                     ELSE h[T \cup Targets(T, E, barred)]]
  <2> HIDE DEF next, M
  <2>1. ASSUME NEW h
        PROVE  [T \in SUBSET M |-> IF next[T] \subseteq T THEN T ELSE h[T \cup next[T]]]
               = [T \in SUBSET M |-> IF Targets(T, E, barred) \subseteq T THEN T
                                     ELSE h[T \cup Targets(T, E, barred)]]
    BY <1>3
  <2> QED BY <2>1 DEF Runs
<1>6. Runs(M, next, f)
  <2> HIDE DEF next, M
  <2> QED BY <1>3, <1>4, LeastRuns
<1>7. Spread(S, E, barred) = f[S]
  <2>1. f = CHOOSE h : h = [T \in SUBSET M |-> IF Targets(T, E, barred) \subseteq T THEN T
                                               ELSE h[T \cup Targets(T, E, barred)]]
    <3> HIDE DEF next, M
    <3> QED BY <1>5
  <2> HIDE DEF f, next
  <2> QED BY <2>1 DEF Spread
<1>8. Spread(S, E, barred) = L
  <2> HIDE DEF next, M, f
  <2> QED BY <1>1, <1>3, <1>4, <1>6, <1>7, RunsToLeast
<1>9. /\ S \subseteq L /\ Closed(M, next, L)
      /\ \A U : Closed(M, next, U) /\ S \subseteq U => L \subseteq U
  <2> HIDE DEF next, M
  <2> QED BY <1>1, <1>3, <1>4, LeastIsClosed
<1>10. L \subseteq M /\ Targets(L, E, barred) \subseteq L
  <2> HIDE DEF next, M, L
  <2> QED BY <1>3, <1>9 DEF Closed
<1>11. ASSUME NEW U \in SUBSET N, S \subseteq U, Targets(U, E, barred) \subseteq U
       PROVE  L \subseteq U
  <2>1. U \cap M \in SUBSET M /\ S \subseteq U \cap M BY <1>11
  <2>2. Targets(U \cap M, E, barred) \subseteq U \cap M BY <1>11 DEF Targets
  <2>3. Closed(M, next, U \cap M)
    <3> HIDE DEF next, M
    <3> QED BY <1>3, <2>1, <2>2 DEF Closed
  <2> HIDE DEF L, next, M
  <2> QED BY <1>9, <2>1, <2>3
<1>12. \A e \in E : e.source \in L /\ e.target \notin barred => e.target \in L
  <2> HIDE DEF L
  <2> QED BY <1>10 DEF Targets
<1> HIDE DEF L, M
<1> QED BY <1>1, <1>8, <1>9, <1>10, <1>11, <1>12

(* A set that no edge leaves holds all that is led to from it.             *)
LEMMA SpreadStays ==
    ASSUME NEW N, IsFiniteSet(N), NEW S \in SUBSET N, NEW barred,
           NEW E, \A e \in E : e.target \in N,
           NEW U, S \subseteq U,
           \A e \in E : e.source \in U /\ e.target \notin barred => e.target \in U
    PROVE  Spread(S, E, barred) \subseteq U
<1>1. U \cap N \in SUBSET N /\ S \subseteq U \cap N /\ Targets(U \cap N, E, barred) \subseteq U \cap N
  BY DEF Targets
<1>2. Spread(S, E, barred) \subseteq U \cap N BY <1>1, SpreadIsLeast
<1> QED BY <1>2

(* A join once satisfied stays so.                                         *)
LEMMA JoinsAreMonotone ==
    ASSUME NEW j, IsFiniteSet(j.predecessors), j.threshold \in Nat, NEW A, NEW B, A \subseteq B,
           Law!SatisfiedBy(j, A)
    PROVE  Law!SatisfiedBy(j, B)
<1> DEFINE P == j.predecessors
<1>1. /\ IsFiniteSet(P \cap A) /\ IsFiniteSet(P \cap B)
      /\ Cardinality(P) \in Nat /\ Cardinality(P \cap A) \in Nat /\ Cardinality(P \cap B) \in Nat
  BY FS_Intersection, FS_CardinalityType
<1>2. Cardinality(P \cap A) <= Cardinality(P \cap B) BY <1>1, FS_Subset, P \cap A \in SUBSET (P \cap B)
<1>3. Cardinality(P \cap B) <= Cardinality(P) BY FS_Subset, P \cap B \in SUBSET P
<1>4. /\ Law!Cardinality(P \cap A) = Cardinality(P \cap A) /\ Law!Cardinality(P \cap B) = Cardinality(P \cap B)
      /\ Law!Cardinality(P) = Cardinality(P)
  BY SameCardinality
<1>5. CASE j.policy = "all" BY <1>1, <1>2, <1>3, <1>4, <1>5 DEF Law!SatisfiedBy
<1>6. CASE j.policy = "any" BY <1>1, <1>2, <1>4, <1>6 DEF Law!SatisfiedBy
<1>7. CASE j.policy \notin {"all", "any"} BY <1>1, <1>2, <1>4, <1>7 DEF Law!SatisfiedBy
<1> QED BY <1>5, <1>6, <1>7

(* A manifest of finitely many nodes, whose joins look at finitely many.   *)
Finite(m) ==
    /\ IsFiniteSet(DOMAIN m.nodes)
    /\ \A j \in DOMAIN m.joins : IsFiniteSet(m.joins[j].predecessors) /\ m.joins[j].threshold \in Nat

(* What may occur without the barred nodes is what is enabled by what may  *)
(* occur, and no other set holds less and still enables nothing more.      *)
LEMMA MayOccurIsLeast ==
    ASSUME NEW m, Finite(m), NEW barred
    PROVE  /\ MayOccur(m, barred) \in SUBSET (DOMAIN m.nodes \ barred)
           /\ MayOccur(m, barred) = Enabled(m, MayOccur(m, barred), barred)
           /\ \A U \in SUBSET DOMAIN m.nodes :
                 Enabled(m, U, barred) \subseteq U => MayOccur(m, barred) \subseteq U
<1> DEFINE N == DOMAIN m.nodes
           next == [T \in SUBSET N |-> Enabled(m, T, barred)]
           L == Least(N, next, {})
           f == CHOOSE f : Runs(N, next, f)
<1>1. \A T : Enabled(m, T, barred) \in SUBSET (N \ barred) BY DEF Enabled
<1>2. next \in [SUBSET N -> SUBSET N] /\ \A T \in SUBSET N : next[T] = Enabled(m, T, barred) BY <1>1
<1>3. ASSUME NEW T, NEW U, T \subseteq U PROVE Enabled(m, T, barred) \subseteq Enabled(m, U, barred)
  <2> SUFFICES ASSUME NEW n \in Enabled(m, T, barred) PROVE n \in Enabled(m, U, barred)
    OBVIOUS
  <2>1. n \in N \ barred BY DEF Enabled
  <2>2. CASE n \in DOMAIN m.joins
    <3>1. Law!SatisfiedBy(m.joins[n], Before(m, n) \cap T) BY <2>2 DEF Enabled
    <3>2. Before(m, n) \cap T \subseteq Before(m, n) \cap U BY <1>3
    <3>3. Law!SatisfiedBy(m.joins[n], Before(m, n) \cap U) BY <2>2, <3>1, <3>2, JoinsAreMonotone DEF Finite
    <3> QED BY <2>1, <2>2, <3>3 DEF Enabled
  <2>3. CASE n \notin DOMAIN m.joins BY <1>3, <2>1, <2>3 DEF Enabled
  <2> QED BY <2>2, <2>3
<1>4. \A T, U \in SUBSET N : T \subseteq U => next[T] \subseteq next[U]
  <2> HIDE DEF next
  <2> QED BY <1>2, <1>3
<1>5. \A h : Runs(N, next, h) <=>
             h = [T \in SUBSET N |-> IF Enabled(m, T, barred) \subseteq T THEN T
                                     ELSE h[T \cup Enabled(m, T, barred)]]
  <2> HIDE DEF next, N
  <2>1. ASSUME NEW h
        PROVE  [T \in SUBSET N |-> IF next[T] \subseteq T THEN T ELSE h[T \cup next[T]]]
               = [T \in SUBSET N |-> IF Enabled(m, T, barred) \subseteq T THEN T
                                     ELSE h[T \cup Enabled(m, T, barred)]]
    BY <1>2
  <2> QED BY <2>1 DEF Runs
<1>6. Runs(N, next, f)
  <2> HIDE DEF next, N
  <2> QED BY <1>2, <1>4, LeastRuns
<1>7. MayOccur(m, barred) = f[{}]
  <2>1. f = CHOOSE h : h = [T \in SUBSET N |-> IF Enabled(m, T, barred) \subseteq T THEN T
                                               ELSE h[T \cup Enabled(m, T, barred)]]
    <3> HIDE DEF next, N
    <3> QED BY <1>5
  <2> HIDE DEF f, next
  <2> QED BY <2>1 DEF MayOccur
<1>8. MayOccur(m, barred) = L
  <2> HIDE DEF next, f
  <2> QED BY <1>2, <1>4, <1>6, <1>7, RunsToLeast DEF Finite
<1>9. Closed(N, next, L) /\ \A U : Closed(N, next, U) => L \subseteq U
  <2> HIDE DEF next, N
  <2> QED BY <1>2, <1>4, LeastIsClosed
<1> DEFINE H == Enabled(m, L, barred)
<1>10. L \in SUBSET N /\ H \subseteq L
  <2> HIDE DEF next, N, L
  <2> QED BY <1>2, <1>9 DEF Closed
<1>11. H \in SUBSET N /\ Enabled(m, H, barred) \subseteq H
  <2> HIDE DEF next, L
  <2> QED BY <1>1, <1>3, <1>10
<1>12. L \subseteq H
  <2>1. Closed(N, next, H)
    <3> HIDE DEF next, N, L, H
    <3> QED BY <1>2, <1>11 DEF Closed
  <2> HIDE DEF next, N, L, H
  <2> QED BY <1>9, <2>1
<1>13. ASSUME NEW U \in SUBSET N, Enabled(m, U, barred) \subseteq U PROVE L \subseteq U
  <2>1. Closed(N, next, U)
    <3> HIDE DEF next, N, L
    <3> QED BY <1>2, <1>13 DEF Closed
  <2> HIDE DEF next, N, L
  <2> QED BY <1>9, <2>1
<1>14. L = H BY <1>10, <1>12
<1> HIDE DEF L
<1> QED BY <1>1, <1>8, <1>13, <1>14

-------------------------------------------------------------------------------
(* What a valid manifest guarantees of every order its nodes can occur in. *)
LEMMA ValidIsFinite ==
    ASSUME NEW m \in Manifests, Validate(m)
    PROVE  Finite(m)
<1>1. ASSUME NEW j \in DOMAIN m.joins PROVE IsFiniteSet(m.joins[j].predecessors)
  <2>1. m.joins[j].predecessors = {e.source : e \in Of(Into(m, j), {"satisfies"})}
    BY DEF Validate, JoinsAreDeclared
  <2>2. m.joins[j].predecessors \in SUBSET DOMAIN m.nodes
    BY <2>1 DEF Validate, EdgesAreValid, Of, Into
  <2> QED BY <2>2, ManifestsAreFinite, FS_Subset
<1> QED BY <1>1, ManifestsAreFinite DEF Finite

(* Authority edges never end in a join.                                    *)
LEMMA AuthorityMissesJoins ==
    ASSUME NEW m, Validate(m), NEW e \in m.edges, e.type \in Authorities
    PROVE  e.target \notin DOMAIN m.joins
<1>1. <<m.nodes[e.source].type, m.nodes[e.target].type>> \in EdgeCompatibility[e.type]
  BY DEF Validate, EdgesAreValid, EdgePairIsValid, EdgeCompatibility, Authorities
<1>2. m.nodes[e.target].type # "join"
  <2>1. CASE e.type = "authorised-by" BY <1>1, <2>1 DEF EdgeCompatibility
  <2>2. CASE e.type = "dispatched-to" BY <1>1, <2>2 DEF EdgeCompatibility
  <2> QED BY <2>1, <2>2 DEF Authorities
<1> QED BY <1>2 DEF Validate, JoinsAreDeclared, Typed

(* Whatever an occurring node leads back to over authority edges occurs.   *)
LEMMA AncestorsOccur ==
    ASSUME NEW m \in Manifests, Validate(m), NEW types, types \subseteq Authorities, NEW barred,
           NEW n \in MayOccur(m, barred)
    PROVE  Spread({n}, Reverse(Of(m.edges, types)), {}) \subseteq MayOccur(m, barred)
<1> DEFINE M == MayOccur(m, barred)
           E == Reverse(Of(m.edges, types))
<1>1. M \in SUBSET DOMAIN m.nodes /\ M = Enabled(m, M, barred) BY ValidIsFinite, MayOccurIsLeast
<1>2. IsFiniteSet(DOMAIN m.nodes) /\ {n} \in SUBSET DOMAIN m.nodes BY <1>1, ManifestsAreFinite
<1>3. \A e \in E : \E d \in m.edges : e.source = d.target /\ e.target = d.source /\ d.type \in Authorities
  BY DEF Reverse, Of
<1>4. \A e \in E : e.target \in DOMAIN m.nodes BY <1>3 DEF Validate, EdgesAreValid
<1>5. ASSUME NEW e \in E, e.source \in M PROVE e.target \in M
  <2>1. PICK d \in m.edges : e.source = d.target /\ e.target = d.source /\ d.type \in Authorities BY <1>3
  <2>2. d.target \notin DOMAIN m.joins /\ d.target \in Enabled(m, M, barred)
    BY <1>1, <1>5, <2>1, AuthorityMissesJoins
  <2>3. Before(m, d.target) \subseteq M BY <2>2 DEF Enabled
  <2> QED BY <2>1, <2>3 DEF Before, Into
<1>6. {n} \subseteq M OBVIOUS
<1>7. \A e \in E : e.source \in M /\ e.target \notin {} => e.target \in M BY <1>5
<1> HIDE DEF M, E
<1>8. Spread({n}, E, {}) \subseteq M BY <1>2, <1>4, <1>6, <1>7, SpreadStays
<1> QED BY <1>8 DEF M, E

(* Hence no node occurs whose authority path needs what is barred.         *)
LEMMA PathIsTaken ==
    ASSUME NEW m \in Manifests, Validate(m), NEW types, types \subseteq Authorities, NEW kind, NEW n,
           (Spread({n}, Reverse(Of(m.edges, types)), {}) \ {n}) \cap Typed(m, kind) # {}
    PROVE  n \notin MayOccur(m, Typed(m, kind) \ {n})
<1> DEFINE barred == Typed(m, kind) \ {n}
<1>1. ASSUME n \in MayOccur(m, barred) PROVE FALSE
  <2>1. PICK k \in Spread({n}, Reverse(Of(m.edges, types)), {}) : k # n /\ k \in Typed(m, kind)
    OBVIOUS
  <2>2. k \in MayOccur(m, barred) BY <1>1, <2>1, AncestorsOccur
  <2>3. k \notin barred BY <2>2, ValidIsFinite, MayOccurIsLeast
  <2> QED BY <2>1, <2>3
<1> QED BY <1>1

(* Acceptance stands behind its join, and the join behind every guard.     *)
LEMMA GuardsAreTaken ==
    ASSUME NEW m \in Manifests, Validate(m), Accept \in Typed(m, "decision"),
           NEW g \in m.nodes[Accept].required_guards
    PROVE  Accept \notin MayOccur(m, {n \in DOMAIN m.nodes : m.nodes[n].guard = g})
<1> DEFINE barred == {n \in DOMAIN m.nodes : m.nodes[n].guard = g}
           M == MayOccur(m, barred)
           barriers == {e \in Of(Into(m, Accept), {"satisfies"}) : m.nodes[e.source].type = "join"}
<1>1. /\ Cardinality(barriers) = 1
      /\ \A e \in barriers :
            /\ e.source \in DOMAIN m.joins /\ m.joins[e.source].policy = "all"
            /\ m.joins[e.source].predecessors \subseteq DOMAIN m.nodes
            /\ m.nodes[Accept].required_guards
                  \subseteq {m.nodes[k].guard : k \in m.joins[e.source].predecessors}
  BY DEF Validate, AcceptIsGuarded
<1>2. PICK e \in barriers : TRUE
  <2> HIDE DEF barriers
  <2> QED BY <1>1, NoneCounted, 1 >= 1
<1> DEFINE j == e.source
           P == m.joins[j].predecessors
<1>3. j \in DOMAIN m.joins /\ m.joins[j].policy = "all" /\ \E k \in P : k \in barred
  <2>1. j \in DOMAIN m.joins /\ m.joins[j].policy = "all" BY <1>1, <1>2
  <2>2. PICK k \in P : m.nodes[k].guard = g BY <1>1, <1>2
  <2>3. k \in DOMAIN m.nodes BY <1>1, <1>2, <2>2
  <2> QED BY <2>1, <2>2, <2>3
<1>4. e \in m.edges /\ e.target = Accept BY DEF Of, Into
<1>5. Accept \notin DOMAIN m.joins
  BY DEF Validate, JoinsAreDeclared, Typed
<1>6. M = Enabled(m, M, barred) /\ M \cap barred = {}
  BY ValidIsFinite, MayOccurIsLeast
<1>7. ASSUME Accept \in M PROVE FALSE
  <2>1. j \in M
    <3> HIDE DEF M, barred
    <3>1. Accept \in Enabled(m, M, barred) BY <1>6, <1>7
    <3>2. Before(m, Accept) \subseteq M BY <1>5, <3>1 DEF Enabled
    <3> QED BY <1>4, <3>2 DEF Before, Into
  <2>2. Law!SatisfiedBy(m.joins[j], Before(m, j) \cap M)
    <3> HIDE DEF M, barred, j
    <3>1. j \in Enabled(m, M, barred) BY <1>6, <2>1
    <3> QED BY <1>3, <3>1 DEF Enabled
  <2>3. Cardinality(P \cap (Before(m, j) \cap M)) = Cardinality(P)
    BY <1>3, <2>2, SameCardinality DEF Law!SatisfiedBy
  <2>4. IsFiniteSet(P) BY <1>3, ValidIsFinite DEF Finite
  <2>5. P \subseteq M
    <3> HIDE DEF P, M, j
    <3> QED BY <2>3, <2>4, AllCounted
  <2> QED BY <1>3, <1>6, <2>5
<1> QED BY <1>7

(* An authority that may occur may occur without any untrusted node.       *)
LEMMA TrustIsEnough ==
    ASSUME NEW m \in Manifests, Validate(m),
           NEW n \in MayOccur(m, {}), n \in Typed(m, "approval") \cup Typed(m, "capability"),
           n \notin Marked(m, "untrusted")
    PROVE  n \in MayOccur(m, Marked(m, "untrusted"))
<1> DEFINE N == DOMAIN m.nodes
           X == Marked(m, "untrusted")
           Tainted == {k \in N : \E u \in X : k \in Downstream(m, u)}
           M == MayOccur(m, X)
           K == M \cup Tainted
<1>1. M \in SUBSET N /\ M = Enabled(m, M, X) BY ValidIsFinite, MayOccurIsLeast
<1>2. ASSUME NEW u \in X
      PROVE  /\ u \in Downstream(m, u)
             /\ \A e \in m.edges : e.source \in Downstream(m, u) => e.target \in Downstream(m, u)
  <2>1. IsFiniteSet(N) /\ {u} \in SUBSET N BY ManifestsAreFinite DEF Marked
  <2>2. \A e \in m.edges : e.target \in N BY DEF Validate, EdgesAreValid
  <2> HIDE DEF N
  <2> QED BY <2>1, <2>2, SpreadIsLeast DEF Downstream
<1>3. X \subseteq Tainted BY <1>2 DEF Marked
<1>4. ASSUME NEW e \in m.edges, e.source \in Tainted PROVE e.target \in Tainted
  BY <1>2, <1>4 DEF Validate, EdgesAreValid
<1>5. Enabled(m, K, {}) \subseteq K
  <2> SUFFICES ASSUME NEW k \in Enabled(m, K, {}), k \notin Tainted PROVE k \in M
    OBVIOUS
  <2>1. k \in N \ X BY <1>3 DEF Enabled
  <2>2. Before(m, k) \cap Tainted = {} BY <1>4 DEF Before, Into
  <2>3. Before(m, k) \cap K = Before(m, k) \cap M BY <2>2
  <2>4. k \in Enabled(m, M, X)
    <3> HIDE DEF M, X, Tainted
    <3>1. CASE k \in DOMAIN m.joins BY <2>1, <2>3, <3>1 DEF Enabled
    <3>2. CASE k \notin DOMAIN m.joins
      <4>1. Before(m, k) \subseteq K BY <3>2 DEF Enabled
      <4> QED BY <2>1, <2>3, <3>2, <4>1 DEF Enabled
    <3> QED BY <3>1, <3>2
  <2> QED BY <1>1, <2>4
<1>6. K \in SUBSET N BY <1>1
<1>7. MayOccur(m, {}) \subseteq K
  <2> HIDE DEF K
  <2> QED BY <1>5, <1>6, ValidIsFinite, MayOccurIsLeast
<1>8. n \notin Tainted
  <2> SUFFICES ASSUME NEW u \in X, n \in Downstream(m, u) PROVE FALSE
    OBVIOUS
  <2>1. ~ReachesAuthority(m, u) BY DEF Validate, TrustIsKept
  <2> QED BY <2>1 DEF ReachesAuthority
<1> QED BY <1>7, <1>8

LEMMA ValidIsSafe ==
    ASSUME NEW m \in Manifests, Validate(m)
    PROVE  /\ \A n \in SideEffects(m) : n \notin MayOccur(m, Typed(m, "capability") \ {n})
           /\ \A n \in Marked(m, "approval_required") : n \notin MayOccur(m, Typed(m, "approval") \ {n})
           /\ Accept \in Typed(m, "decision") =>
                 \A g \in m.nodes[Accept].required_guards :
                     Accept \notin MayOccur(m, {n \in DOMAIN m.nodes : m.nodes[n].guard = g})
           /\ LET authority == (Typed(m, "approval") \cup Typed(m, "capability")) \ Marked(m, "untrusted")
              IN  authority \cap MayOccur(m, {}) \subseteq MayOccur(m, Marked(m, "untrusted"))
<1>1. ASSUME NEW n \in SideEffects(m) PROVE n \notin MayOccur(m, Typed(m, "capability") \ {n})
  <2>1. HasCapabilityPath(m, n) BY DEF Validate, EffectsAreAuthorised
  <2> QED BY <2>1, PathIsTaken DEF HasCapabilityPath
<1>2. ASSUME NEW n \in Marked(m, "approval_required")
      PROVE  n \notin MayOccur(m, Typed(m, "approval") \ {n})
  <2>1. HasApprovalPath(m, n) BY DEF Validate, HumansAreAsked
  <2>2. {"authorised-by"} \subseteq Authorities BY DEF Authorities
  <2> QED BY <2>1, <2>2, PathIsTaken DEF HasApprovalPath
<1> QED BY <1>1, <1>2, GuardsAreTaken, TrustIsEnough

-------------------------------------------------------------------------------
(* The compiled manifest is valid, whatever the contract.  Its edges join  *)
(* few pairs of templates, each one level above the other.                 *)
Indexed == {"action.rule", "approval.rule", "evaluator", "receipt", "criterion"}

Links ==
    {<<"task.contract", "principal.contract">>, <<"task.contract", "action.intent">>,
     <<"task.contract", "snapshot.request">>, <<"action.intent", "action.rule">>,
     <<"action.rule", "join.action.rule.any">>, <<"join.action.rule.any", "policy.decision">>,
     <<"policy.decision", "approval.rule">>, <<"policy.decision", "join.action.authority.any">>,
     <<"approval.rule", "join.action.authority.any">>, <<"principal.contract", "capability.execute">>,
     <<"join.action.authority.any", "capability.execute">>, <<"capability.execute", "operation.prepared">>,
     <<"operation.prepared", "executor.dispatch">>, <<"executor.dispatch", "executor.result">>,
     <<"executor.result", "artifact.manifest">>, <<"executor.result", "operation.reconcile">>,
     <<"operation.reconcile", "decision.escalate">>, <<"snapshot.request", "snapshot.materialized">>,
     <<"artifact.manifest", "evaluator">>, <<"snapshot.materialized", "evaluator">>,
     <<"evaluator", "receipt">>, <<"receipt", "criterion">>, <<"criterion", "join.guards.all">>,
     <<"join.guards.all", "decision.accept">>}

Rank(t) ==
    CASE t = "task.contract"                                               -> 0
      [] t \in {"principal.contract", "action.intent", "snapshot.request"} -> 1
      [] t \in {"action.rule", "snapshot.materialized"}                    -> 2
      [] t = "join.action.rule.any"                                        -> 3
      [] t = "policy.decision"                                             -> 4
      [] t = "approval.rule"                                               -> 5
      [] t = "join.action.authority.any"                                   -> 6
      [] t = "capability.execute"                                          -> 7
      [] t = "operation.prepared"                                          -> 8
      [] t = "executor.dispatch"                                           -> 9
      [] t = "executor.result"                                             -> 10
      [] t \in {"artifact.manifest", "operation.reconcile"}                -> 11
      [] t \in {"evaluator", "decision.escalate"}                          -> 12
      [] t = "receipt"                                                     -> 13
      [] t = "criterion"                                                   -> 14
      [] t = "join.guards.all"                                             -> 15
      [] OTHER                                                             -> 16

LEMMA LinksRise == \A k \in Links : Rank(k[1]) \in Nat /\ Rank(k[2]) \in Nat /\ Rank(k[1]) < Rank(k[2])
BY DEF Links, Rank

LEMMA NodeTypes ==
    /\ NodeType("task.contract") = "task" /\ NodeType("principal.contract") = "principal"
    /\ NodeType("action.intent") = "action" /\ NodeType("action.rule") = "action"
    /\ NodeType("policy.decision") = "capability" /\ NodeType("capability.execute") = "capability"
    /\ NodeType("operation.prepared") = "operation" /\ NodeType("operation.reconcile") = "operation"
    /\ NodeType("executor.dispatch") = "executor" /\ NodeType("executor.result") = "executor"
    /\ NodeType("snapshot.request") = "snapshot" /\ NodeType("snapshot.materialized") = "snapshot"
    /\ NodeType("decision.accept") = "decision" /\ NodeType("decision.escalate") = "decision"
    /\ NodeType("join.action.rule.any") = "join" /\ NodeType("join.action.authority.any") = "join"
    /\ NodeType("join.guards.all") = "join" /\ NodeType("approval.rule") = "approval"
    /\ NodeType("artifact.manifest") = "artifact" /\ NodeType("evaluator") = "evaluator"
    /\ NodeType("receipt") = "receipt" /\ NodeType("criterion") = "criterion"
BY DEF NodeType

LEMMA EdgeKinds ==
    /\ \A k \in {<<"action.rule", "join.action.rule.any">>, <<"policy.decision", "join.action.authority.any">>,
                 <<"approval.rule", "join.action.authority.any">>, <<"criterion", "join.guards.all">>,
                 <<"join.action.authority.any", "capability.execute">>, <<"join.guards.all", "decision.accept">>} :
           EdgeKind(k[1], k[2]) = "satisfies"
    /\ EdgeKind("policy.decision", "approval.rule") = "authorised-by"
    /\ EdgeKind("capability.execute", "operation.prepared") = "authorised-by"
    /\ EdgeKind("principal.contract", "capability.execute") = "authorised-by"
    /\ EdgeKind("operation.prepared", "executor.dispatch") = "dispatched-to"
    /\ EdgeKind("executor.dispatch", "executor.result") = "produced"
    /\ EdgeKind("executor.result", "artifact.manifest") = "produced"
    /\ EdgeKind("evaluator", "receipt") = "produced"
    /\ EdgeKind("executor.result", "operation.reconcile") = "reconciles"
    /\ EdgeKind("operation.reconcile", "decision.escalate") = "escalates-to"
    /\ EdgeKind("snapshot.materialized", "evaluator") = "requires"
    /\ EdgeKind("artifact.manifest", "evaluator") = "verified-by"
    /\ EdgeKind("receipt", "criterion") = "verified-by"
    /\ \A k \in {<<"task.contract", "principal.contract">>, <<"task.contract", "action.intent">>,
                 <<"task.contract", "snapshot.request">>, <<"action.intent", "action.rule">>,
                 <<"join.action.rule.any", "policy.decision">>, <<"snapshot.request", "snapshot.materialized">>} :
           EdgeKind(k[1], k[2]) = "depends-on"
<1>1. /\ EdgeKind("action.rule", "join.action.rule.any") = "satisfies"
      /\ EdgeKind("policy.decision", "join.action.authority.any") = "satisfies"
      /\ EdgeKind("approval.rule", "join.action.authority.any") = "satisfies"
  BY NodeTypes DEF EdgeKind
<1>2. /\ EdgeKind("join.action.authority.any", "capability.execute") = "satisfies"
      /\ EdgeKind("criterion", "join.guards.all") = "satisfies"
      /\ EdgeKind("join.guards.all", "decision.accept") = "satisfies"
  BY NodeTypes DEF EdgeKind
<1>3. EdgeKind("policy.decision", "approval.rule") = "authorised-by" BY NodeTypes DEF EdgeKind
<1>4. EdgeKind("capability.execute", "operation.prepared") = "authorised-by" BY NodeTypes DEF EdgeKind
<1>5. EdgeKind("principal.contract", "capability.execute") = "authorised-by" BY NodeTypes DEF EdgeKind
<1>6. EdgeKind("operation.prepared", "executor.dispatch") = "dispatched-to" BY NodeTypes DEF EdgeKind
<1>7. EdgeKind("executor.dispatch", "executor.result") = "produced" BY NodeTypes DEF EdgeKind
<1>8. EdgeKind("executor.result", "artifact.manifest") = "produced" BY NodeTypes DEF EdgeKind
<1>9. EdgeKind("evaluator", "receipt") = "produced" BY NodeTypes DEF EdgeKind
<1>10. EdgeKind("executor.result", "operation.reconcile") = "reconciles" BY NodeTypes DEF EdgeKind
<1>11. EdgeKind("operation.reconcile", "decision.escalate") = "escalates-to" BY NodeTypes DEF EdgeKind
<1>12. EdgeKind("snapshot.materialized", "evaluator") = "requires" BY NodeTypes DEF EdgeKind
<1>13. EdgeKind("artifact.manifest", "evaluator") = "verified-by" BY NodeTypes DEF EdgeKind
<1>14. EdgeKind("receipt", "criterion") = "verified-by" BY NodeTypes DEF EdgeKind
<1>15. EdgeKind("task.contract", "principal.contract") = "depends-on" BY NodeTypes DEF EdgeKind
<1>16. EdgeKind("task.contract", "action.intent") = "depends-on" BY NodeTypes DEF EdgeKind
<1>17. EdgeKind("task.contract", "snapshot.request") = "depends-on" BY NodeTypes DEF EdgeKind
<1>18. EdgeKind("action.intent", "action.rule") = "depends-on" BY NodeTypes DEF EdgeKind
<1>19. EdgeKind("join.action.rule.any", "policy.decision") = "depends-on" BY NodeTypes DEF EdgeKind
<1>20. EdgeKind("snapshot.request", "snapshot.materialized") = "depends-on" BY NodeTypes DEF EdgeKind
<1> QED BY <1>1, <1>2, <1>3, <1>4, <1>5, <1>6, <1>7, <1>8, <1>9, <1>10, <1>11, <1>12, <1>13, <1>14,
           <1>15, <1>16, <1>17, <1>18, <1>19, <1>20

LEMMA LinksAreValid ==
    ASSUME NEW k \in Links
    PROVE  EdgePairIsValid(NodeType(k[1]), EdgeKind(k[1], k[2]), NodeType(k[2]))
<1>1. \A p \in {<<"action", "join">>, <<"approval", "join">>, <<"capability", "join">>, <<"criterion", "join">>,
                <<"join", "capability">>, <<"join", "decision">>} : EdgePairIsValid(p[1], "satisfies", p[2])
  BY DEF EdgePairIsValid, EdgeCompatibility
<1>2. \A p \in {<<"principal", "capability">>, <<"capability", "approval">>, <<"capability", "operation">>} :
           EdgePairIsValid(p[1], "authorised-by", p[2])
  BY DEF EdgePairIsValid, EdgeCompatibility
<1>3. \A p \in {<<"executor", "executor">>, <<"executor", "artifact">>, <<"evaluator", "receipt">>} :
           EdgePairIsValid(p[1], "produced", p[2])
  BY DEF EdgePairIsValid, EdgeCompatibility
<1>4. \A p \in {<<"artifact", "evaluator">>, <<"receipt", "criterion">>} : EdgePairIsValid(p[1], "verified-by", p[2])
  BY DEF EdgePairIsValid, EdgeCompatibility
<1>5. /\ EdgePairIsValid("operation", "dispatched-to", "executor")
      /\ EdgePairIsValid("executor", "reconciles", "operation")
      /\ EdgePairIsValid("snapshot", "requires", "evaluator")
  BY DEF EdgePairIsValid, EdgeCompatibility
<1>6. \A s, d : EdgePairIsValid(s, "depends-on", d) /\ EdgePairIsValid(s, "escalates-to", d)
  BY DEF EdgePairIsValid, EdgeCompatibility
<1>7. k \in {<<"action.rule", "join.action.rule.any">>, <<"policy.decision", "join.action.authority.any">>,
            <<"approval.rule", "join.action.authority.any">>, <<"criterion", "join.guards.all">>,
            <<"join.action.authority.any", "capability.execute">>, <<"join.guards.all", "decision.accept">>}
       => EdgePairIsValid(NodeType(k[1]), EdgeKind(k[1], k[2]), NodeType(k[2]))
  BY <1>1, NodeTypes, EdgeKinds
<1>8. k \in {<<"principal.contract", "capability.execute">>, <<"policy.decision", "approval.rule">>,
            <<"capability.execute", "operation.prepared">>}
       => EdgePairIsValid(NodeType(k[1]), EdgeKind(k[1], k[2]), NodeType(k[2]))
  BY <1>2, NodeTypes, EdgeKinds
<1>9. k \in {<<"executor.dispatch", "executor.result">>, <<"executor.result", "artifact.manifest">>,
            <<"evaluator", "receipt">>}
       => EdgePairIsValid(NodeType(k[1]), EdgeKind(k[1], k[2]), NodeType(k[2]))
  BY <1>3, NodeTypes, EdgeKinds
<1>10. k \in {<<"artifact.manifest", "evaluator">>, <<"receipt", "criterion">>}
       => EdgePairIsValid(NodeType(k[1]), EdgeKind(k[1], k[2]), NodeType(k[2]))
  BY <1>4, NodeTypes, EdgeKinds
<1>11. k \in {<<"operation.prepared", "executor.dispatch">>, <<"executor.result", "operation.reconcile">>,
             <<"snapshot.materialized", "evaluator">>}
       => EdgePairIsValid(NodeType(k[1]), EdgeKind(k[1], k[2]), NodeType(k[2]))
  BY <1>5, NodeTypes, EdgeKinds
<1>12. EdgeKind(k[1], k[2]) \in {"depends-on", "escalates-to"}
       => EdgePairIsValid(NodeType(k[1]), EdgeKind(k[1], k[2]), NodeType(k[2]))
  BY <1>6
<1>13. k \in {<<"task.contract", "principal.contract">>, <<"task.contract", "action.intent">>,
             <<"task.contract", "snapshot.request">>, <<"action.intent", "action.rule">>,
             <<"join.action.rule.any", "policy.decision">>, <<"snapshot.request", "snapshot.materialized">>,
             <<"operation.reconcile", "decision.escalate">>}
       => EdgeKind(k[1], k[2]) \in {"depends-on", "escalates-to"}
  BY EdgeKinds
<1> QED BY <1>7, <1>8, <1>9, <1>10, <1>11, <1>12, <1>13 DEF Links

(* Nodes and edges by their templates.                                     *)
LEMMA NodesByTemplate ==
    ASSUME NEW n \in ControlNodes
    PROVE  /\ n[1] \in Singles \cup Indexed /\ n = <<n[1], n[2]>>
           /\ n[1] \in Singles => n = The(n[1])
           /\ n[1] \in {"action.rule", "approval.rule"} => n[2] \in Rules
           /\ n[1] = "evaluator" => n[2] \in Checks
           /\ n[1] = "receipt" => n[2] \in Receipts
           /\ n[1] = "criterion" => n[2] \in Guards
<1>1. CASE n \in {The(t) : t \in Singles}
  <2>1. PICK t \in Singles : n = <<t, "">> BY <1>1 DEF The
  <2>2. t \notin Indexed BY DEF Singles, Indexed
  <2> QED BY <2>1, <2>2 DEF The, Indexed
<1>2. ASSUME NEW t \in Indexed, NEW S, n \in Each(t, S)
      PROVE  n[1] = t /\ n[2] \in S /\ n = <<n[1], n[2]>>
  BY <1>2 DEF Each
<1>3. Singles \cap Indexed = {} BY DEF Singles, Indexed
<1>4. CASE n \in Each("action.rule", Rules) \cup Each("approval.rule", Rules)
  BY <1>2, <1>3, <1>4 DEF Indexed
<1>5. CASE n \in Each("evaluator", Checks) BY <1>2, <1>3, <1>5 DEF Indexed
<1>6. CASE n \in Each("receipt", Receipts) BY <1>2, <1>3, <1>6 DEF Indexed
<1>7. CASE n \in Each("criterion", Guards) BY <1>2, <1>3, <1>7 DEF Indexed
<1> QED BY <1>1, <1>4, <1>5, <1>6, <1>7 DEF ControlNodes

LEMMA EdgesByTemplate ==
    ASSUME NEW c \in ControlEdges
    PROVE  <<c.source[1], c.target[1]>> \in Links
<1>1. \A t : The(t)[1] = t BY DEF The
<1>2. CASE c \in OpeningEdges
  <2>1. c.source = The("task.contract")
        /\ \E t \in {"principal.contract", "action.intent", "snapshot.request"} : c.target = The(t)
    BY <1>2, ArcFields DEF OpeningEdges
  <2> QED BY <1>1, <2>1 DEF Links
<1>3. CASE c \in RuleEdges
  <2>1. PICK r \in Rules :
           \/ c = ArcWhen(The("action.intent"), <<"action.rule", r>>, "rule_index", r)
           \/ c = Arc(<<"action.rule", r>>, The("join.action.rule.any"))
           \/ c = ArcWhen(The("policy.decision"), <<"approval.rule", r>>, "approval_required", "true")
           \/ c = Arc(<<"approval.rule", r>>, The("join.action.authority.any"))
    BY <1>3 DEF RuleEdges
  <2> QED BY <1>1, <2>1, ArcFields DEF Links
<1>4. CASE c \in SpineEdges
  <2>1. \E k \in {<<"join.action.rule.any", "policy.decision">>, <<"policy.decision", "join.action.authority.any">>,
                  <<"principal.contract", "capability.execute">>,
                  <<"join.action.authority.any", "capability.execute">>,
                  <<"capability.execute", "operation.prepared">>, <<"operation.prepared", "executor.dispatch">>,
                  <<"executor.dispatch", "executor.result">>, <<"executor.result", "artifact.manifest">>,
                  <<"executor.result", "operation.reconcile">>, <<"operation.reconcile", "decision.escalate">>,
                  <<"snapshot.request", "snapshot.materialized">>, <<"join.guards.all", "decision.accept">>} :
           c.source = The(k[1]) /\ c.target = The(k[2])
    BY <1>4, ArcFields DEF SpineEdges
  <2> QED BY <1>1, <2>1 DEF Links
<1>5. CASE c \in CheckEdges
  <2>1. PICK x : \/ c = ArcIf(The("artifact.manifest"), <<"evaluator", x>>, "execution.success")
                 \/ c = Arc(The("snapshot.materialized"), <<"evaluator", x>>)
                 \/ c = Arc(<<"evaluator", x>>, <<"receipt", ReceiptOf(x)>>)
                 \/ c = Arc(<<"receipt", x>>, <<"criterion", x>>)
    BY <1>5 DEF CheckEdges
  <2> QED BY <1>1, <2>1, ArcFields DEF Links
<1>6. CASE c \in GuardEdges
  <2>1. PICK g \in Guards : c = ArcIf(<<"criterion", g>>, The("join.guards.all"), "guard-pass")
    BY <1>6 DEF GuardEdges
  <2> QED BY <1>1, <2>1, ArcFields DEF Links
<1> QED BY <1>2, <1>3, <1>4, <1>5, <1>6 DEF ControlEdges

Line(s, t) == [source |-> s, target |-> t, type |-> EdgeKind(s[1], t[1])]

LEMMA CompiledFields ==
    /\ DOMAIN Compiled.nodes = ControlNodes /\ \A n \in ControlNodes : Compiled.nodes[n] = Declared(n)
    /\ Compiled.joins = ControlJoins
    /\ Compiled.edges = {Line(c.source, c.target) : c \in ControlEdges}
BY DEF Compiled, Line

LEMMA CompiledEdge ==
    ASSUME NEW e \in Compiled.edges
    PROVE  /\ e.source \in ControlNodes /\ e.target \in ControlNodes
           /\ e = Line(e.source, e.target) /\ e.type = EdgeKind(e.source[1], e.target[1])
           /\ <<e.source[1], e.target[1]>> \in Links
<1>1. PICK c \in ControlEdges : e = Line(c.source, c.target) BY CompiledFields
<1>2. e.source = c.source /\ e.target = c.target /\ e.type = EdgeKind(c.source[1], c.target[1])
  BY <1>1 DEF Line
<1> QED BY <1>1, <1>2, EdgesJoinNodes, EdgesByTemplate

(* The lines the proofs below follow.                                      *)
LEMMA CompiledLines ==
    /\ \A k \in Links : k[1] \in Singles /\ k[2] \in Singles => Line(The(k[1]), The(k[2])) \in Compiled.edges
    /\ \A r \in Rules : /\ Line(The("action.intent"), <<"action.rule", r>>) \in Compiled.edges
                        /\ Line(<<"action.rule", r>>, The("join.action.rule.any")) \in Compiled.edges
                        /\ Line(The("policy.decision"), <<"approval.rule", r>>) \in Compiled.edges
                        /\ Line(<<"approval.rule", r>>, The("join.action.authority.any")) \in Compiled.edges
    /\ \A c \in Checks : /\ Line(The("artifact.manifest"), <<"evaluator", c>>) \in Compiled.edges
                         /\ Line(The("snapshot.materialized"), <<"evaluator", c>>) \in Compiled.edges
                         /\ Line(<<"evaluator", c>>, <<"receipt", ReceiptOf(c)>>) \in Compiled.edges
    /\ \A g \in Guards : /\ Line(<<"receipt", g>>, <<"criterion", g>>) \in Compiled.edges
                         /\ Line(<<"criterion", g>>, The("join.guards.all")) \in Compiled.edges
<1>0. \A c \in ControlEdges : Line(c.source, c.target) \in Compiled.edges BY CompiledFields
<1>1. ASSUME NEW k \in Links, k[1] \in Singles, k[2] \in Singles
      PROVE  Line(The(k[1]), The(k[2])) \in Compiled.edges
  <2>1. \E c \in OpeningEdges \cup SpineEdges : c.source = The(k[1]) /\ c.target = The(k[2])
    <3>1. k[1] \notin Indexed /\ k[2] \notin Indexed BY <1>1 DEF Singles, Indexed
    <3> QED BY <1>1, <3>1, ArcFields DEF Links, Indexed, OpeningEdges, SpineEdges
  <2> QED BY <1>0, <2>1 DEF ControlEdges
<1>2. ASSUME NEW r \in Rules
      PROVE  /\ Line(The("action.intent"), <<"action.rule", r>>) \in Compiled.edges
             /\ Line(<<"action.rule", r>>, The("join.action.rule.any")) \in Compiled.edges
             /\ Line(The("policy.decision"), <<"approval.rule", r>>) \in Compiled.edges
             /\ Line(<<"approval.rule", r>>, The("join.action.authority.any")) \in Compiled.edges
  <2>1. {ArcWhen(The("action.intent"), <<"action.rule", r>>, "rule_index", r),
         Arc(<<"action.rule", r>>, The("join.action.rule.any")),
         ArcWhen(The("policy.decision"), <<"approval.rule", r>>, "approval_required", "true"),
         Arc(<<"approval.rule", r>>, The("join.action.authority.any"))} \subseteq ControlEdges
    BY DEF RuleEdges, ControlEdges
  <2> QED BY <1>0, <2>1, ArcFields
<1>3. ASSUME NEW c \in Checks
      PROVE  /\ Line(The("artifact.manifest"), <<"evaluator", c>>) \in Compiled.edges
             /\ Line(The("snapshot.materialized"), <<"evaluator", c>>) \in Compiled.edges
             /\ Line(<<"evaluator", c>>, <<"receipt", ReceiptOf(c)>>) \in Compiled.edges
  <2>1. {ArcIf(The("artifact.manifest"), <<"evaluator", c>>, "execution.success"),
         Arc(The("snapshot.materialized"), <<"evaluator", c>>),
         Arc(<<"evaluator", c>>, <<"receipt", ReceiptOf(c)>>)} \subseteq ControlEdges
    BY DEF CheckEdges, ControlEdges
  <2> QED BY <1>0, <2>1, ArcFields
<1>4. ASSUME NEW g \in Guards
      PROVE  /\ Line(<<"receipt", g>>, <<"criterion", g>>) \in Compiled.edges
             /\ Line(<<"criterion", g>>, The("join.guards.all")) \in Compiled.edges
  <2>1. {Arc(<<"receipt", g>>, <<"criterion", g>>),
         ArcIf(<<"criterion", g>>, The("join.guards.all"), "guard-pass")} \subseteq ControlEdges
    BY DEF CheckEdges, GuardEdges, ControlEdges
  <2> QED BY <1>0, <2>1, ArcFields
<1> QED BY <1>1, <1>2, <1>3, <1>4

LEMMA SixAreFinite == \A a, b, c, d, e, f : IsFiniteSet({a, b, c, d, e, f})
<1> SUFFICES ASSUME NEW a, NEW b, NEW c, NEW d, NEW e, NEW f PROVE IsFiniteSet({a, b, c, d, e, f})
  OBVIOUS
<1>1. IsFiniteSet({a} \cup {b}) BY FS_Singleton, FS_Union
<1>2. IsFiniteSet({a} \cup {b} \cup {c}) BY <1>1, FS_Singleton, FS_Union
<1>3. IsFiniteSet({a} \cup {b} \cup {c} \cup {d}) BY <1>2, FS_Singleton, FS_Union
<1>4. IsFiniteSet({a} \cup {b} \cup {c} \cup {d} \cup {e}) BY <1>3, FS_Singleton, FS_Union
<1>5. IsFiniteSet({a} \cup {b} \cup {c} \cup {d} \cup {e} \cup {f}) BY <1>4, FS_Singleton, FS_Union
<1>6. {a, b, c, d, e, f} = {a} \cup {b} \cup {c} \cup {d} \cup {e} \cup {f} OBVIOUS
<1> QED BY <1>5, <1>6

LEMMA EachIsFinite ==
    ASSUME NEW t, NEW S, IsFiniteSet(S)
    PROVE  IsFiniteSet(Each(t, S))
<1> DEFINE f == [x \in S |-> <<t, x>>]
<1>1. f \in Surjection(S, Each(t, S)) BY DEF Surjection, Each
<1> QED BY <1>1, FS_Surjection

LEMMA NodesAreFinite == IsFiniteSet(ControlNodes)
<1>1. IsFiniteSet({The(t) : t \in Singles})
  <2> DEFINE A == {The("task.contract"), The("principal.contract"), The("action.intent"),
                   The("join.action.rule.any"), The("policy.decision"), The("join.action.authority.any")}
             B == {The("capability.execute"), The("operation.prepared"), The("executor.dispatch"),
                   The("executor.result"), The("operation.reconcile"), The("snapshot.request")}
             C == {The("snapshot.materialized"), The("artifact.manifest"), The("join.guards.all"),
                   The("decision.accept"), The("decision.escalate"), The("decision.escalate")}
  <2>1. {The(t) : t \in Singles} = A \cup B \cup C BY DEF Singles
  <2>2. IsFiniteSet(A) /\ IsFiniteSet(B) /\ IsFiniteSet(C) BY SixAreFinite
  <2> HIDE DEF A, B, C
  <2> QED BY <2>1, <2>2, FS_Union
<1>2. IsFiniteSet(Checks) BY ContractAssumption, FS_Union DEF Checks
<1>3. IsFiniteSet(Receipts)
  <2> DEFINE f == [c \in Checks |-> ReceiptOf(c)]
  <2>1. f \in Surjection(Checks, Receipts) BY DEF Surjection, Receipts
  <2> QED BY <1>2, <2>1, FS_Surjection
<1>4. /\ IsFiniteSet(Each("action.rule", Rules)) /\ IsFiniteSet(Each("approval.rule", Rules))
      /\ IsFiniteSet(Each("evaluator", Checks)) /\ IsFiniteSet(Each("receipt", Receipts))
      /\ IsFiniteSet(Each("criterion", Guards))
  BY <1>2, <1>3, ContractAssumption, EachIsFinite
<1>5. IsFiniteSet({The(t) : t \in Singles} \cup Each("action.rule", Rules))
  BY <1>1, <1>4, FS_Union
<1>6. IsFiniteSet({The(t) : t \in Singles} \cup Each("action.rule", Rules) \cup Each("approval.rule", Rules))
  BY <1>4, <1>5, FS_Union
<1>7. IsFiniteSet({The(t) : t \in Singles} \cup Each("action.rule", Rules) \cup Each("approval.rule", Rules)
                    \cup Each("evaluator", Checks))
  BY <1>4, <1>6, FS_Union
<1>8. IsFiniteSet({The(t) : t \in Singles} \cup Each("action.rule", Rules) \cup Each("approval.rule", Rules)
                    \cup Each("evaluator", Checks) \cup Each("receipt", Receipts))
  BY <1>4, <1>7, FS_Union
<1> QED BY <1>4, <1>8, FS_Union DEF ControlNodes

(* The walks over the compiled lines.                                      *)
LEMMA CompiledWalk ==
    ASSUME NEW S \in SUBSET ControlNodes
    PROVE  /\ S \subseteq Spread(S, Compiled.edges, {}) /\ Spread(S, Compiled.edges, {}) \subseteq ControlNodes
           /\ \A s, t : Line(s, t) \in Compiled.edges /\ s \in Spread(S, Compiled.edges, {})
                  => t \in Spread(S, Compiled.edges, {})
<1>1. \A e \in Compiled.edges : e.target \in ControlNodes BY CompiledEdge
<1>2. \A s, t : Line(s, t).source = s /\ Line(s, t).target = t BY DEF Line
<1>3. /\ S \subseteq Spread(S, Compiled.edges, {}) /\ Spread(S, Compiled.edges, {}) \subseteq ControlNodes
      /\ \A e \in Compiled.edges : e.source \in Spread(S, Compiled.edges, {}) /\ e.target \notin {}
            => e.target \in Spread(S, Compiled.edges, {})
  BY <1>1, NodesAreFinite, SpreadIsLeast
<1> QED BY <1>2, <1>3

LEMMA SinglesAreNodes == \A t \in Singles : The(t) \in ControlNodes
BY DEF ControlNodes

LEMMA DeclaredFields ==
    \A n : /\ Declared(n).type = NodeType(n[1])
           /\ Declared(n).effect = IF n[1] = "executor.dispatch" THEN "side-effect"
                                   ELSE IF NodeType(n[1]) = "decision" THEN "terminal" ELSE "read-only"
           /\ Declared(n).marks = (IF n[1] = "receipt" THEN {"terminal"} ELSE {})
                                     \cup (IF n[1] = "operation.reconcile" THEN {"recovery"} ELSE {})
           /\ Declared(n).guard = IF n[1] = "criterion" THEN n[2] ELSE ""
           /\ Declared(n).required_guards = IF n[1] = "decision.accept" THEN Guards ELSE {}
BY DEF Declared

LEMMA CompiledNode ==
    ASSUME NEW n \in ControlNodes
    PROVE  /\ n \in DOMAIN Compiled.nodes
           /\ Compiled.nodes[n].type = NodeType(n[1])
           /\ Compiled.nodes[n].marks = (IF n[1] = "receipt" THEN {"terminal"} ELSE {})
                                           \cup (IF n[1] = "operation.reconcile" THEN {"recovery"} ELSE {})
           /\ Compiled.nodes[n].guard = IF n[1] = "criterion" THEN n[2] ELSE ""
           /\ Compiled.nodes[n].required_guards = IF n[1] = "decision.accept" THEN Guards ELSE {}
BY CompiledFields, DeclaredFields

LEMMA CompiledEdgesAreValid == EdgesAreValid(Compiled)
<1> SUFFICES ASSUME NEW e \in Compiled.edges
             PROVE  /\ e.source \in ControlNodes /\ e.target \in ControlNodes
                    /\ EdgePairIsValid(Compiled.nodes[e.source].type, e.type, Compiled.nodes[e.target].type)
  BY CompiledFields DEF EdgesAreValid
<1>1. /\ e.source \in ControlNodes /\ e.target \in ControlNodes /\ e.type = EdgeKind(e.source[1], e.target[1])
      /\ <<e.source[1], e.target[1]>> \in Links
  BY CompiledEdge
<1>2. Compiled.nodes[e.source].type = NodeType(e.source[1]) /\ Compiled.nodes[e.target].type = NodeType(e.target[1])
  BY <1>1, CompiledFields, DeclaredFields
<1>3. EdgePairIsValid(NodeType(e.source[1]), EdgeKind(e.source[1], e.target[1]), NodeType(e.target[1]))
  BY <1>1, LinksAreValid
<1> QED BY <1>1, <1>2, <1>3

LEMMA EntriesOfCompiled ==
    /\ Entries(Compiled) \in SUBSET ControlNodes
    /\ The("task.contract") \in Entries(Compiled)
    /\ The("join.guards.all") \notin Entries(Compiled) /\ The("decision.accept") \notin Entries(Compiled)
<1>1. Entries(Compiled) = {n \in ControlNodes : ~ \E e \in Compiled.edges : e.target = n}
  BY CompiledFields DEF Entries, Into
<1>2. \A k \in Links : k[2] # "task.contract" BY DEF Links
<1>3. \A e \in Compiled.edges : e.target # The("task.contract")
  <2> SUFFICES ASSUME NEW e \in Compiled.edges, e.target = The("task.contract") PROVE FALSE
    OBVIOUS
  <2>1. <<e.source[1], e.target[1]>> \in Links BY CompiledEdge
  <2>2. e.target[1] = "task.contract" BY TheIsInjective
  <2> QED BY <1>2, <2>1, <2>2
<1>4. The("task.contract") \in ControlNodes BY SinglesAreNodes DEF Singles
<1>5. PICK g \in Guards : TRUE BY ContractAssumption
<1>6. Line(<<"criterion", g>>, The("join.guards.all")) \in Compiled.edges BY CompiledLines
<1>7. Line(The("join.guards.all"), The("decision.accept")) \in Compiled.edges
  <2>1. <<"join.guards.all", "decision.accept">> \in Links BY DEF Links
  <2> QED BY <2>1, CompiledLines DEF Singles
<1>8. \A s, t : Line(s, t).target = t BY DEF Line
<1> QED BY <1>1, <1>3, <1>4, <1>6, <1>7, <1>8

LEMMA CompiledIsReached == Spread(Entries(Compiled), Compiled.edges, {}) = ControlNodes
<1> DEFINE R == Spread(Entries(Compiled), Compiled.edges, {})
<1>1. /\ Entries(Compiled) \subseteq R /\ R \subseteq ControlNodes
      /\ \A s, t : Line(s, t) \in Compiled.edges /\ s \in R => t \in R
  BY EntriesOfCompiled, CompiledWalk
<1> HIDE DEF R
<1>2. ASSUME NEW k \in Links, k[1] \in Singles, k[2] \in Singles, The(k[1]) \in R PROVE The(k[2]) \in R
  BY <1>1, <1>2, CompiledLines
<1>3. The("task.contract") \in R BY <1>1, EntriesOfCompiled
<1>4. The("principal.contract") \in R /\ The("action.intent") \in R /\ The("snapshot.request") \in R
  <2>1. <<"task.contract", "principal.contract">> \in Links /\ <<"task.contract", "action.intent">> \in Links
        /\ <<"task.contract", "snapshot.request">> \in Links
    BY DEF Links
  <2> QED BY <1>2, <1>3, <2>1 DEF Singles
<1>5. \A r \in Rules : <<"action.rule", r>> \in R BY <1>1, <1>4, CompiledLines
<1>6. The("join.action.rule.any") \in R BY <1>1, <1>5, CompiledLines, ContractAssumption
<1>7. The("policy.decision") \in R
  <2>1. <<"join.action.rule.any", "policy.decision">> \in Links BY DEF Links
  <2> QED BY <1>2, <1>6, <2>1 DEF Singles
<1>8. \A r \in Rules : <<"approval.rule", r>> \in R BY <1>1, <1>7, CompiledLines
<1>9. The("join.action.authority.any") \in R BY <1>1, <1>8, CompiledLines, ContractAssumption
<1>10. The("capability.execute") \in R
  <2>1. <<"join.action.authority.any", "capability.execute">> \in Links BY DEF Links
  <2> QED BY <1>2, <1>9, <2>1 DEF Singles
<1>11. The("operation.prepared") \in R
  <2>1. <<"capability.execute", "operation.prepared">> \in Links BY DEF Links
  <2> QED BY <1>2, <1>10, <2>1 DEF Singles
<1>12. The("executor.dispatch") \in R
  <2>1. <<"operation.prepared", "executor.dispatch">> \in Links BY DEF Links
  <2> QED BY <1>2, <1>11, <2>1 DEF Singles
<1>13. The("executor.result") \in R
  <2>1. <<"executor.dispatch", "executor.result">> \in Links BY DEF Links
  <2> QED BY <1>2, <1>12, <2>1 DEF Singles
<1>14. The("artifact.manifest") \in R /\ The("operation.reconcile") \in R
  <2>1. <<"executor.result", "artifact.manifest">> \in Links /\ <<"executor.result", "operation.reconcile">> \in Links
    BY DEF Links
  <2> QED BY <1>2, <1>13, <2>1 DEF Singles
<1>15. The("decision.escalate") \in R
  <2>1. <<"operation.reconcile", "decision.escalate">> \in Links BY DEF Links
  <2> QED BY <1>2, <1>14, <2>1 DEF Singles
<1>16. The("snapshot.materialized") \in R
  <2>1. <<"snapshot.request", "snapshot.materialized">> \in Links BY DEF Links
  <2> QED BY <1>2, <1>4, <2>1 DEF Singles
<1>17. \A c \in Checks : <<"evaluator", c>> \in R BY <1>1, <1>14, CompiledLines
<1>18. \A c \in Checks : <<"receipt", ReceiptOf(c)>> \in R BY <1>1, <1>17, CompiledLines
<1>19. \A x \in Receipts : <<"receipt", x>> \in R BY <1>18 DEF Receipts
<1>20. \A g \in Guards : <<"criterion", g>> \in R
  <2>1. \A g \in Guards : g \in Checks /\ ReceiptOf(g) = g BY DEF Checks, ReceiptOf
  <2> QED BY <1>1, <1>18, <2>1, CompiledLines
<1>21. The("join.guards.all") \in R BY <1>1, <1>20, CompiledLines, ContractAssumption
<1>22. The("decision.accept") \in R
  <2>1. <<"join.guards.all", "decision.accept">> \in Links BY DEF Links
  <2> QED BY <1>2, <1>21, <2>1 DEF Singles
<1>23. \A t \in Singles : The(t) \in R
  BY <1>3, <1>4, <1>6, <1>7, <1>9, <1>10, <1>11, <1>12, <1>13, <1>14, <1>15, <1>16, <1>21, <1>22 DEF Singles
<1>24. ControlNodes \subseteq R
  BY <1>5, <1>8, <1>17, <1>19, <1>20, <1>23 DEF ControlNodes, Each
<1> QED BY <1>1, <1>24 DEF R

(* Every node but those marked terminal leads on or ends the run.          *)
LEMMA CompiledDoesNotDangle == NothingDangles(Compiled)
<1>1. \A s, t : Line(s, t).source = s BY DEF Line
<1>2. \A n, t : Line(n, t) \in Compiled.edges => From(Compiled, n) # {} BY <1>1 DEF From
<1>3. ASSUME NEW t \in Singles PROVE t \in {"decision.accept", "decision.escalate"} \/ From(Compiled, The(t)) # {}
  <2>1. ASSUME NEW k \in Links, k[1] \in Singles, k[2] \in Singles PROVE From(Compiled, The(k[1])) # {}
    BY <1>2, <2>1, CompiledLines
  <2>2. {<<"task.contract", "action.intent">>, <<"principal.contract", "capability.execute">>,
         <<"join.action.rule.any", "policy.decision">>, <<"policy.decision", "join.action.authority.any">>,
         <<"join.action.authority.any", "capability.execute">>, <<"capability.execute", "operation.prepared">>,
         <<"operation.prepared", "executor.dispatch">>, <<"executor.dispatch", "executor.result">>,
         <<"executor.result", "operation.reconcile">>, <<"operation.reconcile", "decision.escalate">>,
         <<"snapshot.request", "snapshot.materialized">>, <<"join.guards.all", "decision.accept">>} \subseteq Links
    BY DEF Links
  <2>3. \A u \in {"task.contract", "principal.contract", "join.action.rule.any", "policy.decision",
                  "join.action.authority.any", "capability.execute", "operation.prepared", "executor.dispatch",
                  "executor.result", "operation.reconcile", "snapshot.request", "join.guards.all"} :
             From(Compiled, The(u)) # {}
    BY <2>1, <2>2 DEF Singles
  <2>4. \E r : r \in Rules BY ContractAssumption
  <2>5. \E c : c \in Checks BY ContractAssumption DEF Checks
  <2>6. /\ From(Compiled, The("action.intent")) # {} /\ From(Compiled, The("artifact.manifest")) # {}
        /\ From(Compiled, The("snapshot.materialized")) # {}
    BY <1>2, <2>4, <2>5, CompiledLines
  <2> QED BY <2>3, <2>6 DEF Singles
<1>4. ASSUME NEW n \in ControlNodes, n[1] \in Indexed, n[1] # "receipt" PROVE From(Compiled, n) # {}
  <2> DEFINE x == n[2]
  <2>0. n = <<n[1], x>> BY NodesByTemplate
  <2>1. CASE n[1] \in {"action.rule", "approval.rule"}
    <3>1. x \in Rules BY <2>1, NodesByTemplate
    <3> HIDE DEF x
    <3> QED BY <1>2, <2>0, <2>1, <3>1, CompiledLines
  <2>2. CASE n[1] = "evaluator"
    <3>1. x \in Checks BY <2>2, NodesByTemplate
    <3> HIDE DEF x
    <3> QED BY <1>2, <2>0, <2>2, <3>1, CompiledLines
  <2>3. CASE n[1] = "criterion"
    <3>1. x \in Guards BY <2>3, NodesByTemplate
    <3> HIDE DEF x
    <3> QED BY <1>2, <2>0, <2>3, <3>1, CompiledLines
  <2> QED BY <1>4, <2>1, <2>2, <2>3 DEF Indexed
<1>5. ASSUME NEW n \in ControlNodes, n \notin Marked(Compiled, "terminal")
      PROVE  From(Compiled, n) # {} \/ Compiled.nodes[n].effect \in {"terminal", "side-effect"}
  <2>1. n[1] # "receipt" BY <1>5, CompiledFields, DeclaredFields DEF Marked
  <2>2. CASE n[1] \in Indexed BY <1>4, <2>1, <2>2
  <2>3. CASE n[1] \in {"decision.accept", "decision.escalate"}
    <3>1. NodeType(n[1]) = "decision" /\ n[1] # "executor.dispatch" BY <2>3, NodeTypes
    <3>2. Compiled.nodes[n].effect = "terminal" BY <3>1, CompiledFields, DeclaredFields
    <3> QED BY <3>2
  <2>4. CASE n[1] \in Singles /\ n[1] \notin {"decision.accept", "decision.escalate"}
    BY <1>3, <2>4, NodesByTemplate
  <2> QED BY <2>2, <2>3, <2>4, NodesByTemplate
<1> QED BY <1>5, CompiledIsReached, CompiledFields DEF NothingDangles

LEMMA CompiledMarks ==
    /\ \A mark : mark \notin {"terminal", "recovery"} => Marked(Compiled, mark) = {}
    /\ The("operation.reconcile") \in Marked(Compiled, "recovery")
<1>1. The("operation.reconcile") \in ControlNodes /\ The("operation.reconcile")[1] = "operation.reconcile"
  BY SinglesAreNodes, TheIsInjective DEF Singles
<1>2. The("operation.reconcile") \in Marked(Compiled, "recovery") BY <1>1, CompiledNode DEF Marked
<1>3. \A n \in ControlNodes : Compiled.nodes[n].marks \subseteq {"terminal", "recovery"} BY CompiledNode
<1>4. DOMAIN Compiled.nodes = ControlNodes BY CompiledFields
<1> QED BY <1>2, <1>3, <1>4 DEF Marked

LEMMA CompiledAsksAndTrusts == HumansAreAsked(Compiled) /\ TrustIsKept(Compiled)
BY CompiledMarks DEF HumansAreAsked, TrustIsKept

(* The one effect, its capability behind it and its recovery ahead.        *)
LEMMA CompiledEffectsAreAuthorised == EffectsAreAuthorised(Compiled)
<1> SUFFICES ASSUME NEW n \in SideEffects(Compiled)
             PROVE  /\ Of(Into(Compiled, n), Authorities) # {}
                    /\ HasCapabilityPath(Compiled, n) /\ ReachesRecovery(Compiled, n)
  BY DEF EffectsAreAuthorised
<1>1. n = The("executor.dispatch") /\ n \in ControlNodes
  <2>1. n \in ControlNodes /\ Declared(n).effect = "side-effect" BY CompiledFields DEF SideEffects
  <2>2. n[1] = "executor.dispatch" BY <2>1, DeclaredFields
  <2> QED BY <2>1, <2>2, NodesByTemplate DEF Singles
<1> DEFINE prep == Line(The("operation.prepared"), The("executor.dispatch"))
           grant == Line(The("capability.execute"), The("operation.prepared"))
<1>2. \A s, t : Line(s, t).source = s /\ Line(s, t).target = t /\ Line(s, t).type = EdgeKind(s[1], t[1])
  BY DEF Line
<1>3. prep \in Compiled.edges /\ grant \in Compiled.edges
  <2>1. /\ <<"operation.prepared", "executor.dispatch">> \in Links
        /\ <<"capability.execute", "operation.prepared">> \in Links
    BY DEF Links
  <2> QED BY <2>1, CompiledLines DEF Singles
<1>4. /\ prep.source = The("operation.prepared") /\ prep.target = The("executor.dispatch")
      /\ grant.source = The("capability.execute") /\ grant.target = The("operation.prepared")
      /\ prep.type \in Authorities /\ grant.type \in Authorities
  BY <1>2, TheIsInjective, EdgeKinds DEF Authorities
<1> HIDE DEF prep, grant
<1>5. Of(Into(Compiled, n), Authorities) # {} BY <1>1, <1>3, <1>4 DEF Of, Into
<1>6. HasCapabilityPath(Compiled, n)
  <2> DEFINE E == Reverse(Of(Compiled.edges, Authorities))
             R == Spread({n}, E, {})
  <2>1. \A e \in E : e.target \in ControlNodes
    <3>1. \A d \in Compiled.edges : d.source \in ControlNodes BY CompiledEdge
    <3> QED BY <3>1 DEF Reverse, Of
  <2>2. /\ [source |-> The("executor.dispatch"), target |-> The("operation.prepared"), type |-> prep.type] \in E
        /\ [source |-> The("operation.prepared"), target |-> The("capability.execute"), type |-> grant.type] \in E
    BY <1>3, <1>4 DEF Reverse, Of
  <2> HIDE DEF E
  <2>3. {n} \subseteq R /\ \A e \in E : e.source \in R /\ e.target \notin {} => e.target \in R
    BY <1>1, <2>1, NodesAreFinite, SpreadIsLeast, {n} \in SUBSET ControlNodes
  <2> HIDE DEF R
  <2>4. The("operation.prepared") \in R BY <1>1, <2>2, <2>3
  <2>5. The("capability.execute") \in R BY <2>2, <2>3, <2>4
  <2>6. The("capability.execute") # n BY <1>1, TheIsInjective
  <2>7. The("capability.execute") \in Typed(Compiled, "capability")
    <3>1. The("capability.execute") \in ControlNodes /\ The("capability.execute")[1] = "capability.execute"
      BY SinglesAreNodes, TheIsInjective DEF Singles
    <3> QED BY <3>1, CompiledNode, NodeTypes DEF Typed
  <2> QED BY <2>5, <2>6, <2>7 DEF HasCapabilityPath, R, E
<1>7. ReachesRecovery(Compiled, n)
  <2> DEFINE R == Downstream(Compiled, n)
  <2>1. {n} \in SUBSET ControlNodes BY <1>1
  <2>2. n \in R /\ \A s, t : Line(s, t) \in Compiled.edges /\ s \in R => t \in R
    BY <2>1, CompiledWalk DEF Downstream
  <2> HIDE DEF R
  <2>3. /\ Line(The("executor.dispatch"), The("executor.result")) \in Compiled.edges
        /\ Line(The("executor.result"), The("operation.reconcile")) \in Compiled.edges
    <3>1. <<"executor.dispatch", "executor.result">> \in Links /\ <<"executor.result", "operation.reconcile">> \in Links
      BY DEF Links
    <3> QED BY <3>1, CompiledLines DEF Singles
  <2>4. The("operation.reconcile") \in R BY <1>1, <2>2, <2>3
  <2>5. The("operation.reconcile") \in Typed(Compiled, "operation")
    <3>1. The("operation.reconcile") \in ControlNodes /\ The("operation.reconcile")[1] = "operation.reconcile"
      BY SinglesAreNodes, TheIsInjective DEF Singles
    <3> QED BY <3>1, CompiledNode, NodeTypes DEF Typed
  <2> QED BY <2>4, <2>5, CompiledMarks DEF ReachesRecovery, R
<1> QED BY <1>5, <1>6, <1>7

(* Acceptance has one barrier, the join of all the criteria.               *)
LEMMA CompiledAcceptIsGuarded == AcceptIsGuarded(Compiled)
<1> DEFINE J == The("join.guards.all")
           guards == Each("criterion", Guards)
           barriers == {e \in Of(Into(Compiled, Accept), {"satisfies"}) : Compiled.nodes[e.source].type = "join"}
<1>1. Accept \in ControlNodes /\ J \in ControlNodes BY SinglesAreNodes DEF Singles, Accept
<1>2. Compiled.nodes[Accept].required_guards = Guards
  BY <1>1, CompiledFields, DeclaredFields, TheIsInjective DEF Accept
<1>3. \A k \in Links : /\ k[2] = "decision.accept" => k[1] = "join.guards.all"
                       /\ k[2] = "join.guards.all" => k[1] = "criterion"
  BY DEF Links
<1>4. ASSUME NEW e \in Compiled.edges, e.target = Accept PROVE e = Line(J, Accept)
  <2>1. e.target[1] = "decision.accept" BY <1>4, TheIsInjective DEF Accept
  <2>2. e.source[1] = "join.guards.all" /\ e.source \in ControlNodes BY <1>3, <2>1, CompiledEdge
  <2>3. e.source = J BY <2>2, NodesByTemplate DEF Singles
  <2> QED BY <1>4, <2>3, CompiledEdge
<1>5. Line(J, Accept) \in barriers
  <2>1. Line(J, Accept) \in Compiled.edges
    <3>1. <<"join.guards.all", "decision.accept">> \in Links BY DEF Links
    <3> QED BY <3>1, CompiledLines DEF Singles, Accept
  <2>2. Line(J, Accept).source = J /\ Line(J, Accept).target = Accept BY DEF Line
  <2>3. Line(J, Accept).type = "satisfies"
    <3>1. J[1] = "join.guards.all" /\ Accept[1] = "decision.accept" BY TheIsInjective DEF Accept
    <3> QED BY <3>1, EdgeKinds DEF Line
  <2>4. Compiled.nodes[J].type = "join"
    <3>1. J[1] = "join.guards.all" BY TheIsInjective
    <3> HIDE DEF J
    <3> QED BY <1>1, <3>1, CompiledNode, NodeTypes
  <2> QED BY <2>1, <2>2, <2>3, <2>4 DEF Of, Into
<1>6. barriers = {Line(J, Accept)}
  <2>1. \A e \in barriers : e \in Compiled.edges /\ e.target = Accept BY DEF Of, Into
  <2> HIDE DEF barriers, J
  <2> QED BY <1>4, <1>5, <2>1
<1>7. J \in DOMAIN Compiled.joins /\ Compiled.joins[J].policy = "all" /\ Compiled.joins[J].predecessors = guards
  BY CompiledFields, TheIsInjective DEF ControlJoins, JoinNodes
<1>8. guards \subseteq DOMAIN Compiled.nodes BY CompiledFields DEF ControlNodes
<1>9. Guards \subseteq {Compiled.nodes[g].guard : g \in guards}
  <2> SUFFICES ASSUME NEW g \in Guards PROVE \E k \in guards : Compiled.nodes[k].guard = g
    OBVIOUS
  <2>1. <<"criterion", g>> \in guards BY DEF Each
  <2>2. <<"criterion", g>> \in ControlNodes BY <1>8, <2>1, CompiledFields
  <2>3. <<"criterion", g>>[1] = "criterion" /\ <<"criterion", g>>[2] = g OBVIOUS
  <2>4. Compiled.nodes[<<"criterion", g>>].guard = g BY <2>2, <2>3, CompiledNode
  <2> QED BY <2>1, <2>4
<1>10. ~ ReachableWithout(Compiled, Accept, guards)
  <2> DEFINE U == ControlNodes \ (guards \cup {J, Accept})
             S == Entries(Compiled) \ guards
  <2>1. S \in SUBSET ControlNodes /\ S \subseteq U BY EntriesOfCompiled DEF Accept
  <2>2. \A e \in Compiled.edges : e.target \in ControlNodes BY CompiledEdge
  <2>3. ASSUME NEW e \in Compiled.edges, e.source \in U, e.target \notin guards PROVE e.target \in U
    <3>1. /\ e.source \in ControlNodes /\ e.target \in ControlNodes
          /\ <<e.source[1], e.target[1]>> \in Links
      BY CompiledEdge
    <3>2. e.target # Accept
      <4>1. Line(J, Accept).source = J BY DEF Line
      <4> QED BY <1>4, <2>3, <4>1
    <3>3. e.target # J
      <4>1. SUFFICES ASSUME e.target = J PROVE FALSE
        OBVIOUS
      <4>2. e.source[1] = "criterion" BY <1>3, <3>1, <4>1, TheIsInjective
      <4>3. e.source \in guards BY <3>1, <4>2, NodesByTemplate DEF Each
      <4> QED BY <2>3, <4>3
    <3> QED BY <2>3, <3>1, <3>2, <3>3
  <2> HIDE DEF U, S, guards
  <2>4. Spread(S, Compiled.edges, guards) \subseteq U
    BY <2>1, <2>2, <2>3, NodesAreFinite, SpreadStays
  <2> QED BY <2>4 DEF U, S, ReachableWithout
<1>11. Line(J, Accept).source = J BY DEF Line
<1>12. Cardinality(barriers) = 1 BY <1>6, FS_Singleton
<1>13. Guards # {} BY ContractAssumption
<1>14. \A e \in barriers :
          /\ e.source \in DOMAIN Compiled.joins /\ Compiled.joins[e.source].policy = "all"
          /\ Compiled.joins[e.source].predecessors = guards
  <2> HIDE DEF barriers, J, guards
  <2> QED BY <1>6, <1>7, <1>11
<1> HIDE DEF J, guards
<1> QED BY <1>2, <1>8, <1>9, <1>10, <1>12, <1>13, <1>14 DEF AcceptIsGuarded

(* The joins wait for the nodes that lead to them, no more and no fewer.   *)
LEMMA IntoCompiled ==
    ASSUME NEW t \in {"join.action.rule.any", "join.action.authority.any", "join.guards.all"}
    PROVE  {e.source : e \in Of(Into(Compiled, The(t)), {"satisfies"})}
             = {n \in ControlNodes : Line(n, The(t)) \in Compiled.edges}
<1>1. NodeType(t) = "join" BY NodeTypes
<1>2. \A s : Line(s, The(t)).source = s /\ Line(s, The(t)).target = The(t) BY DEF Line
<1>3. ASSUME NEW e \in Compiled.edges, e.target = The(t)
      PROVE  e.type = "satisfies" /\ e = Line(e.source, The(t)) /\ e.source \in ControlNodes
  <2>1. e.type = EdgeKind(e.source[1], t) /\ <<e.source[1], t>> \in Links /\ e = Line(e.source, The(t))
        /\ e.source \in ControlNodes
    BY <1>3, CompiledEdge, TheIsInjective
  <2>2. \A k \in Links : k[2] = t => k \in
          {<<"action.rule", "join.action.rule.any">>, <<"policy.decision", "join.action.authority.any">>,
           <<"approval.rule", "join.action.authority.any">>, <<"criterion", "join.guards.all">>}
    BY DEF Links
  <2> QED BY <2>1, <2>2, EdgeKinds
<1> QED BY <1>2, <1>3 DEF Of, Into

LEMMA CompiledJoinsAreDeclared == JoinsAreDeclared(Compiled)
<1> SUFFICES ASSUME NEW j \in JoinNodes
             PROVE  /\ j \in Typed(Compiled, "join")
                    /\ {e.source : e \in Of(Into(Compiled, j), {"satisfies"})} = ControlJoins[j].predecessors
  BY CompiledFields DEF JoinsAreDeclared, ControlJoins
<1>1. PICK t \in {"join.action.rule.any", "join.action.authority.any", "join.guards.all"} : j = The(t)
  BY DEF JoinNodes
<1>2. j \in Typed(Compiled, "join")
  <2>1. j \in ControlNodes BY <1>1, SinglesAreNodes DEF Singles
  <2>2. NodeType(j[1]) = "join" BY <1>1, TheIsInjective, NodeTypes
  <2> QED BY <2>1, <2>2, CompiledFields, DeclaredFields DEF Typed
<1> DEFINE P == {n \in ControlNodes : Line(n, The(t)) \in Compiled.edges}
<1>3. ASSUME NEW n \in P PROVE n \in ControlNodes /\ <<n[1], t>> \in Links
  <2>1. Line(n, The(t)).source = n /\ Line(n, The(t)).target = The(t) BY DEF Line
  <2> QED BY <2>1, CompiledEdge, TheIsInjective
<1>4. ControlJoins[j].predecessors =
        CASE j[1] = "join.action.rule.any"      -> Each("action.rule", Rules)
          [] j[1] = "join.action.authority.any" -> {The("policy.decision")} \cup Each("approval.rule", Rules)
          [] OTHER                              -> Each("criterion", Guards)
  BY DEF ControlJoins
<1>5. CASE t = "join.action.rule.any"
  <2>1. ControlJoins[j].predecessors = Each("action.rule", Rules) BY <1>1, <1>4, <1>5, TheIsInjective
  <2>2. \A k \in Links : k[2] = t => k[1] = "action.rule" BY <1>5 DEF Links
  <2>3. P \subseteq Each("action.rule", Rules)
    <3> SUFFICES ASSUME NEW n \in P PROVE \E x \in Rules : n = <<"action.rule", x>>
      BY DEF Each
    <3>1. n \in ControlNodes /\ n[1] = "action.rule" BY <1>3, <2>2
    <3>2. n = <<n[1], n[2]>> /\ n[2] \in Rules BY <3>1, NodesByTemplate
    <3> QED BY <3>1, <3>2
  <2>4. Each("action.rule", Rules) \subseteq P
    <3> SUFFICES ASSUME NEW x \in Rules PROVE <<"action.rule", x>> \in P
      BY DEF Each
    <3>1. <<"action.rule", x>> \in ControlNodes BY DEF Each, ControlNodes
    <3> QED BY <1>5, <3>1, CompiledLines
  <2> QED BY <1>1, <1>2, <2>1, <2>3, <2>4, IntoCompiled
<1>6. CASE t = "join.action.authority.any"
  <2>1. ControlJoins[j].predecessors = {The("policy.decision")} \cup Each("approval.rule", Rules)
    BY <1>1, <1>4, <1>6, TheIsInjective
  <2>2. \A k \in Links : k[2] = t => k[1] \in {"policy.decision", "approval.rule"} BY <1>6 DEF Links
  <2>3. P \subseteq {The("policy.decision")} \cup Each("approval.rule", Rules)
    <3> SUFFICES ASSUME NEW n \in P PROVE n = The("policy.decision") \/ \E x \in Rules : n = <<"approval.rule", x>>
      BY DEF Each
    <3>1. n \in ControlNodes /\ n[1] \in {"policy.decision", "approval.rule"} BY <1>3, <2>2
    <3>2. n = <<n[1], n[2]>> BY <3>1, NodesByTemplate
    <3>3. n[1] = "policy.decision" => n = The("policy.decision") BY <3>1, NodesByTemplate DEF Singles
    <3>4. n[1] = "approval.rule" => n[2] \in Rules BY <3>1, NodesByTemplate
    <3> QED BY <3>1, <3>2, <3>3, <3>4
  <2>4. Each("approval.rule", Rules) \subseteq P
    <3> SUFFICES ASSUME NEW x \in Rules PROVE <<"approval.rule", x>> \in P
      BY DEF Each
    <3>1. <<"approval.rule", x>> \in ControlNodes BY DEF Each, ControlNodes
    <3> QED BY <1>6, <3>1, CompiledLines
  <2>5. The("policy.decision") \in P
    <3>1. <<"policy.decision", "join.action.authority.any">> \in Links BY DEF Links
    <3> QED BY <1>6, <3>1, CompiledLines, SinglesAreNodes DEF Singles
  <2> QED BY <1>1, <1>2, <2>1, <2>3, <2>4, <2>5, IntoCompiled
<1>7. CASE t = "join.guards.all"
  <2>1. ControlJoins[j].predecessors = Each("criterion", Guards) BY <1>1, <1>4, <1>7, TheIsInjective
  <2>2. \A k \in Links : k[2] = t => k[1] = "criterion" BY <1>7 DEF Links
  <2>3. P \subseteq Each("criterion", Guards)
    <3> SUFFICES ASSUME NEW n \in P PROVE \E x \in Guards : n = <<"criterion", x>>
      BY DEF Each
    <3>1. n \in ControlNodes /\ n[1] = "criterion" BY <1>3, <2>2
    <3>2. n = <<n[1], n[2]>> /\ n[2] \in Guards BY <3>1, NodesByTemplate
    <3> QED BY <3>1, <3>2
  <2>4. Each("criterion", Guards) \subseteq P
    <3> SUFFICES ASSUME NEW x \in Guards PROVE <<"criterion", x>> \in P
      BY DEF Each
    <3>1. <<"criterion", x>> \in ControlNodes BY DEF Each, ControlNodes
    <3> QED BY <1>7, <3>1, CompiledLines
  <2> QED BY <1>1, <1>2, <2>1, <2>3, <2>4, IntoCompiled
<1> QED BY <1>5, <1>6, <1>7

(* Every line leads to a higher rank, so no node leads back to itself.     *)
LEMMA CompiledHasNoCycle == CyclesAreBounded(Compiled)
<1>1. ASSUME NEW n \in OnCycle(Compiled) PROVE FALSE
  <2>1. PICK e \in Compiled.edges : e.source = n /\ n \in Downstream(Compiled, e.target)
    BY DEF OnCycle, From
  <2>2. /\ e.target \in ControlNodes /\ n \in ControlNodes /\ <<n[1], e.target[1]>> \in Links
    BY <2>1, CompiledEdge
  <2> DEFINE U == {k \in ControlNodes : Rank(k[1]) \in Nat /\ Rank(k[1]) >= Rank(e.target[1])}
  <2>3. Rank(n[1]) \in Nat /\ Rank(e.target[1]) \in Nat /\ Rank(n[1]) < Rank(e.target[1])
    BY <2>2, LinksRise
  <2>4. {e.target} \in SUBSET ControlNodes /\ {e.target} \subseteq U BY <2>2, <2>3
  <2>5. ASSUME NEW d \in Compiled.edges, d.source \in U PROVE d.target \in U
    <3>1. d.target \in ControlNodes /\ <<d.source[1], d.target[1]>> \in Links BY CompiledEdge
    <3>2. Rank(d.source[1]) \in Nat /\ Rank(d.target[1]) \in Nat /\ Rank(d.source[1]) < Rank(d.target[1])
      BY <3>1, LinksRise
    <3> QED BY <2>3, <2>5, <3>1, <3>2
  <2>6. \A d \in Compiled.edges : d.target \in ControlNodes BY CompiledEdge
  <2>7. n \notin U BY <2>3
  <2> HIDE DEF U
  <2>8. Spread({e.target}, Compiled.edges, {}) \subseteq U
    BY <2>4, <2>5, <2>6, NodesAreFinite, SpreadStays
  <2> QED BY <2>1, <2>7, <2>8 DEF Downstream
<1>2. CyclicComponents(Compiled) = {} BY <1>1 DEF CyclicComponents
<1> QED BY <1>2 DEF CyclesAreBounded

LEMMA CompiledIsValid == Validate(Compiled)
BY CompiledEdgesAreValid, CompiledDoesNotDangle, CompiledEffectsAreAuthorised, CompiledAsksAndTrusts,
   CompiledAcceptIsGuarded, CompiledJoinsAreDeclared, CompiledHasNoCycle
   DEF Validate

(* validate() accepts the manifest the compiler makes of any contract, and *)
(* in whatever order the nodes of any finite manifest it accepts occur, a  *)
(* side effect comes after a capability, a node that needs approval after  *)
(* an approval, acceptance after every required guard, and no authority    *)
(* waits for an untrusted node: GraphManifest.validate of graph.py.        *)
THEOREM ManifestSafety == Spec => []ValidManifestsAreSafe
<1>1. ValidManifestsAreSafe BY CompiledIsValid, ValidIsSafe DEF ValidManifestsAreSafe
<1> QED BY <1>1, PTL
=============================================================================
