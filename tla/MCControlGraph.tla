---------------------------- MODULE MCControlGraph ----------------------------
(***************************************************************************)
(* The compiled control graph of a small contract, under every order in    *)
(* which the scheduler could let its nodes occur, whoever calls it.        *)
(***************************************************************************)
EXTENDS ManifestValidation

\* Facts each template may leave that an edge can tell apart.
MCOutcome == [n \in ControlNodes |->
    CASE n[1] = "action.intent"     -> {[Blank EXCEPT !["rule_index"] = r] : r \in Rules}
      [] n[1] = "policy.decision"   -> {[Blank EXCEPT !["approval_required"] = v] : v \in {"true", "false"}}
      [] n[1] \in {"executor.result", "artifact.manifest"}
                                    -> {[Blank EXCEPT !["success"] = v] : v \in {"True", "False"}}
      [] n[1] = "criterion"         -> {[Blank EXCEPT !["passed"] = v] : v \in {"True", "False"}}
      [] OTHER                      -> {Blank}]

\* A plan named like a guard, and one that signs a guard's receipt under another name.
MCPlanReceipt == [c \in {"g0", "k"} |-> IF c = "k" THEN "g1" ELSE c]

-------------------------------------------------------------------------------
\* What one edit makes of the compiled manifest: an edge dropped, retyped,
\* redirected or added, a node dropped, marked or given an effect, a join weakened.
EdgeTypes == DOMAIN EdgeCompatibility \cup {"depends-on", "escalates-to"}
Names  == {n \in ControlNodes : n[2] \notin {"r1", "g1", "k"}}
Lines(E) == [Compiled EXCEPT !.edges = E]
Without(e) == Compiled.edges \ {e}

EdgeEdits ==
    UNION {{Lines(Without(e))}
           \cup {Lines(Without(e) \cup {[e EXCEPT !.type = t]}) : t \in EdgeTypes}
           \cup {Lines(Without(e) \cup {[e EXCEPT !.source = n]}) : n \in Names}
           \cup {Lines(Without(e) \cup {[e EXCEPT !.target = n]}) : n \in Names} : e \in Compiled.edges}
    \cup {Lines(Compiled.edges \cup {[source |-> n, target |-> k, type |-> t]}) :
              n \in Names, k \in Names, t \in {"depends-on", "authorised-by"}}

NodeEdits ==
    {[nodes |-> [n \in ControlNodes \ {k} |-> Compiled.nodes[n]],
      edges |-> {e \in Compiled.edges : k \notin {e.source, e.target}},
      joins |-> [j \in JoinNodes \ {k} |-> ControlJoins[j]]] : k \in ControlNodes}
    \cup {[Compiled EXCEPT !.nodes[n].marks = @ \cup {mark}] : n \in ControlNodes, mark \in Marks}
    \cup {[Compiled EXCEPT !.nodes[n].effect = "side-effect"] : n \in ControlNodes}

JoinEdits ==
    {[Compiled EXCEPT !.joins[j].policy = p] : j \in JoinNodes, p \in {"all", "any"}}
    \cup {[Compiled EXCEPT !.joins[j].predecessors = @ \ {n}] : j \in JoinNodes, n \in ControlNodes}
    \cup {[Compiled EXCEPT !.joins = [j \in JoinNodes \ {k} |-> ControlJoins[j]]] : k \in JoinNodes}

MCManifests == {Compiled} \cup EdgeEdits \cup NodeEdits \cup JoinEdits
=============================================================================
