--------------------------- MODULE MCGraphScheduler ---------------------------
(***************************************************************************)
(* A six-node manifest with everything the monitor distinguishes: an       *)
(* entry, two producers working in parallel, behind conditional edges a    *)
(* join that needs both and one that needs either, and a producer behind   *)
(* the former.                                                             *)
(*                                                                         *)
(*            /- build (builder) --success--> both -- verdict (judge)      *)
(*     task -+                           \/                                *)
(*           |                           /\                                *)
(*            \- check (judge) ---passed---> either                        *)
(***************************************************************************)
EXTENDS ExecutionCertificate

MCField == {"success", "passed", "result"}
MCValue == {"None", "True", "False", "true", "false"} \cup Results
MCNode  == {"task", "build", "check", "both", "either", "verdict"}

EdgeOf(s, t, cond) ==
    [source |-> s, target |-> t, condition |-> cond, kind |-> "always", field |-> "result", values |-> {}]

MCEdge ==
    {EdgeOf("task", "build", ""), EdgeOf("task", "check", "")}
    \cup {EdgeOf("build", j, "execution.success") : j \in {"both", "either"}}
    \cup {EdgeOf("check", j, "guard-pass") : j \in {"both", "either"}}
    \cup {[EdgeOf("both", "verdict", "") EXCEPT !.kind = "field-truthy", !.field = "passed"]}

MCJoin == [n \in {"both", "either"} |->
              [predecessors |-> {"build", "check"}, policy |-> IF n = "both" THEN "all" ELSE "threshold",
               threshold |-> 1]]

MCRole == [n \in MCNode |-> CASE n = "task" -> "controller" [] n \in DOMAIN MCJoin -> "scheduler"
                              [] n = "build" -> "builder"  [] OTHER -> "judge"]

Says(success, passed) == [f \in MCField |-> CASE f = "success" -> success [] f = "passed" -> passed
                                              [] OTHER -> "None"]

\* A caller may bring nothing, or claim every fact an edge could ask for.
MCCallerPayload == {Says("None", "None"), Says("True", "True")}

\* Results of the two parallel producers; a second signer holds another role.
MCCompletion ==
    {[instance |-> i, node |-> n, attempt |-> 1, role |-> r, result |-> res, facts |-> Says("None", v)] :
        i \in Instance, n \in {"build"}, r \in {"builder", "judge"}, res \in {"succeeded", "indeterminate"}, v \in {"None"}}
    \cup
    {[instance |-> i, node |-> "check", attempt |-> 1, role |-> "judge", result |-> "succeeded", facts |-> Says("None", v)] :
        i \in Instance, v \in {"true", "false"}}
    \cup
    {[instance |-> i, node |-> "verdict", attempt |-> 1, role |-> "judge", result |-> "succeeded", facts |-> Says("None", "true")] :
        i \in Instance}

NoOverride == {[f \in {} |-> "None"]}
=============================================================================
