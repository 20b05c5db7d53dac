-------------------------- MODULE VerifiedLoopProofs --------------------------
(***************************************************************************)
(* The verified loop keeps its promises for any number of controllers,     *)
(* crashes, intents, rules, guards, plans and budgets.  The argument rests *)
(* on four facts: a process whose revision is the row's knows the row      *)
(* (Synced); whoever is about to dispatch is alone, and nothing was        *)
(* dispatched in its iteration yet (Executing); what was dispatched in the *)
(* iteration of the checkpoint is what the checkpoint names (Ahead); and   *)
(* what a process believes of the world is so, and stays so (Backed).      *)
(***************************************************************************)
EXTENDS VerifiedLoop, SequenceTheorems, FiniteSetTheorems, TLAPS

-------------------------------------------------------------------------------
(* The kinds of the variables.                                             *)
Labels == {"idle", "iterate", "branch", "intent", "gate", "prepared", "execute", "await", "result",
           "evaluating", "accept"}
Outcomes == {"none", "succeeded", "failed"}

Reasons == {"none", "iteration-budget-exhausted", "tool-call-budget-exhausted", "policy-denied",
            "verified-success", "repair", "cancelled-by-requester"}

Payloads == [ControlFields -> ControlValues]
Named ==
    {The(t) : t \in Singles} \cup {<<t, r>> : t \in {"action.rule", "approval.rule"}, r \in Rules}
    \cup {<<"evaluator", k>> : k \in DOMAIN PlanReceipt} \cup {<<"receipt", PlanReceipt[k]>> : k \in DOMAIN PlanReceipt}
    \cup {<<"criterion", g>> : g \in Guards}
Calls == [op : {"advance", "complete", "reserve", "finish"}, node : Named, facts : Payloads]

(* A call that would record a successful execution, and the others.        *)
Claims(x) == x.node = The("executor.result") /\ x.facts["success"] = "True"
Harmless  == {x \in Calls : ~Claims(x)}

Rows == [phase : Phases, iter : 1..(MaxIterations + 1), calls : 0..MaxToolCalls,
         intent : Intent \cup {NoIntent}, outcome : Outcomes, evidence : SUBSET Guards,
         decision : {"none", "accept", "stop", "escalate"}, reason : Reasons]
Procs == [at : Labels, todo : Seq(Calls), view : Rows, intent : Intent \cup {NoIntent},
          obs : Outcomes, evaluated : BOOLEAN]

Graphs ==
    /\ done \in [Iteration -> SUBSET ControlNodes] /\ begun \in [Iteration -> SUBSET ControlNodes]
    /\ \A k \in Iteration : done[k] \cap begun[k] = {}
    /\ facts \in [Iteration -> [ControlNodes -> Payloads \cup {Monitor!NoFacts}]]

Worlds ==
    /\ job \in [Operation -> {"none", "running", "succeeded", "failed"}]
    /\ dispatches \in [Operation -> Nat]
    /\ proposed \subseteq Intent /\ fresh \subseteq Intent /\ spent \subseteq Intent
    /\ \A o \in Operation : job[o] # "none" => dispatches[o] > 0
    /\ answers \subseteq {"accept", "stop", "escalate"}

(* What a row of a phase holds.                                            *)
Lawful(r) ==
    /\ r.phase \notin {"none", "ready", "terminal"} => r.intent \in Intent /\ r.iter \in Iteration
    /\ r.phase = "terminal" <=> r.decision # "none"
    /\ r.phase = "reconciled-effect" =>
          r.outcome \in {"succeeded", "failed"} /\ job[<<r.iter, r.intent>>] = r.outcome

-------------------------------------------------------------------------------
(* Where a process is tells what it holds...                               *)
Placed(p) ==
    /\ p.at \in {"idle", "iterate"} => p.todo = <<>>
    /\ p.at = "idle" => p.view.phase = "none"
    /\ p.at \in {"iterate", "branch"} =>
          p.view.phase \in {"ready", "pending-authorization", "awaiting-approval", "reconciled-effect"}
    /\ p.at = "intent" => p.view.phase = "ready" /\ p.intent \in Intent
    /\ p.at \in {"gate", "prepared"} =>
          p.view.phase \in {"pending-authorization", "awaiting-approval"} /\ p.intent = p.view.intent
    /\ p.at \in {"execute", "await"} => p.view.phase = "pending-effect" /\ p.intent = p.view.intent
    /\ p.at \in {"result", "evaluating", "accept"} => p.view.phase \in {"pending-effect", "reconciled-effect"}
    /\ p.at \notin {"idle", "iterate"} => p.view.iter \in Iteration
    /\ p.at \in {"intent", "gate", "prepared"} => p.view.calls < MaxToolCalls
    /\ p.at = "accept" => p.view.evidence = Guards

(* ...and what it believes of the world is so.                             *)
Succeeded(p) == job[<<p.view.iter, p.view.intent>>] = "succeeded"

Decides(x) == x.node = The("decision.accept") /\ x.op # "reserve"

AcceptAhead(p) ==
    \/ The("decision.accept") \in done[p.view.iter]
    \/ p.todo # <<>> /\ Decides(p.todo[Len(p.todo)])

Backed(p) ==
    /\ Lawful(p.view)
    /\ p.at \in {"prepared", "execute"} => (Asks(p.intent) => p.intent \in spent)
    /\ p.at \in {"await", "result", "evaluating", "accept"} => dispatches[<<p.view.iter, p.view.intent>>] > 0
    /\ p.at \in {"result", "evaluating"} => (p.obs = "succeeded" => Succeeded(p))
    /\ p.at = "accept" => Succeeded(p) /\ AcceptAhead(p)
    /\ p.todo \notin Seq(Harmless) => Succeeded(p) /\ p.at \in {"result", "evaluating", "accept"}

Good(p) == p \in Procs /\ Placed(p) /\ Backed(p)

Processes == me \in [Controller -> Procs] /\ \A c \in Controller : Placed(me[c]) /\ Backed(me[c])

(* A process that holds the row's revision knows the row, but for evidence *)
(* it has not saved yet.                                                   *)
Knows(v) ==
    /\ v.phase = checkpoint.phase /\ v.iter = checkpoint.iter /\ v.calls = checkpoint.calls
    /\ v.intent = checkpoint.intent /\ v.decision = checkpoint.decision
    /\ checkpoint.evidence \subseteq v.evidence

Synced == \A c \in current : me[c].at # "idle" => Knows(me[c].view)

(* Whoever may reconcile holds the counter and the evidence of the row.    *)
Holding ==
    \A c \in current : checkpoint.phase = "reconciliation-required" =>
        me[c].at = "idle" /\ me[c].view.calls = checkpoint.calls /\ me[c].view.evidence = checkpoint.evidence

Executing ==
    \A c \in Controller : me[c].at = "execute" =>
        /\ me[c].view.iter = checkpoint.iter
        /\ checkpoint.phase \in {"pending-effect", "reconciliation-required", "terminal"}
        /\ checkpoint.phase # "terminal" => me[c].view.intent = checkpoint.intent
        /\ \A i \in Intent : dispatches[<<checkpoint.iter, i>>] = 0
        /\ \A d \in Controller : me[d].at = "execute" => d = c

Ahead ==
    \A k \in Iteration, i \in Intent : dispatches[<<k, i>>] > 0 =>
        \/ k < checkpoint.iter
        \/ /\ k = checkpoint.iter
           /\ \/ checkpoint.phase = "terminal"
              \/ /\ i = checkpoint.intent
                 /\ checkpoint.phase \in {"pending-effect", "reconciliation-required", "reconciled-effect"}

Once ==
    \A k \in Iteration, i \in Intent :
        /\ dispatches[<<k, i>>] <= 1
        /\ \A j \in Intent : dispatches[<<k, i>>] > 0 /\ dispatches[<<k, j>>] > 0 => i = j

Earned == checkpoint.decision = "accept" => checkpoint.iter \in Iteration /\ AcceptIsEarned

Row0 ==
    /\ checkpoint \in Rows /\ current \subseteq Controller
    /\ Lawful(checkpoint)
    /\ checkpoint.phase = "none" => checkpoint = NoRun

Effects == Executing /\ Ahead /\ Once /\ EffectIsApproved

Inv == Graphs /\ Worlds /\ Row0 /\ Processes /\ Synced /\ Holding /\ Effects /\ Earned /\ ResultIsReal

-------------------------------------------------------------------------------
(* What holds if cancel_run spares ended runs and reconcile_effect is      *)
(* called on the object that ran: every effect is counted before it        *)
(* happens, and nobody was told anything but the decision.                 *)
Dispatched == {o \in Operation : dispatches[o] > 0}
Paid ==
    /\ IsFiniteSet(Dispatched) /\ Cardinality(Dispatched) <= checkpoint.calls
    /\ \A c \in Controller : me[c].at = "execute" => Cardinality(Dispatched) < checkpoint.calls
Told == (checkpoint.phase # "terminal" => answers = {}) /\ AnswersAgree

Documented == ~AnyObjectReconciles /\ "terminal" \notin CancelFrom
DocInv == Paid /\ Told

-------------------------------------------------------------------------------
(* The calls a process plans are calls of the graph, and none but those of *)
(* a result claims a success.                                              *)
LEMMA FactsTyped ==
    /\ Blank \in Payloads /\ Done \in Payloads
    /\ Blank["success"] = "None" /\ Done["success"] = "True"
    /\ [Done EXCEPT !["passed"] = "True"] \in Payloads
    /\ [Blank EXCEPT !["success"] = "False"] \in Payloads
    /\ [Blank EXCEPT !["success"] = "False"]["success"] = "False"
    /\ \A r \in Rules : [Blank EXCEPT !["rule_index"] = r] \in Payloads
    /\ \A v \in {"true", "false"} : [Done EXCEPT !["approval_required"] = v] \in Payloads
BY DEF Blank, Done, Payloads, ControlFields, ControlValues

LEMMA NamedTyped ==
    /\ \A t \in Singles : The(t) \in Named
    /\ \A t \in {"action.rule", "approval.rule"}, r \in Rules : <<t, r>> \in Named
    /\ \A k \in DOMAIN PlanReceipt : <<"evaluator", k>> \in Named /\ <<"receipt", PlanReceipt[k]>> \in Named
    /\ \A g \in Guards : <<"criterion", g>> \in Named
BY DEF Named

LEMMA HeadOfOne == ASSUME NEW S, NEW s \in Seq(S), Len(s) = 1 PROVE Head(s) \in S
<1>1. s # <<>> OBVIOUS
<1> QED BY <1>1, HeadTailProperties

LEMMA EndsWithOne ==
    ASSUME NEW S, NEW s \in Seq(S), NEW t \in Seq(S), Len(t) = 1
    PROVE  s \o t \in Seq(S) /\ s \o t # <<>> /\ (s \o t)[Len(s \o t)] = t[1]
<1>1. Len(s) \in Nat OBVIOUS
<1>2. s \o t \in Seq(S) /\ Len(s \o t) = Len(s) + 1 BY ConcatProperties
<1>3. (s \o t)[Len(s) + 1] = t[1]
  <2>1. \A k \in 1..(Len(s) + Len(t)) : (s \o t)[k] = IF k <= Len(s) THEN s[k] ELSE t[k - Len(s)]
    BY ConcatProperties, Zenon
  <2>2. \A n \in Nat : n + 1 \in 1..(n + 1) /\ ~(n + 1 <= n) /\ (n + 1) - n = 1 OBVIOUS
  <2> QED BY <1>1, <2>1, <2>2
<1>4. s \o t # <<>>
  <2>1. Len(s) + 1 # 0 BY <1>1
  <2> QED BY <1>2, <2>1
<1> QED BY <1>2, <1>3, <1>4

LEMMA CallTyped ==
    ASSUME NEW op \in {"advance", "complete", "reserve", "finish"}, NEW n \in Named, NEW p \in Payloads
    PROVE  /\ Call(op, n, p) \in Seq(Calls) /\ Len(Call(op, n, p)) = 1
           /\ Call(op, n, p)[1] = [op |-> op, node |-> n, facts |-> p]
           /\ ~Claims([op |-> op, node |-> n, facts |-> p]) => Call(op, n, p) \in Seq(Harmless)
<1> DEFINE x == [op |-> op, node |-> n, facts |-> p]
<1>1. x \in Calls BY DEF Calls
<1>2. ~Claims(x) => x \in Harmless BY <1>1 DEF Harmless
<1> HIDE DEF x
<1>3. <<x>> \in Seq(Calls) /\ Len(<<x>>) = 1 /\ <<x>>[1] = x BY <1>1
<1>4. x \in Harmless => <<x>> \in Seq(Harmless) OBVIOUS
<1> QED BY <1>2, <1>3, <1>4 DEF Call, x

LEMMA Named1 ==
    ASSUME NEW op \in {"advance", "complete", "reserve", "finish"}, NEW n \in Named, NEW p \in Payloads,
           n # The("executor.result") \/ p["success"] # "True"
    PROVE  Call(op, n, p) \in Seq(Harmless)
BY CallTyped DEF Claims

LEMMA HarmlessIsCall == Harmless \subseteq Calls /\ Seq(Harmless) \subseteq Seq(Calls)
BY SeqMonotonic DEF Harmless

LEMMA Joins ==
    ASSUME NEW S, NEW s \in Seq(S), NEW t \in Seq(S)
    PROVE  s \o t \in Seq(S) /\ Len(s \o t) = Len(s) + Len(t)
BY ConcatProperties

LEMMA OpeningHarmless == ASSUME NEW k PROVE OpenIteration(k) \in Seq(Harmless)
<1>1. /\ Advance("task.contract", Blank) \in Seq(Harmless)
      /\ Complete(The("principal.contract"), Done) \in Seq(Harmless)
      /\ Advance("snapshot.request", Blank) \in Seq(Harmless)
  BY Named1, FactsTyped, NamedTyped DEF Advance, Complete, The, Singles
<1>2. <<>> \in Seq(Harmless) OBVIOUS
<1> QED BY <1>1, <1>2 DEF OpenIteration

LEMMA IntentHarmless ==
    ASSUME NEW i \in Intent
    PROVE  Advance("action.intent", [Blank EXCEPT !["rule_index"] = RuleOf[i]]) \in Seq(Harmless)
<1>1. RuleOf[i] \in Rules BY LoopAssumption
<1> QED BY <1>1, Named1, FactsTyped, NamedTyped DEF Advance, The, Singles

LEMMA AuthorityHarmless == ASSUME NEW i \in Intent PROVE Authority(i) \in Seq(Harmless)
<1> DEFINE v == IF Asks(i) THEN "true" ELSE "false"
           a1 == Complete(<<"action.rule", RuleOf[i]>>, Done)
           a2 == Advance("join.action.rule.any", Blank)
           a3 == Complete(The("policy.decision"), [Done EXCEPT !["approval_required"] = v])
           a4 == IF Asks(i) THEN Complete(<<"approval.rule", RuleOf[i]>>, Done) ELSE <<>>
           a5 == Advance("join.action.authority.any", Blank)
           a6 == Complete(The("capability.execute"), Done)
           a7 == Complete(The("operation.prepared"), Done)
<1>0. RuleOf[i] \in Rules BY LoopAssumption
<1>1. a1 \in Seq(Harmless) BY <1>0, Named1, FactsTyped, NamedTyped DEF Complete, The
<1>2. a2 \in Seq(Harmless) BY Named1, FactsTyped, NamedTyped DEF Advance, The, Singles
<1>3. a3 \in Seq(Harmless)
  <2>1. [Done EXCEPT !["approval_required"] = v] \in Payloads BY FactsTyped
  <2>2. The("policy.decision") \in Named /\ The("policy.decision") # The("executor.result")
    BY NamedTyped DEF The, Singles
  <2> QED BY <2>1, <2>2, Named1 DEF Complete
<1>4. a4 \in Seq(Harmless)
  <2>1. Complete(<<"approval.rule", RuleOf[i]>>, Done) \in Seq(Harmless)
    BY <1>0, Named1, FactsTyped, NamedTyped DEF Complete, The
  <2>2. <<>> \in Seq(Harmless) OBVIOUS
  <2> QED BY <2>1, <2>2
<1>5. a5 \in Seq(Harmless) BY Named1, FactsTyped, NamedTyped DEF Advance, The, Singles
<1>6. a6 \in Seq(Harmless) BY Named1, FactsTyped, NamedTyped DEF Complete, The, Singles
<1>7. a7 \in Seq(Harmless) BY Named1, FactsTyped, NamedTyped DEF Complete, The, Singles
<1>8. Authority(i) = a1 \o a2 \o a3 \o a4 \o a5 \o a6 \o a7 BY DEF Authority
<1> HIDE DEF a1, a2, a3, a4, a5, a6, a7
<1> QED BY <1>1, <1>2, <1>3, <1>4, <1>5, <1>6, <1>7, <1>8

LEMMA DispatchHarmless == Advance("executor.dispatch", Blank) \in Seq(Harmless)
BY Named1, FactsTyped, NamedTyped DEF Advance, The, Singles

LEMMA ResultTyped ==
    /\ Complete(The("executor.result"), Done) \o Complete(The("artifact.manifest"), Done) \in Seq(Calls)
    /\ Complete(The("executor.result"), [Blank EXCEPT !["success"] = "False"]) \in Seq(Harmless)
<1>1. /\ Complete(The("executor.result"), Done) \in Seq(Calls)
      /\ Complete(The("artifact.manifest"), Done) \in Seq(Calls)
  BY CallTyped, FactsTyped, NamedTyped DEF Complete, Singles
<1>2. Complete(The("executor.result"), [Blank EXCEPT !["success"] = "False"]) \in Seq(Harmless)
  BY Named1, FactsTyped, NamedTyped DEF Complete, Singles
<1> QED BY <1>1, <1>2

LEMMA PlansHarmless == PlanCalls \in Seq(Harmless)
<1>1. Plans \in Seq(DOMAIN PlanReceipt) BY LoopAssumption
<1>2. ASSUME NEW k \in 1..Len(Plans)
      PROVE  PlanCall(k) \in Seq(Harmless) /\ Len(PlanCall(k)) = 3
  <2> DEFINE b1 == Reserve(<<"evaluator", Plans[k]>>)
             b2 == Finish(<<"evaluator", Plans[k]>>, Done)
             b3 == Complete(<<"receipt", PlanReceipt[Plans[k]]>>, Done)
  <2>0. Plans[k] \in DOMAIN PlanReceipt BY <1>1
  <2>1. b1 \in Seq(Harmless) /\ Len(b1) = 1
    BY <2>0, Named1, CallTyped, FactsTyped, NamedTyped DEF Reserve, The
  <2>2. b2 \in Seq(Harmless) /\ Len(b2) = 1
    BY <2>0, Named1, CallTyped, FactsTyped, NamedTyped DEF Finish, The
  <2>3. b3 \in Seq(Harmless) /\ Len(b3) = 1
    BY <2>0, Named1, CallTyped, FactsTyped, NamedTyped DEF Complete, The
  <2>4. PlanCall(k) = b1 \o b2 \o b3 BY DEF PlanCall
  <2> HIDE DEF b1, b2, b3
  <2>5. b1 \o b2 \in Seq(Harmless) /\ Len(b1 \o b2) = Len(b1) + Len(b2) BY <2>1, <2>2, Joins
  <2>6. Len(b1 \o b2) = 2 BY <2>1, <2>2, <2>5
  <2>7. /\ (b1 \o b2) \o b3 \in Seq(Harmless)
        /\ Len((b1 \o b2) \o b3) = Len(b1 \o b2) + Len(b3)
    BY <2>3, <2>5, Joins
  <2>8. Len((b1 \o b2) \o b3) = 3 BY <2>3, <2>6, <2>7
  <2> QED BY <2>4, <2>7, <2>8
<1> DEFINE E(j) == PlanCall((j + 2) \div 3)[1 + ((j + 2) % 3)]
           n == 3 * Len(Plans)
<1>3. Len(Plans) \in Nat /\ n \in Nat BY <1>1
<1>4. ASSUME NEW j \in 1..n PROVE E(j) \in Harmless
  <2>1. (j + 2) \div 3 \in 1..Len(Plans) /\ 1 + ((j + 2) % 3) \in 1..3 BY <1>3
  <2> DEFINE k == (j + 2) \div 3
             q == 1 + ((j + 2) % 3)
  <2>2. k \in 1..Len(Plans) /\ q \in 1..3 BY <2>1
  <2> HIDE DEF k, q
  <2>3. PlanCall(k)[q] \in Harmless BY <2>2, <1>2, ElementOfSeq
  <2> QED BY <2>3 DEF k, q
<1> HIDE DEF E
<1>5. [j \in 1..n |-> E(j)] \in Seq(Harmless)
  <2>1. [j \in 1..n |-> E(j)] \in [1..n -> Harmless] BY <1>4
  <2> QED BY <2>1, <1>3, SeqDef
<1> QED BY <1>5 DEF PlanCalls, E

LEMMA EvaluationHarmless == Complete(The("snapshot.materialized"), Done) \o PlanCalls \in Seq(Harmless)
<1>1. Complete(The("snapshot.materialized"), Done) \in Seq(Harmless)
  BY Named1, FactsTyped, NamedTyped DEF Complete, The, Singles
<1> QED BY <1>1, PlansHarmless

AcceptCalls == CriterionCalls \o Advance("join.guards.all", Blank) \o Complete(The("decision.accept"), Done)

LEMMA AcceptHarmless ==
    /\ AcceptCalls \in Seq(Harmless) /\ AcceptCalls # <<>>
    /\ Decides(AcceptCalls[Len(AcceptCalls)])
<1>1. Criteria \in Seq(Guards) /\ Len(Criteria) \in Nat BY LoopAssumption
<1> DEFINE E(k) == Head(Complete(<<"criterion", Criteria[k]>>, [Done EXCEPT !["passed"] = "True"]))
           last == Complete(The("decision.accept"), Done)
           front == CriterionCalls \o Advance("join.guards.all", Blank)
<1>2. ASSUME NEW k \in 1..Len(Criteria) PROVE E(k) \in Harmless
  <2>1. Criteria[k] \in Guards BY <1>1
  <2> DEFINE h == Complete(<<"criterion", Criteria[k]>>, [Done EXCEPT !["passed"] = "True"])
  <2>2. h \in Seq(Harmless) /\ Len(h) = 1
    <3>1. <<"criterion", Criteria[k]>> \in Named BY <2>1, NamedTyped
    <3>2. <<"criterion", Criteria[k]>> # The("executor.result") BY DEF The
    <3>3. [Done EXCEPT !["passed"] = "True"] \in Payloads BY FactsTyped
    <3> HIDE DEF h
    <3>4. h = Call("complete", <<"criterion", Criteria[k]>>, [Done EXCEPT !["passed"] = "True"]) BY DEF h, Complete
    <3>5. h \in Seq(Harmless) BY <3>1, <3>2, <3>3, <3>4, Named1
    <3> QED BY <3>1, <3>3, <3>4, <3>5, CallTyped
  <2> HIDE DEF h
  <2>4. Head(h) \in Harmless BY <2>2, HeadOfOne
  <2> QED BY <2>4 DEF h
<1> HIDE DEF E
<1>3. CriterionCalls \in Seq(Harmless)
  <2>1. [k \in 1..Len(Criteria) |-> E(k)] \in [1..Len(Criteria) -> Harmless] BY <1>2
  <2>2. [k \in 1..Len(Criteria) |-> E(k)] \in Seq(Harmless) BY <2>1, <1>1, SeqDef
  <2> QED BY <2>2 DEF CriterionCalls, E
<1>4. Advance("join.guards.all", Blank) \in Seq(Harmless)
  BY Named1, FactsTyped, NamedTyped DEF Advance, The, Singles
<1>5. front \in Seq(Harmless) BY <1>3, <1>4
<1>6. last \in Seq(Harmless) /\ Len(last) = 1 /\ Decides(last[1])
  <2>1. The("decision.accept") \in Named /\ The("decision.accept") # The("executor.result")
    BY NamedTyped DEF The, Singles
  <2>2. Done \in Payloads BY FactsTyped
  <2>3. last[1] = [op |-> "complete", node |-> The("decision.accept"), facts |-> Done] /\ Len(last) = 1
    BY <2>1, <2>2, CallTyped DEF Complete
  <2>4. last \in Seq(Harmless) BY <2>1, <2>2, Named1 DEF Complete
  <2> HIDE DEF last
  <2> QED BY <2>3, <2>4 DEF Decides
<1>7. AcceptCalls = front \o last BY DEF AcceptCalls
<1> HIDE DEF front, last
<1>8. front \o last \in Seq(Harmless) /\ front \o last # <<>> /\ (front \o last)[Len(front \o last)] = last[1]
  BY <1>5, <1>6, EndsWithOne
<1> QED BY <1>6, <1>7, <1>8

-------------------------------------------------------------------------------
(* What every step leaves true: effects, outcomes, consumed approvals and  *)
(* completed nodes are never taken back.                                   *)
Grows ==
    /\ \A o \in Operation : dispatches[o] > 0 => dispatches'[o] > 0
    /\ \A o \in Operation : job[o] \in {"succeeded", "failed"} => job'[o] = job[o]
    /\ spent \subseteq spent'
    /\ \A k \in Iteration : done[k] \subseteq done'[k]

LEMMA BackedStays ==
    ASSUME Grows, NEW p \in Procs, Placed(p), Backed(p)
    PROVE  Backed(p)'
<1> DEFINE o == <<p.view.iter, p.view.intent>>
<1>1. Lawful(p.view)'
  <2>1. Lawful(p.view) BY DEF Backed
  <2>2. ASSUME p.view.phase = "reconciled-effect" PROVE o \in Operation
    BY <2>1, <2>2 DEF Lawful, Operation
  <2> QED BY <2>1, <2>2 DEF Lawful, Grows
<1>2. ASSUME p.at \in {"await", "result", "evaluating", "accept"} PROVE o \in Operation
  BY <1>2 DEF Backed, Lawful, Placed, Operation
<1>3. p.at = "accept" => p.view.iter \in Iteration BY DEF Placed
<1> HIDE DEF o
<1>4. /\ p.at \in {"prepared", "execute"} => (Asks(p.intent) => p.intent \in spent')
      /\ p.at \in {"await", "result", "evaluating", "accept"} => dispatches'[o] > 0
  BY <1>2 DEF Backed, Grows, o
<1>5. p.at \in {"result", "evaluating", "accept"} /\ Succeeded(p) => Succeeded(p)'
  BY <1>2 DEF Succeeded, Grows, o
<1>6. p.at = "accept" /\ AcceptAhead(p) => AcceptAhead(p)'
  BY <1>3 DEF AcceptAhead, Grows
<1> QED BY <1>1, <1>4, <1>5, <1>6 DEF Backed, Asks, o

(* One process moves to q, the others stay.                                *)
LEMMA ProcessesStep ==
    ASSUME Processes, Grows, NEW c \in Controller, NEW q \in Procs, me' = [me EXCEPT ![c] = q],
           Placed(q), Backed(q)'
    PROVE  Processes' /\ me'[c] = q /\ \A d \in Controller \ {c} : me'[d] = me[d]
<1>1. me \in [Controller -> Procs] BY DEF Processes
<1>2. /\ me' \in [Controller -> Procs] /\ me'[c] = q
      /\ \A d \in Controller \ {c} : me'[d] = me[d]
  BY <1>1
<1>3. ASSUME NEW d \in Controller PROVE Placed(me[d])' /\ Backed(me[d])'
  <2>1. CASE d = c BY <2>1, <1>2 DEF Placed
  <2>2. CASE d # c
    <3>1. me'[d] = me[d] BY <1>2, <2>2
    <3>2. me[d] \in Procs /\ Placed(me[d]) /\ Backed(me[d]) BY <1>1 DEF Processes
    <3>3. \A p \in Procs : Placed(p) /\ Backed(p) => Backed(p)' BY BackedStays
    <3>4. Backed(me[d])' BY <3>1, <3>2, <3>3
    <3>5. Placed(me[d])' BY <3>1, <3>2 DEF Placed
    <3> QED BY <3>4, <3>5
  <2> QED BY <2>1, <2>2
<1> QED BY <1>2, <1>3 DEF Processes

LEMMA ProcessesStand ==
    ASSUME Processes, Grows, me' = me
    PROVE  Processes'
<1>1. ASSUME NEW d \in Controller PROVE Placed(me[d])' /\ Backed(me[d])'
  <2>1. me[d] \in Procs /\ Placed(me[d]) /\ Backed(me[d]) BY DEF Processes
  <2>2. \A p \in Procs : Placed(p) /\ Backed(p) => Backed(p)' BY BackedStays
  <2>3. Backed(me[d])' BY <2>1, <2>2
  <2> QED BY <2>1, <2>3 DEF Placed
<1> QED BY <1>1 DEF Processes

(* What a row of the past says of outcomes stays so.                       *)
LEMMA LawfulStays == ASSUME Grows, NEW r \in Rows, Lawful(r) PROVE Lawful(r)'
<1>1. r.phase = "reconciled-effect" => <<r.iter, r.intent>> \in Operation BY DEF Lawful, Operation
<1> QED BY <1>1 DEF Lawful, Grows
-------------------------------------------------------------------------------
(* A step that leaves the row alone and dispatches nothing: all it has to  *)
(* account for is what the process that took it knows afterwards.          *)
LEMMA ReadingKeeps ==
    ASSUME Inv, NEW c \in Controller, NEW q \in Procs, me' = [me EXCEPT ![c] = q],
           Placed(q), Backed(q)', Grows, Graphs', Worlds', ResultIsReal',
           checkpoint' = checkpoint, dispatches' = dispatches, current' \subseteq current \cup {c},
           c \in current' => /\ q.at # "idle" => Knows(q.view)
                             /\ checkpoint.phase = "reconciliation-required" =>
                                    /\ q.at = "idle" /\ q.view.calls = checkpoint.calls
                                    /\ q.view.evidence = checkpoint.evidence,
           q.at = "execute" => me[c].at = "execute" /\ q.view = me[c].view
    PROVE  Inv'
<1>1. Processes' /\ me'[c] = q /\ \A d \in Controller \ {c} : me'[d] = me[d]
  BY ProcessesStep DEF Inv
<1>2. Row0'
  <2>1. Lawful(checkpoint)' BY LawfulStays DEF Inv, Row0
  <2> QED BY <2>1 DEF Inv, Row0
<1>3. current \subseteq Controller BY DEF Inv, Row0
<1>4. Synced'
  <2> SUFFICES ASSUME NEW d \in current', me'[d].at # "idle" PROVE Knows(me[d].view)'
    BY DEF Synced
  <2>1. CASE d = c BY <2>1, <1>1 DEF Knows
  <2>2. CASE d # c
    <3>1. d \in current /\ d \in Controller BY <2>2, <1>3
    <3>2. me'[d] = me[d] BY <3>1, <2>2, <1>1
    <3> QED BY <3>1, <3>2 DEF Inv, Synced, Knows
  <2> QED BY <2>1, <2>2
<1>5. Holding'
  <2> SUFFICES ASSUME NEW d \in current', checkpoint.phase = "reconciliation-required"
               PROVE  /\ me'[d].at = "idle" /\ me'[d].view.calls = checkpoint.calls
                      /\ me'[d].view.evidence = checkpoint.evidence
    BY DEF Holding
  <2>1. CASE d = c BY <2>1, <1>1
  <2>2. CASE d # c
    <3>1. d \in current /\ d \in Controller BY <2>2, <1>3
    <3>2. me'[d] = me[d] BY <3>1, <2>2, <1>1
    <3> QED BY <3>1, <3>2 DEF Inv, Holding
  <2> QED BY <2>1, <2>2
<1>6. Executing'
  <2>1. ASSUME NEW d \in Controller, me'[d].at = "execute"
        PROVE  me[d].at = "execute" /\ me'[d].view = me[d].view
    BY <2>1, <1>1
  <2> QED BY <2>1 DEF Inv, Effects, Executing
<1>7. Ahead' /\ Once' /\ EffectIsApproved'
  <2>1. Ahead' BY DEF Inv, Effects, Ahead
  <2>2. Once' BY DEF Inv, Effects, Once
  <2>3. EffectIsApproved' BY DEF Inv, Effects, EffectIsApproved, Grows, Asks
  <2> QED BY <2>1, <2>2, <2>3
<1>8. Earned'
  <2> SUFFICES ASSUME checkpoint.decision = "accept"
               PROVE  checkpoint.iter \in Iteration /\ AcceptIsEarned'
    BY DEF Earned
  <2>1. checkpoint.iter \in Iteration /\ AcceptIsEarned BY DEF Inv, Earned
  <2>2. PICK i \in Intent : job[<<checkpoint.iter, i>>] = "succeeded" BY <2>1 DEF AcceptIsEarned
  <2>3. job'[<<checkpoint.iter, i>>] = "succeeded" BY <2>1, <2>2 DEF Grows, Operation
  <2>4. done[checkpoint.iter] \subseteq done'[checkpoint.iter] BY <2>1 DEF Grows
  <2> QED BY <2>1, <2>3, <2>4 DEF AcceptIsEarned
<1> QED BY <1>1, <1>2, <1>4, <1>5, <1>6, <1>7, <1>8 DEF Inv, Effects

(* A running process goes on, or stops, without touching the row.          *)
LEMMA WalkKeeps ==
    ASSUME Inv, NEW c \in Controller, NEW q \in Procs, me' = [me EXCEPT ![c] = q],
           Placed(q), Backed(q)', Grows, Graphs', Worlds', ResultIsReal',
           checkpoint' = checkpoint, dispatches' = dispatches, current' \subseteq current,
           me[c].at # "idle",
           \/ q.at = "idle"
           \/ q.view = [me[c].view EXCEPT !.evidence = q.view.evidence] /\ me[c].view.evidence \subseteq q.view.evidence,
           q.at = "execute" => me[c].at = "execute" /\ q.view = me[c].view
    PROVE  Inv'
<1>1. ASSUME c \in current'
      PROVE  /\ q.at # "idle" => Knows(q.view)
             /\ checkpoint.phase # "reconciliation-required"
  <2>1. Knows(me[c].view) BY <1>1 DEF Inv, Synced
  <2>2. checkpoint.phase # "reconciliation-required" BY <1>1 DEF Inv, Holding
  <2>3. me[c].view \in Rows BY DEF Inv, Processes, Procs
  <2>4. ASSUME q.at # "idle" PROVE Knows(q.view)
    <3>1. /\ q.view = [me[c].view EXCEPT !.evidence = q.view.evidence]
          /\ me[c].view.evidence \subseteq q.view.evidence
      BY <2>4
    <3>2. /\ q.view.phase = me[c].view.phase /\ q.view.iter = me[c].view.iter
          /\ q.view.calls = me[c].view.calls /\ q.view.intent = me[c].view.intent
          /\ q.view.decision = me[c].view.decision
      BY <2>3, <3>1 DEF Rows
    <3> QED BY <2>1, <3>1, <3>2 DEF Knows
  <2> QED BY <2>2, <2>4
<1>2. current' \subseteq current \cup {c} OBVIOUS
<1> QED BY <1>1, <1>2, ReadingKeeps
-------------------------------------------------------------------------------
(* The graph calls of a process.                                           *)
LEMMA TodoKeeps ==
    ASSUME Inv, Grows, NEW c \in Controller, me[c].todo # <<>>, NEW t \in Seq(Calls),
           me[c].todo \in Seq(Harmless) => t \in Seq(Harmless),
           me[c].at = "accept" => \/ The("decision.accept") \in done'[Round(c)]
                                  \/ t # <<>> /\ Decides(t[Len(t)]),
           NEW q, q = [me[c] EXCEPT !.todo = t]
    PROVE  q \in Procs /\ Placed(q) /\ Backed(q)' /\ me[c].at # "idle"
<1>1. me[c] \in Procs /\ Placed(me[c]) /\ Backed(me[c]) BY DEF Inv, Processes
<1>2. PICK x \in Procs : x = me[c] BY <1>1
<1>3. /\ q \in Procs
      /\ q.at = x.at /\ q.view = x.view /\ q.intent = x.intent /\ q.obs = x.obs /\ q.todo = t
      /\ x.view.iter = Round(c)
  BY <1>2 DEF Procs, Round
<1>4. x.at \notin {"idle", "iterate"} BY <1>1, <1>2 DEF Placed
<1>5. Placed(q) BY <1>1, <1>2, <1>3, <1>4 DEF Placed
<1>6. Backed(x)' BY <1>1, <1>2, BackedStays
<1>7. q.at = "accept" => AcceptAhead(q)' BY <1>2, <1>3 DEF AcceptAhead
<1>8. q.todo \notin Seq(Harmless) => x.todo \notin Seq(Harmless) BY <1>2, <1>3
<1>9. Backed(q)' BY <1>3, <1>6, <1>7, <1>8 DEF Backed, Succeeded
<1> QED BY <1>2, <1>3, <1>4, <1>5, <1>9

(* What follows the call that is due.                                      *)
LEMMA TailTyped ==
    ASSUME NEW s \in Seq(Calls), s # <<>>
    PROVE  /\ Head(s) \in Calls /\ Tail(s) \in Seq(Calls)
           /\ s \in Seq(Harmless) => Head(s) \in Harmless /\ Tail(s) \in Seq(Harmless)
           /\ Tail(s) # <<>> => Tail(s)[Len(Tail(s))] = s[Len(s)]
           /\ Tail(s) = <<>> => s[Len(s)] = Head(s)
<1>1. Head(s) \in Calls /\ Tail(s) \in Seq(Calls) BY HeadTailProperties
<1>2. s \in Seq(Harmless) => Head(s) \in Harmless /\ Tail(s) \in Seq(Harmless) BY HeadTailProperties
<1>3. Len(s) \in Nat /\ Len(s) # 0 /\ Len(Tail(s)) = Len(s) - 1
  BY EmptySeq, HeadTailProperties, LenProperties
<1>4. \A i \in 1..(Len(s) - 1) : Tail(s)[i] = s[i + 1] BY <1>3, HeadTailProperties
<1>5. Tail(s) # <<>> => Len(Tail(s)) # 0 BY <1>1, EmptySeq
<1>6. Tail(s) # <<>> => Tail(s)[Len(Tail(s))] = s[Len(s)] BY <1>3, <1>4, <1>5
<1>7. Tail(s) = <<>> => Len(s) = 1
  <2> SUFFICES ASSUME Tail(s) = <<>> PROVE Len(s) = 1 OBVIOUS
  <2>1. Len(Tail(s)) = 0 BY EmptySeq
  <2> QED BY <1>3, <2>1
<1>8. Head(s) = s[1] BY <1>3
<1> QED BY <1>1, <1>2, <1>6, <1>7, <1>8

LEMMA TodoStepKeeps ==
    ASSUME Inv, Grows, NEW c \in Controller, me[c].todo # <<>>, NEW t \in Seq(Calls),
           me[c].todo \in Seq(Harmless) => t \in Seq(Harmless),
           me[c].at = "accept" => \/ The("decision.accept") \in done'[Round(c)]
                                  \/ t # <<>> /\ Decides(t[Len(t)]),
           me' = [me EXCEPT ![c].todo = t], Graphs', ResultIsReal', Unchanged
    PROVE  Inv'
<1>1. me \in [Controller -> Procs] BY DEF Inv, Processes
<1>2. PICK q : q = [me[c] EXCEPT !.todo = t] OBVIOUS
<1>3. q \in Procs /\ Placed(q) /\ Backed(q)' /\ me[c].at # "idle" BY <1>2, TodoKeeps
<1>4. me' = [me EXCEPT ![c] = q] BY <1>2
<1>5. Worlds' BY DEF Inv, Worlds, Unchanged, world
<1>6. /\ q.at = me[c].at /\ q.view = me[c].view
      /\ q.view = [me[c].view EXCEPT !.evidence = q.view.evidence]
  BY <1>1, <1>2 DEF Procs, Rows
<1>7. checkpoint' = checkpoint /\ current' = current /\ dispatches' = dispatches BY DEF Unchanged, world
<1> QED BY <1>3, <1>4, <1>5, <1>6, <1>7, WalkKeeps

LEMMA NextCallKeeps ==
    ASSUME Inv, Grows, NEW c \in Controller, me[c].todo # <<>>, me' = [me EXCEPT ![c].todo = Tail(@)],
           Due(c).op = "reserve" \/ Due(c).node \in done'[Round(c)],
           Graphs', ResultIsReal', Unchanged
    PROVE  Inv'
<1> DEFINE s == me[c].todo
           t == Tail(s)
<1>1. me \in [Controller -> Procs] /\ s \in Seq(Calls) BY DEF Inv, Processes, Procs
<1>2. /\ t \in Seq(Calls) /\ (s \in Seq(Harmless) => t \in Seq(Harmless))
      /\ t # <<>> => t[Len(t)] = s[Len(s)]
      /\ t = <<>> => s[Len(s)] = Head(s)
  BY <1>1, TailTyped
<1>3. ASSUME me[c].at = "accept"
      PROVE  The("decision.accept") \in done'[Round(c)] \/ (t # <<>> /\ Decides(t[Len(t)]))
  <2>1. AcceptAhead(me[c]) BY <1>3 DEF Inv, Processes, Backed
  <2>2. Round(c) \in Iteration BY <1>3 DEF Inv, Processes, Placed, Round
  <2>3. CASE The("decision.accept") \in done[Round(c)] BY <2>2, <2>3 DEF Grows
  <2>4. CASE Decides(s[Len(s)]) BY <2>4, <1>2 DEF Decides, Due
  <2> QED BY <2>1, <2>3, <2>4 DEF AcceptAhead, Round
<1>4. me' = [me EXCEPT ![c].todo = t] OBVIOUS
<1> HIDE DEF t
<1> QED BY <1>2, <1>3, <1>4, TodoStepKeeps

LEMMA DueTyped ==
    ASSUME Inv, NEW c \in Controller, me[c].todo # <<>>
    PROVE  /\ Round(c) \in Iteration /\ Due(c) \in Calls
           /\ Claims(Due(c)) => \E i \in Intent : job[<<Round(c), i>>] = "succeeded"
<1>1. me[c] \in Procs /\ Placed(me[c]) /\ Backed(me[c]) BY DEF Inv, Processes
<1>2. me[c].todo \in Seq(Calls) BY <1>1 DEF Procs
<1>3. Due(c) \in Calls /\ (me[c].todo \in Seq(Harmless) => Due(c) \in Harmless)
  BY <1>2, TailTyped DEF Due
<1>4. ASSUME Claims(Due(c)) PROVE \E i \in Intent : job[<<Round(c), i>>] = "succeeded"
  <2>1. me[c].todo \notin Seq(Harmless) BY <1>3, <1>4 DEF Harmless
  <2>2. Succeeded(me[c]) /\ me[c].at \in {"result", "evaluating", "accept"} BY <1>1, <2>1 DEF Backed
  <2>3. me[c].view.intent \in Intent BY <1>1, <2>2 DEF Placed, Backed, Lawful
  <2> QED BY <2>2, <2>3 DEF Succeeded, Round
<1> QED BY <1>1, <1>3, <1>4 DEF Placed, Round

LEMMA SettleKeeps ==
    ASSUME Inv, NEW c \in Controller, me[c].todo # <<>>, Settle(c, Due(c).node, Due(c).facts),
           Due(c).node \in ControlNodes, Unchanged
    PROVE  Grows /\ Graphs' /\ ResultIsReal' /\ Due(c).node \in done'[Round(c)]
<1> DEFINE n == Due(c).node
           p == Due(c).facts
           k == Round(c)
           e == The("executor.result")
<1>1. k \in Iteration /\ p \in Payloads BY DueTyped DEF Calls
<1>2. Graphs BY DEF Inv
<1>3. /\ done'  = [done EXCEPT ![k] = @ \cup {n}]
      /\ begun' = [begun EXCEPT ![k] = @ \ {n}]
      /\ facts' = [facts EXCEPT ![k][n] = p]
      /\ dispatches' = dispatches /\ job' = job /\ spent' = spent
  BY DEF Settle, Unchanged, world
<1>4. n = e /\ p["success"] = "True" => \E i \in Intent : job[<<k, i>>] = "succeeded"
  BY DueTyped DEF Claims
<1> HIDE DEF n, p, k
<1>5. Grows BY <1>1, <1>2, <1>3 DEF Grows, Graphs
<1>6. n \in ControlNodes BY DEF n
<1>7. Graphs'
  <2>1. /\ done' \in [Iteration -> SUBSET ControlNodes] /\ begun' \in [Iteration -> SUBSET ControlNodes]
        /\ \A j \in Iteration : done'[j] \cap begun'[j] = {}
    BY <1>1, <1>2, <1>3, <1>6 DEF Graphs
  <2>2. facts' \in [Iteration -> [ControlNodes -> Payloads \cup {Monitor!NoFacts}]]
    BY <1>1, <1>2, <1>3, <1>6 DEF Graphs
  <2> QED BY <2>1, <2>2 DEF Graphs
<1>8. ResultIsReal'
  <2> SUFFICES ASSUME NEW j \in Iteration, e \in done'[j], facts'[j][e]["success"] = "True"
               PROVE  \E i \in Intent : job[<<j, i>>] = "succeeded"
    BY <1>3 DEF ResultIsReal
  <2>1. CASE j = k /\ e = n BY <1>1, <1>2, <1>3, <1>4, <1>6, <2>1 DEF Graphs
  <2>2. CASE ~(j = k /\ e = n)
    <3>1. e \in done[j] /\ facts'[j][e] = facts[j][e] BY <1>1, <1>2, <1>3, <1>6, <2>2 DEF Graphs
    <3> QED BY <3>1 DEF Inv, ResultIsReal
  <2> QED BY <2>1, <2>2
<1>9. n \in done'[k] BY <1>1, <1>2, <1>3 DEF Graphs
<1> QED BY <1>5, <1>7, <1>8, <1>9 DEF n, k
LEMMA CanStartNode ==
    ASSUME NEW c \in Controller, CanStart(c)
    PROVE  /\ Due(c).node \in ControlNodes
           /\ Due(c).node \notin done[Round(c)] /\ Due(c).node \notin begun[Round(c)]
BY DEF CanStart, Monitor!Enabled

LEMMA Still ==
    ASSUME Inv, Unchanged, UNCHANGED graph
    PROVE  Grows /\ Graphs' /\ ResultIsReal' /\ Worlds'
<1>1. done' = done /\ begun' = begun /\ facts' = facts BY DEF graph
<1>2. /\ job' = job /\ dispatches' = dispatches /\ proposed' = proposed /\ fresh' = fresh /\ spent' = spent
      /\ answers' = answers
  BY DEF Unchanged, world
<1>3. Grows BY <1>1, <1>2 DEF Grows
<1>4. Graphs' BY <1>1 DEF Inv, Graphs
<1>5. ResultIsReal' BY <1>1, <1>2 DEF Inv, ResultIsReal
<1>6. Worlds' BY <1>2 DEF Inv, Worlds
<1> QED BY <1>3, <1>4, <1>5, <1>6

(* A process that stops keeps nothing; a new object.                       *)
LEMMA FreshTyped == Fresh \in Procs /\ Fresh.at = "idle" /\ Placed(Fresh) /\ Backed(Fresh)'
<1>0. MaxIterations \in Nat \ {0} /\ MaxToolCalls \in Nat BY LoopAssumption
<1>1. NoRun \in Rows
  <2>1. 1 \in 1..(MaxIterations + 1) /\ 0 \in 0..MaxToolCalls BY <1>0
  <2>2. "none" \in Phases /\ "none" \in Outcomes /\ "none" \in Reasons BY DEF Phases, Outcomes, Reasons
  <2>3. {} \in SUBSET Guards /\ NoIntent \in Intent \cup {NoIntent} OBVIOUS
  <2> QED BY <2>1, <2>2, <2>3 DEF NoRun, Rows
<1>2. Fresh \in Procs BY <1>1 DEF Fresh, Process, Procs, Labels, Outcomes
<1>3. /\ Fresh.at = "idle" /\ Fresh.todo = <<>> /\ Fresh.view = NoRun
      /\ NoRun.phase = "none" /\ NoRun.decision = "none"
  BY DEF Fresh, Process, NoRun
<1>4. Placed(Fresh) BY <1>3 DEF Placed
<1>5. PICK q : q = Fresh OBVIOUS
<1>6. Fresh' = Fresh BY DEF Fresh, Process, NoRun
<1>7. <<>> \in Seq(Harmless) OBVIOUS
<1>8. Backed(q)' BY <1>3, <1>5, <1>7 DEF Backed, Lawful
<1> QED BY <1>2, <1>3, <1>4, <1>5, <1>6, <1>8

(* A running process that stops, or only plans something else.             *)
LEMMA LocalKeeps ==
    ASSUME Inv, NEW c \in Controller, NEW q \in Procs, me' = [me EXCEPT ![c] = q],
           Placed(q), Grows => Backed(q)', me[c].at # "idle",
           q.at = "idle" \/ q.view = [me[c].view EXCEPT !.evidence = q.view.evidence],
           q.at = "idle" \/ me[c].view.evidence \subseteq q.view.evidence,
           q.at # "execute",
           Unchanged, UNCHANGED graph
    PROVE  Inv'
<1>1. Grows /\ Graphs' /\ ResultIsReal' /\ Worlds' BY Still
<1>2. checkpoint' = checkpoint /\ dispatches' = dispatches /\ current' = current BY DEF Unchanged, world
<1> QED BY <1>1, <1>2, WalkKeeps

LEMMA StopKeeps ==
    ASSUME Inv, NEW c \in Controller, me[c].at # "idle", me' = [me EXCEPT ![c] = Fresh],
           Unchanged, UNCHANGED graph
    PROVE  Inv'
<1>1. PICK q : q = Fresh OBVIOUS
<1>2. q \in Procs /\ q.at = "idle" /\ Placed(q) BY <1>1, FreshTyped
<1>3. Backed(q)'
  <2>1. Fresh' = Fresh BY DEF Fresh, Process, NoRun
  <2> QED BY <1>1, <2>1, FreshTyped
<1> QED BY <1>1, <1>2, <1>3, LocalKeeps

LEMMA GiveUpKeeps ==
    ASSUME Inv, NEW c \in Controller, me[c].todo # <<>>, GiveUp(c), Unchanged, UNCHANGED graph
    PROVE  Inv'
<1>1. me[c] \in Procs /\ Placed(me[c]) /\ Backed(me[c]) BY DEF Inv, Processes
<1>2. me[c].at # "idle" BY <1>1 DEF Placed
<1>3. CASE me[c].at # "evaluating" BY <1>2, <1>3, StopKeeps DEF GiveUp
<1>4. CASE me[c].at = "evaluating"
  <2>1. PICK x \in Procs : x = me[c] BY <1>1
  <2>2. PICK q : q = [x EXCEPT !.todo = <<>>, !.evaluated = FALSE] OBVIOUS
  <2>3. /\ q \in Procs /\ q.at = x.at /\ q.todo = <<>> /\ q.view = x.view /\ q.intent = x.intent
        /\ q.obs = x.obs
    <3>1. <<>> \in Seq(Calls) /\ FALSE \in BOOLEAN OBVIOUS
    <3> QED BY <2>1, <2>2, <3>1 DEF Procs
  <2>7. q.view = [x.view EXCEPT !.evidence = q.view.evidence] BY <2>3 DEF Procs, Rows
  <2>4. me' = [me EXCEPT ![c] = q] BY <1>4, <2>1, <2>2 DEF GiveUp
  <2>5. Placed(q) BY <1>1, <1>4, <2>1, <2>3 DEF Placed
  <2>6. Grows => Backed(q)'
    <3>1. <<>> \in Seq(Harmless) OBVIOUS
    <3>2. Grows => Backed(x)' BY <1>1, <2>1, BackedStays
    <3> QED BY <1>4, <2>1, <2>3, <3>1, <3>2 DEF Backed, Succeeded
  <2> QED BY <1>2, <1>4, <2>1, <2>3, <2>4, <2>5, <2>6, <2>7, LocalKeeps
<1> QED BY <1>3, <1>4

LEMMA GraphStepKeeps == ASSUME Inv, NEW c \in Controller, GraphStep(c) PROVE Inv'
<1> DEFINE k == Round(c)
           n == Due(c).node
<1>1. CASE AlreadyDone(c)
  <2>1. Unchanged /\ UNCHANGED graph /\ me[c].todo # <<>> BY <1>1 DEF AlreadyDone
  <2>2. n \in done'[k] BY <1>1 DEF AlreadyDone, graph
  <2> QED BY <1>1, <2>1, <2>2, Still, NextCallKeeps DEF AlreadyDone, NextCall
<1>2. CASE GraphAdvance(c)
  <2>1. n \in ControlNodes BY <1>2, CanStartNode DEF GraphAdvance
  <2> QED BY <1>2, <2>1, SettleKeeps, NextCallKeeps DEF GraphAdvance, NextCall
<1>3. CASE GraphReserve(c)
  <2>1. n \in ControlNodes /\ n \notin done[k] BY <1>3, CanStartNode DEF GraphReserve
  <2>2. k \in Iteration /\ Due(c) \in Calls BY <1>3, DueTyped DEF GraphReserve
  <2>3. /\ begun' = [begun EXCEPT ![k] = @ \cup {n}] /\ done' = done /\ facts' = facts
        /\ Unchanged /\ me[c].todo # <<>>
    BY <1>3 DEF GraphReserve
  <2>4. dispatches' = dispatches /\ job' = job /\ spent' = spent BY <2>3 DEF Unchanged, world
  <2>5. Grows BY <2>3, <2>4 DEF Grows
  <2>6. Graphs'
    <3> HIDE DEF k, n
    <3> QED BY <2>1, <2>2, <2>3 DEF Inv, Graphs
  <2>7. ResultIsReal' BY <2>3, <2>4 DEF Inv, ResultIsReal
  <2>8. CASE Due(c).op = "reserve"
    <3>1. me' = [me EXCEPT ![c].todo = Tail(@)] BY <1>3, <2>8 DEF GraphReserve
    <3> QED BY <2>3, <2>5, <2>6, <2>7, <2>8, <3>1, NextCallKeeps
  <2>9. CASE Due(c).op # "reserve"
    <3> DEFINE s == me[c].todo
               f == [op |-> "finish", node |-> n, facts |-> Due(c).facts]
               t == <<f>> \o Tail(s)
    <3>1. me \in [Controller -> Procs] /\ s \in Seq(Calls) /\ s # <<>> BY <2>3 DEF Inv, Processes, Procs
    <3>2. /\ Head(s) = Due(c) /\ Tail(s) \in Seq(Calls)
          /\ s \in Seq(Harmless) => Head(s) \in Harmless /\ Tail(s) \in Seq(Harmless)
          /\ Tail(s) # <<>> => Tail(s)[Len(Tail(s))] = s[Len(s)]
          /\ Tail(s) = <<>> => s[Len(s)] = Head(s)
      BY <3>1, TailTyped DEF Due
    <3>3. f \in Calls /\ (Due(c) \in Harmless => f \in Harmless) BY <2>2 DEF Calls, Harmless, Claims
    <3>4. Decides(Head(s)) => Decides(f) BY <2>2, <3>2 DEF Decides
    <3> HIDE DEF f
    <3>5. me' = [me EXCEPT ![c].todo = t] BY <1>3, <2>9 DEF GraphReserve, Finish, Call, f
    <3>6. <<f>> \in Seq(Calls) /\ Len(<<f>>) = 1 /\ <<f>>[1] = f BY <3>3
    <3>7. /\ t \in Seq(Calls) /\ Len(t) = 1 + Len(Tail(s)) /\ Len(Tail(s)) \in Nat
          /\ \A i \in 1..(1 + Len(Tail(s))) : t[i] = IF i <= 1 THEN f ELSE Tail(s)[i - 1]
      BY <3>2, <3>6, ConcatProperties, LenProperties
    <3>8. s \in Seq(Harmless) => t \in Seq(Harmless)
      <4> SUFFICES ASSUME s \in Seq(Harmless) PROVE t \in Seq(Harmless) OBVIOUS
      <4>1. <<f>> \in Seq(Harmless) BY <3>2, <3>3
      <4> QED BY <3>2, <4>1, ConcatProperties
    <3>9. t # <<>> /\ (Decides(s[Len(s)]) => Decides(t[Len(t)]))
      <4>1. CASE Tail(s) = <<>>
        <5>1. Len(Tail(s)) = 0 BY <4>1, EmptySeq
        <5>2. t[Len(t)] = f BY <3>7, <5>1
        <5> QED BY <3>2, <3>4, <4>1, <5>2
      <4>2. CASE Tail(s) # <<>>
        <5>1. Len(Tail(s)) # 0 BY <3>2, <4>2, EmptySeq
        <5>2. t[Len(t)] = Tail(s)[Len(Tail(s))] BY <3>7, <5>1
        <5> QED BY <3>2, <4>2, <5>2
      <4>3. t # <<>>
        <5>1. Len(t) # 0 BY <3>7
        <5> QED BY <3>7, <5>1, EmptySeq
      <4> QED BY <4>1, <4>2, <4>3
    <3>10. me[c].at = "accept" => \/ The("decision.accept") \in done'[k]
                                  \/ t # <<>> /\ Decides(t[Len(t)])
      BY <2>3, <3>9 DEF Inv, Processes, Backed, AcceptAhead, Round
    <3> HIDE DEF t
    <3> QED BY <2>3, <2>5, <2>6, <2>7, <3>5, <3>7, <3>8, <3>10, TodoStepKeeps
  <2> QED BY <2>8, <2>9
<1>4. CASE GraphFinish(c)
  <2>1. me[c].todo # <<>> /\ n \in begun[k] /\ Unchanged BY <1>4 DEF GraphFinish
  <2>2. n \in ControlNodes BY <2>1, DueTyped DEF Inv, Graphs
  <2> QED BY <1>4, <2>2, SettleKeeps, NextCallKeeps DEF GraphFinish, NextCall
<1>5. CASE GraphRejected(c) BY <1>5, GiveUpKeeps DEF GraphRejected
<1> QED BY <1>1, <1>2, <1>3, <1>4, <1>5 DEF GraphStep
-------------------------------------------------------------------------------
(* The steps of run() that write nothing but what the process holds.       *)
LEMMA IterateWalks ==
    ASSUME Inv, NEW c \in Controller, At(c, "iterate"), Round(c) <= MaxIterations,
           me' = [me EXCEPT ![c].at = "branch", ![c].todo = OpenIteration(Round(c))],
           Unchanged, UNCHANGED graph
    PROVE  Inv'
<1> DEFINE t == OpenIteration(Round(c))
<1>1. me \in [Controller -> Procs] /\ Placed(me[c]) /\ Backed(me[c]) BY DEF Inv, Processes
<1>2. PICK x \in Procs : x = me[c] BY <1>1
<1>3. t \in Seq(Harmless) /\ t \in Seq(Calls) BY OpeningHarmless, HarmlessIsCall
<1>4. PICK q : q = [x EXCEPT !.at = "branch", !.todo = t] OBVIOUS
<1> HIDE DEF t
<1>5. /\ q \in Procs /\ q.at = "branch" /\ q.todo = t /\ q.view = x.view /\ q.intent = x.intent
      /\ q.obs = x.obs
  BY <1>2, <1>3, <1>4 DEF Procs, Labels
<1>6. me' = [me EXCEPT ![c] = q] BY <1>1, <1>2, <1>4 DEF t
<1>7. x.at = "iterate" /\ x.view.iter \in Iteration
  <2>1. x.view.iter \in 1..(MaxIterations + 1) /\ x.view.iter <= MaxIterations
    BY <1>2 DEF Procs, Rows, Round
  <2>2. MaxIterations \in Nat BY LoopAssumption
  <2> QED BY <1>2, <2>1, <2>2 DEF At, Iteration
<1>8. Placed(q) BY <1>1, <1>2, <1>5, <1>7 DEF Placed
<1>9. Grows => Backed(q)'
  <2>1. Grows => Backed(x)' BY <1>1, <1>2, BackedStays
  <2> QED BY <1>3, <1>5, <2>1 DEF Backed
<1>10. q.view = [x.view EXCEPT !.evidence = q.view.evidence] BY <1>5 DEF Procs, Rows
<1> QED BY <1>2, <1>5, <1>6, <1>7, <1>8, <1>9, <1>10, LocalKeeps

LEMMA AdmitReconciledKeeps == ASSUME Inv, NEW c \in Controller, AdmitReconciled(c) PROVE Inv'
<1> DEFINE t == IF me[c].view.outcome = "succeeded"
                THEN Complete(The("executor.result"), Done) \o Complete(The("artifact.manifest"), Done)
                ELSE <<>>
<1>1. me \in [Controller -> Procs] /\ Placed(me[c]) /\ Backed(me[c]) BY DEF Inv, Processes
<1>2. PICK x \in Procs : x = me[c] BY <1>1
<1>3. t \in Seq(Calls) /\ (x.view.outcome # "succeeded" => t \in Seq(Harmless)) BY <1>2, ResultTyped
<1>4. PICK q : q = [x EXCEPT !.at = "result", !.obs = x.view.outcome, !.todo = t] OBVIOUS
<1> HIDE DEF t
<1>5. /\ q \in Procs /\ q.at = "result" /\ q.todo = t /\ q.view = x.view /\ q.intent = x.intent
      /\ q.obs = x.view.outcome
  <2>1. x.view.outcome \in Outcomes BY <1>2 DEF Procs, Rows
  <2> QED BY <1>2, <1>3, <1>4, <2>1 DEF Procs, Labels
<1>6. me' = [me EXCEPT ![c] = q] BY <1>1, <1>2, <1>4 DEF t, AdmitReconciled
<1>7. /\ x.at = "branch" /\ x.view.phase = "reconciled-effect" /\ Unchanged /\ UNCHANGED graph
  BY <1>2 DEF AdmitReconciled, At
<1>8. Placed(q) BY <1>1, <1>2, <1>5, <1>7 DEF Placed
<1>9. Backed(q)'
  <2>1. Lawful(x.view) BY <1>1, <1>2 DEF Backed
  <2>2. <<x.view.iter, x.view.intent>> \in Operation BY <1>7, <2>1 DEF Lawful, Operation
  <2>3. job[<<x.view.iter, x.view.intent>>] = x.view.outcome /\ x.view.outcome \in {"succeeded", "failed"}
    BY <1>7, <2>1 DEF Lawful
  <2>4. dispatches[<<x.view.iter, x.view.intent>>] > 0 BY <2>2, <2>3 DEF Inv, Worlds
  <2>5. job' = job /\ dispatches' = dispatches /\ spent' = spent BY <1>7 DEF Unchanged, world
  <2>6. Lawful(x.view)' BY <2>1, <2>5 DEF Lawful
  <2> QED BY <1>3, <1>5, <2>3, <2>4, <2>5, <2>6 DEF Backed, Succeeded
<1>10. q.view = [x.view EXCEPT !.evidence = q.view.evidence] BY <1>5 DEF Procs, Rows
<1> QED BY <1>2, <1>5, <1>6, <1>7, <1>8, <1>9, <1>10, LocalKeeps

LEMMA ResumeIntentKeeps == ASSUME Inv, NEW c \in Controller, ResumeIntent(c) PROVE Inv'
<1>1. me \in [Controller -> Procs] /\ Placed(me[c]) /\ Backed(me[c]) BY DEF Inv, Processes
<1>2. PICK x \in Procs : x = me[c] BY <1>1
<1>3. PICK q : q = [x EXCEPT !.at = "gate", !.intent = x.view.intent] OBVIOUS
<1>4. /\ q \in Procs /\ q.at = "gate" /\ q.todo = x.todo /\ q.view = x.view /\ q.intent = x.view.intent
  <2>1. x.view.intent \in Intent \cup {NoIntent} BY <1>2 DEF Procs, Rows
  <2> QED BY <1>2, <1>3, <2>1 DEF Procs, Labels
<1>5. me' = [me EXCEPT ![c] = q] BY <1>1, <1>2, <1>3 DEF ResumeIntent
<1>6. /\ x.at = "branch" /\ x.view.phase \in {"pending-authorization", "awaiting-approval"}
      /\ x.view.calls < MaxToolCalls /\ Unchanged /\ UNCHANGED graph
  <2>1. ~(x.view.calls >= MaxToolCalls) BY <1>2 DEF ResumeIntent, Spent
  <2>2. x.view.calls \in Int /\ MaxToolCalls \in Int BY <1>2, LoopAssumption DEF Procs, Rows
  <2> QED BY <1>2, <2>1, <2>2 DEF ResumeIntent, At
<1>7. Placed(q) BY <1>1, <1>2, <1>4, <1>6 DEF Placed
<1>8. Grows => Backed(q)'
  <2>1. Grows => Backed(x)' BY <1>1, <1>2, BackedStays
  <2> QED BY <1>4, <1>6, <2>1 DEF Backed
<1>9. q.view = [x.view EXCEPT !.evidence = q.view.evidence] BY <1>4 DEF Procs, Rows
<1> QED BY <1>2, <1>4, <1>5, <1>6, <1>7, <1>8, <1>9, LocalKeeps

LEMMA ProposeKeeps == ASSUME Inv, NEW c \in Controller, NEW i \in Intent, Propose(c, i) PROVE Inv'
<1> DEFINE t == Advance("action.intent", [Blank EXCEPT !["rule_index"] = RuleOf[i]])
<1>1. me \in [Controller -> Procs] /\ Placed(me[c]) /\ Backed(me[c]) BY DEF Inv, Processes
<1>2. PICK x \in Procs : x = me[c] BY <1>1
<1>3. t \in Seq(Harmless) /\ t \in Seq(Calls) BY IntentHarmless, HarmlessIsCall
<1>4. PICK q : q = [x EXCEPT !.at = "intent", !.intent = i, !.todo = t] OBVIOUS
<1> HIDE DEF t
<1>5. q \in Procs /\ q.at = "intent" /\ q.todo = t /\ q.view = x.view /\ q.intent = i
  BY <1>2, <1>3, <1>4 DEF Procs, Labels
<1>6. me' = [me EXCEPT ![c] = q] BY <1>1, <1>2, <1>4 DEF t, Propose
<1>7. /\ x.at = "branch" /\ x.view.phase = "ready" /\ x.view.calls < MaxToolCalls
      /\ proposed' = proposed \cup {i} /\ checkpoint' = checkpoint /\ current' = current
      /\ done' = done /\ begun' = begun /\ facts' = facts
      /\ job' = job /\ dispatches' = dispatches /\ fresh' = fresh /\ spent' = spent /\ answers' = answers
  <2>1. ~(x.view.calls >= MaxToolCalls) BY <1>2 DEF Propose, Spent
  <2>2. x.view.calls \in Int /\ MaxToolCalls \in Int BY <1>2, LoopAssumption DEF Procs, Rows
  <2> QED BY <1>2, <2>1, <2>2 DEF Propose, At, graph
<1>8. Placed(q) BY <1>1, <1>2, <1>5, <1>7 DEF Placed
<1>9. Grows BY <1>7 DEF Grows
<1>10. Backed(q)'
  <2>1. Backed(x)' BY <1>1, <1>2, <1>9, BackedStays
  <2> QED BY <1>3, <1>5, <2>1 DEF Backed
<1>11. q.view = [x.view EXCEPT !.evidence = q.view.evidence] BY <1>5 DEF Procs, Rows
<1>12. Graphs' /\ ResultIsReal' BY <1>7 DEF Inv, Graphs, ResultIsReal
<1>13. Worlds' BY <1>7 DEF Inv, Worlds
<1> QED BY <1>2, <1>5, <1>6, <1>7, <1>8, <1>9, <1>10, <1>11, <1>12, <1>13, WalkKeeps

LEMMA AuthorizeKeeps == ASSUME Inv, NEW c \in Controller, Authorize(c) PROVE Inv'
<1> DEFINE i == me[c].intent
           t == Authority(i)
<1>1. me \in [Controller -> Procs] /\ Placed(me[c]) /\ Backed(me[c]) BY DEF Inv, Processes
<1>2. PICK x \in Procs : x = me[c] BY <1>1
<1>3. /\ x.at = "gate" /\ checkpoint' = checkpoint /\ current' = current /\ proposed' = proposed
      /\ done' = done /\ begun' = begun /\ facts' = facts
      /\ job' = job /\ dispatches' = dispatches /\ answers' = answers
      /\ fresh' \subseteq fresh /\ spent' = (IF Asks(i) THEN spent \cup {i} ELSE spent)
  BY <1>2 DEF Authorize, At, graph
<1>4. i \in Intent BY <1>1, <1>2, <1>3 DEF Placed, Backed, Lawful
<1>5. t \in Seq(Harmless) /\ t \in Seq(Calls) BY <1>4, AuthorityHarmless, HarmlessIsCall
<1>6. PICK q : q = [x EXCEPT !.at = "prepared", !.todo = t] OBVIOUS
<1> HIDE DEF t
<1>7. q \in Procs /\ q.at = "prepared" /\ q.todo = t /\ q.view = x.view /\ q.intent = i
  BY <1>2, <1>5, <1>6 DEF Procs, Labels
<1>8. me' = [me EXCEPT ![c] = q] BY <1>1, <1>2, <1>6 DEF t, Authorize
<1> HIDE DEF i
<1>9. Placed(q) BY <1>1, <1>2, <1>3, <1>7 DEF Placed, i
<1>10. Grows BY <1>3 DEF Grows
<1>11. Backed(q)'
  <2>1. Backed(x)' BY <1>1, <1>2, <1>10, BackedStays
  <2>2. Asks(q.intent) => q.intent \in spent' BY <1>3, <1>7
  <2> QED BY <1>5, <1>7, <2>1, <2>2 DEF Backed, Asks
<1>12. q.view = [x.view EXCEPT !.evidence = q.view.evidence] BY <1>7 DEF Procs, Rows
<1>13. Graphs' /\ ResultIsReal' BY <1>3 DEF Inv, Graphs, ResultIsReal
<1>14. Worlds' BY <1>3, <1>4 DEF Inv, Worlds
<1> QED BY <1>2, <1>3, <1>7, <1>8, <1>9, <1>10, <1>11, <1>12, <1>13, <1>14, WalkKeeps
LEMMA ObserveResultKeeps == ASSUME Inv, NEW c \in Controller, ObserveResult(c) PROVE Inv'
<1> DEFINE out == job[<<Round(c), me[c].intent>>]
           t == IF out = "succeeded"
                THEN Complete(The("executor.result"), Done) \o Complete(The("artifact.manifest"), Done)
                ELSE Complete(The("executor.result"), [Blank EXCEPT !["success"] = "False"])
<1>1. me \in [Controller -> Procs] /\ Placed(me[c]) /\ Backed(me[c]) BY DEF Inv, Processes
<1>2. PICK x \in Procs : x = me[c] BY <1>1
<1>3. t \in Seq(Calls) /\ (out # "succeeded" => t \in Seq(Harmless)) BY ResultTyped, HarmlessIsCall
<1>4. PICK q : q = [x EXCEPT !.at = "result", !.obs = out, !.todo = t] OBVIOUS
<1>5. x.at = "await" /\ out \in {"succeeded", "failed"} /\ Unchanged /\ UNCHANGED graph
  BY <1>2 DEF ObserveResult, At
<1>6. me' = [me EXCEPT ![c] = q] BY <1>1, <1>2, <1>4 DEF ObserveResult
<1>7. out = job[<<x.view.iter, x.view.intent>>] BY <1>1, <1>2, <1>5 DEF Placed, Round
<1> HIDE DEF t, out
<1>8. q \in Procs /\ q.at = "result" /\ q.todo = t /\ q.view = x.view /\ q.intent = x.intent /\ q.obs = out
  <2>1. out \in Outcomes BY <1>5 DEF Outcomes
  <2> QED BY <1>2, <1>3, <1>4, <2>1 DEF Procs, Labels
<1>9. Placed(q) BY <1>1, <1>2, <1>5, <1>8 DEF Placed
<1>10. Backed(q)'
  <2>1. job' = job /\ dispatches' = dispatches /\ spent' = spent BY <1>5 DEF Unchanged, world
  <2>2. Lawful(x.view) /\ dispatches[<<x.view.iter, x.view.intent>>] > 0 BY <1>1, <1>2, <1>5 DEF Backed
  <2>3. Lawful(x.view)' BY <2>1, <2>2 DEF Lawful
  <2> QED BY <1>3, <1>7, <1>8, <2>1, <2>2, <2>3 DEF Backed, Succeeded
<1>11. q.view = [x.view EXCEPT !.evidence = q.view.evidence] BY <1>8 DEF Procs, Rows
<1> QED BY <1>2, <1>5, <1>6, <1>8, <1>9, <1>10, <1>11, LocalKeeps

LEMMA EvaluateKeeps == ASSUME Inv, NEW c \in Controller, Evaluate(c) PROVE Inv'
<1> DEFINE ok == me[c].obs = "succeeded"
           t == IF ok THEN Complete(The("snapshot.materialized"), Done) \o PlanCalls ELSE <<>>
<1>1. me \in [Controller -> Procs] /\ Placed(me[c]) /\ Backed(me[c]) BY DEF Inv, Processes
<1>2. PICK x \in Procs : x = me[c] BY <1>1
<1>3. t \in Seq(Harmless) /\ t \in Seq(Calls)
  <2>1. <<>> \in Seq(Harmless) OBVIOUS
  <2> QED BY <2>1, EvaluationHarmless, HarmlessIsCall
<1>4. PICK q : q = [x EXCEPT !.at = "evaluating", !.evaluated = ok, !.todo = t] OBVIOUS
<1>5. x.at = "result" /\ Unchanged /\ UNCHANGED graph BY <1>2 DEF Evaluate, At
<1>6. me' = [me EXCEPT ![c] = q] BY <1>1, <1>2, <1>4 DEF Evaluate
<1>7. ok \in BOOLEAN OBVIOUS
<1> HIDE DEF t, ok
<1>8. q \in Procs /\ q.at = "evaluating" /\ q.todo = t /\ q.view = x.view /\ q.intent = x.intent /\ q.obs = x.obs
  BY <1>2, <1>3, <1>4, <1>7 DEF Procs, Labels
<1>9. Placed(q) BY <1>1, <1>2, <1>5, <1>8 DEF Placed
<1>10. Grows => Backed(q)'
  <2>1. Grows => Backed(x)' BY <1>1, <1>2, BackedStays
  <2> QED BY <1>3, <1>5, <1>8, <2>1 DEF Backed, Succeeded
<1>11. q.view = [x.view EXCEPT !.evidence = q.view.evidence] BY <1>8 DEF Procs, Rows
<1> QED BY <1>2, <1>5, <1>6, <1>8, <1>9, <1>10, <1>11, LocalKeeps

LEMMA BeginAcceptKeeps == ASSUME Inv, NEW c \in Controller, BeginAccept(c) PROVE Inv'
<1>1. me \in [Controller -> Procs] /\ Placed(me[c]) /\ Backed(me[c]) BY DEF Inv, Processes
<1>2. PICK x \in Procs : x = me[c] BY <1>1
<1>3. PICK v : v = [x.view EXCEPT !.evidence = Guards] OBVIOUS
<1>4. PICK q : q = [x EXCEPT !.at = "accept", !.view = v, !.todo = AcceptCalls] OBVIOUS
<1>5. x.at = "evaluating" /\ x.obs = "succeeded" /\ Unchanged /\ UNCHANGED graph
  BY <1>2 DEF BeginAccept, At
<1>6. me' = [me EXCEPT ![c] = q] BY <1>1, <1>2, <1>3, <1>4 DEF BeginAccept, AcceptCalls
<1>7. /\ v \in Rows /\ v.phase = x.view.phase /\ v.iter = x.view.iter /\ v.calls = x.view.calls
      /\ v.intent = x.view.intent /\ v.outcome = x.view.outcome /\ v.decision = x.view.decision
      /\ v.evidence = Guards /\ x.view.evidence \subseteq Guards
  BY <1>2, <1>3 DEF Procs, Rows
<1>8. /\ q \in Procs /\ q.at = "accept" /\ q.todo = AcceptCalls /\ q.view = v /\ q.intent = x.intent
      /\ q.obs = x.obs
  BY <1>2, <1>4, <1>7, AcceptHarmless, HarmlessIsCall DEF Procs, Labels
<1>9. Placed(q) BY <1>1, <1>2, <1>5, <1>7, <1>8 DEF Placed
<1>10. Grows => Backed(q)'
  <2>1. Grows => Backed(x)' BY <1>1, <1>2, BackedStays
  <2>2. AcceptAhead(q)' BY <1>8, AcceptHarmless DEF AcceptAhead
  <2> QED BY <1>5, <1>7, <1>8, <2>1, <2>2, AcceptHarmless DEF Backed, Succeeded, Lawful
<1>11. q.view = [x.view EXCEPT !.evidence = q.view.evidence] BY <1>3, <1>7, <1>8
<1> QED BY <1>2, <1>5, <1>6, <1>7, <1>8, <1>9, <1>10, <1>11, LocalKeeps

LEMMA SaveConflictKeeps == ASSUME Inv, NEW c \in Controller, SaveConflict(c) PROVE Inv'
BY StopKeeps DEF SaveConflict, SavePoints

LEMMA EvaluationUnavailableKeeps == ASSUME Inv, NEW c \in Controller, EvaluationUnavailable(c) PROVE Inv'
BY GiveUpKeeps DEF EvaluationUnavailable

LEMMA CrashKeeps == ASSUME Inv, NEW c \in Controller, Crash(c) PROVE Inv'
<1>1. /\ checkpoint' = checkpoint /\ current' = current \ {c} /\ answers' = answers
      /\ done' = done /\ begun' = begun /\ facts' = facts /\ job' = job /\ dispatches' = dispatches
      /\ proposed' = proposed /\ fresh' = fresh /\ spent' = spent
  BY DEF Crash, graph, world
<1>2. PICK q : q = Fresh OBVIOUS
<1>3. me' = [me EXCEPT ![c] = q] BY <1>2 DEF Crash
<1>4. q \in Procs /\ q.at = "idle" /\ Placed(q) BY <1>2, FreshTyped
<1>5. Backed(q)'
  <2>1. Fresh' = Fresh BY DEF Fresh, Process, NoRun
  <2> QED BY <1>2, <2>1, FreshTyped
<1>6. Grows BY <1>1 DEF Grows
<1>7. Graphs' /\ ResultIsReal' BY <1>1 DEF Inv, Graphs, ResultIsReal
<1>8. Worlds' BY <1>1 DEF Inv, Worlds
<1>9. c \notin current' BY <1>1
<1> QED BY <1>1, <1>3, <1>4, <1>5, <1>6, <1>7, <1>8, <1>9, ReadingKeeps
-------------------------------------------------------------------------------
(* The calls that read the row into an object, and those that write it.    *)
LEMMA IdleTyped ==
    ASSUME NEW row \in Rows, NEW q, q = Idle(row)
    PROVE  /\ q \in Procs /\ q.at = "idle" /\ Placed(q) /\ Backed(q)'
           /\ q.view.calls = row.calls /\ q.view.evidence = row.evidence
<1>0. NoRun \in Rows
  <2>1. Fresh.view = NoRun BY DEF Fresh, Process
  <2> QED BY <2>1, FreshTyped DEF Procs
<1>1. PICK v : v = [NoRun EXCEPT !.calls = row.calls, !.evidence = row.evidence] OBVIOUS
<1>2. v \in Rows /\ v.calls = row.calls /\ v.evidence = row.evidence
  BY <1>0, <1>1 DEF Rows
<1>3. v.phase = "none" /\ v.decision = "none" BY <1>1 DEF NoRun
<1>4. /\ q \in Procs /\ q.at = "idle" /\ q.todo = <<>> /\ q.view = v
  <2>1. q = [at |-> "idle", todo |-> <<>>, view |-> v, intent |-> NoIntent, obs |-> "none", evaluated |-> FALSE]
    BY <1>1 DEF Idle, Process
  <2>2. <<>> \in Seq(Calls) /\ NoIntent \in Intent \cup {NoIntent} OBVIOUS
  <2> QED BY <1>2, <2>1, <2>2 DEF Procs, Labels, Outcomes
<1>5. Placed(q) BY <1>3, <1>4 DEF Placed
<1>6. <<>> \in Seq(Harmless) OBVIOUS
<1>7. Backed(q)' BY <1>3, <1>4, <1>6 DEF Backed, Lawful
<1> QED BY <1>2, <1>4, <1>5, <1>7

LEMMA ResumeRunKeeps == ASSUME Inv, NEW c \in Controller, ResumeRun(c) PROVE Inv'
<1>1. /\ checkpoint' = checkpoint /\ current' = current \cup {c} /\ answers' = answers
      /\ done' = done /\ begun' = begun /\ facts' = facts /\ job' = job /\ dispatches' = dispatches
      /\ proposed' = proposed /\ fresh' = fresh /\ spent' = spent
      /\ checkpoint.phase \in {"ready", "pending-authorization", "awaiting-approval", "reconciled-effect"}
  BY DEF ResumeRun, graph, world
<1>2. PICK v : v = checkpoint OBVIOUS
<1>3. PICK q : q = Process("iterate", v) OBVIOUS
<1>4. me' = [me EXCEPT ![c] = q] BY <1>2, <1>3 DEF ResumeRun
<1>5. v \in Rows /\ Lawful(v) BY <1>2 DEF Inv, Row0
<1>6. q \in Procs /\ q.at = "iterate" /\ q.todo = <<>> /\ q.view = v
  <2>1. <<>> \in Seq(Calls) /\ NoIntent \in Intent \cup {NoIntent} OBVIOUS
  <2> QED BY <1>3, <1>5, <2>1 DEF Process, Procs, Labels, Outcomes
<1>7. Placed(q) BY <1>1, <1>2, <1>6 DEF Placed
<1>8. Backed(q)'
  <2>1. <<>> \in Seq(Harmless) OBVIOUS
  <2>2. Lawful(v)' BY <1>1, <1>5 DEF Lawful
  <2> QED BY <1>6, <2>1, <2>2 DEF Backed
<1>9. Grows BY <1>1 DEF Grows
<1>10. Graphs' /\ ResultIsReal' BY <1>1 DEF Inv, Graphs, ResultIsReal
<1>11. Worlds' BY <1>1 DEF Inv, Worlds
<1>12. Knows(q.view) BY <1>2, <1>6 DEF Knows
<1> QED BY <1>1, <1>4, <1>6, <1>7, <1>8, <1>9, <1>10, <1>11, <1>12, ReadingKeeps

LEMMA LookKeeps ==
    ASSUME Inv, NEW c \in Controller, me' = [me EXCEPT ![c] = Idle(checkpoint)],
           current' = current \cup {c}, answers' \subseteq {"accept", "stop", "escalate"},
           UNCHANGED <<checkpoint, graph, world>>
    PROVE  Inv'
<1>1. /\ checkpoint' = checkpoint
      /\ done' = done /\ begun' = begun /\ facts' = facts /\ job' = job /\ dispatches' = dispatches
      /\ proposed' = proposed /\ fresh' = fresh /\ spent' = spent
  BY DEF graph, world
<1>2. PICK v : v = checkpoint OBVIOUS
<1>3. PICK q : q = Idle(v) OBVIOUS
<1>4. v \in Rows BY <1>2 DEF Inv, Row0
<1>5. me' = [me EXCEPT ![c] = q] BY <1>2, <1>3
<1>6. /\ q \in Procs /\ q.at = "idle" /\ Placed(q) /\ Backed(q)'
      /\ q.view.calls = v.calls /\ q.view.evidence = v.evidence
  BY <1>3, <1>4, IdleTyped
<1>7. Grows BY <1>1 DEF Grows
<1>8. Graphs' /\ ResultIsReal' BY <1>1 DEF Inv, Graphs, ResultIsReal
<1>9. Worlds' BY <1>1 DEF Inv, Worlds
<1> QED BY <1>1, <1>2, <1>5, <1>6, <1>7, <1>8, <1>9, ReadingKeeps

LEMMA StayBlockedKeeps == ASSUME Inv, NEW c \in Controller, StayBlocked(c) PROVE Inv'
<1>1. answers' \subseteq {"accept", "stop", "escalate"} BY DEF StayBlocked, Inv, Worlds
<1> QED BY <1>1, LookKeeps DEF StayBlocked

LEMMA ReturnDecisionKeeps == ASSUME Inv, NEW c \in Controller, ReturnDecision(c) PROVE Inv'
<1>1. checkpoint.decision \in {"accept", "stop", "escalate"}
  <2>1. checkpoint \in Rows /\ Lawful(checkpoint) /\ checkpoint.phase = "terminal"
    BY DEF Inv, Row0, ReturnDecision
  <2> QED BY <2>1 DEF Rows, Lawful
<1>2. answers' \subseteq {"accept", "stop", "escalate"} BY <1>1 DEF ReturnDecision, Inv, Worlds
<1> QED BY <1>2, LookKeeps DEF ReturnDecision

(* A step that writes the row.                                             *)
LEMMA WritingKeeps ==
    ASSUME Inv, NEW c \in Controller, NEW q \in Procs, me' = [me EXCEPT ![c] = q],
           Placed(q), Backed(q)', UNCHANGED <<graph, world>>,
           answers' \subseteq {"accept", "stop", "escalate"},
           checkpoint' \in Rows, Lawful(checkpoint)', checkpoint'.phase # "none", current' = {c},
           q.at # "idle" => q.view = checkpoint',
           checkpoint'.phase = "reconciliation-required" =>
               q.at = "idle" /\ q.view.calls = checkpoint'.calls /\ q.view.evidence = checkpoint'.evidence,
           Executing', Ahead', Earned'
    PROVE  Inv'
<1>1. /\ done' = done /\ begun' = begun /\ facts' = facts /\ job' = job /\ dispatches' = dispatches
      /\ proposed' = proposed /\ fresh' = fresh /\ spent' = spent
  BY DEF graph, world
<1>2. Grows BY <1>1 DEF Grows
<1>3. Graphs' /\ ResultIsReal' BY <1>1 DEF Inv, Graphs, ResultIsReal
<1>4. Worlds' BY <1>1 DEF Inv, Worlds
<1>5. Processes' /\ me'[c] = q BY <1>2, ProcessesStep DEF Inv
<1>6. Row0' BY DEF Row0
<1>7. Synced' BY <1>5 DEF Synced, Knows
<1>8. Holding' BY <1>5 DEF Holding
<1>9. Once' BY <1>1 DEF Inv, Effects, Once
<1>10. EffectIsApproved' BY <1>1 DEF Inv, Effects, EffectIsApproved, Asks
<1> QED BY <1>3, <1>4, <1>5, <1>6, <1>7, <1>8, <1>9, <1>10 DEF Inv, Effects

(* The same, while nobody is about to dispatch.                            *)
LEMMA QuietWritingKeeps ==
    ASSUME Inv, NEW c \in Controller, NEW q \in Procs, me' = [me EXCEPT ![c] = q],
           Placed(q), Backed(q)', UNCHANGED <<graph, world>>, answers' = answers,
           checkpoint' \in Rows, Lawful(checkpoint)', checkpoint'.phase \notin {"none", "terminal"},
           current' = {c},
           q.at # "idle" => q.view = checkpoint',
           checkpoint'.phase = "reconciliation-required" =>
               q.at = "idle" /\ q.view.calls = checkpoint'.calls /\ q.view.evidence = checkpoint'.evidence,
           \A d \in Controller : me[d].at # "execute", q.at # "execute", Ahead'
    PROVE  Inv'
<1>1. me'[c] = q /\ \A d \in Controller \ {c} : me'[d] = me[d] BY DEF Inv, Processes
<1>2. Executing' BY <1>1 DEF Executing
<1>3. Earned' BY DEF Earned, Lawful
<1>4. answers' \subseteq {"accept", "stop", "escalate"} BY DEF Inv, Worlds
<1> QED BY <1>2, <1>3, <1>4, WritingKeeps
LEMMA StartRunKeeps == ASSUME Inv, NEW c \in Controller, StartRun(c) PROVE Inv'
<1>1. /\ checkpoint' = [NoRun EXCEPT !.phase = "ready"] /\ current' = {c} /\ answers' = answers
      /\ UNCHANGED <<graph, world>> /\ dispatches' = dispatches /\ checkpoint.phase = "none"
  BY DEF StartRun, world
<1>2. checkpoint = NoRun /\ NoRun \in Rows BY <1>1 DEF Inv, Row0
<1>3. PICK v : v = checkpoint' OBVIOUS
<1>4. v \in Rows BY <1>1, <1>2, <1>3 DEF Rows, Phases
<1>5. v.phase = "ready" /\ v.iter = 1 /\ v.decision = "none" BY <1>1, <1>3 DEF NoRun
<1>6. PICK q : q = Process("iterate", v) OBVIOUS
<1>7. me' = [me EXCEPT ![c] = q] BY <1>3, <1>6 DEF StartRun
<1>8. q \in Procs /\ q.at = "iterate" /\ q.todo = <<>> /\ q.view = v
  <2>1. <<>> \in Seq(Calls) /\ NoIntent \in Intent \cup {NoIntent} OBVIOUS
  <2> QED BY <1>4, <1>6, <2>1 DEF Process, Procs, Labels, Outcomes
<1>9. Placed(q) BY <1>5, <1>8 DEF Placed
<1>10. Lawful(v)' BY <1>5 DEF Lawful
<1>11. Backed(q)'
  <2>1. <<>> \in Seq(Harmless) OBVIOUS
  <2> QED BY <1>8, <1>10, <2>1 DEF Backed
<1>12. Lawful(checkpoint)' BY <1>3, <1>5 DEF Lawful
<1>13. \A d \in Controller : me[d].at # "execute" BY <1>1 DEF Inv, Effects, Executing
<1>14. Ahead'
  <2>1. checkpoint.iter = 1 /\ checkpoint'.iter = 1 BY <1>2, <1>3, <1>5 DEF NoRun
  <2> QED BY <1>1, <2>1 DEF Inv, Effects, Ahead
<1> QED BY <1>1, <1>3, <1>4, <1>5, <1>7, <1>8, <1>9, <1>11, <1>12, <1>13, <1>14, QuietWritingKeeps

LEMMA BlockOnEffectKeeps == ASSUME Inv, NEW c \in Controller, BlockOnEffect(c) PROVE Inv'
<1>1. /\ checkpoint' = [checkpoint EXCEPT !.phase = "reconciliation-required"] /\ current' = {c}
      /\ answers' = answers /\ UNCHANGED <<graph, world>> /\ dispatches' = dispatches
      /\ checkpoint.phase = "pending-effect" /\ me[c].at = "idle"
  BY DEF BlockOnEffect, At, world
<1>2. PICK v \in Rows : v = checkpoint BY DEF Inv, Row0
<1>3. PICK q : q = Idle(v) OBVIOUS
<1>4. me' = [me EXCEPT ![c] = q] BY <1>2, <1>3 DEF BlockOnEffect
<1>5. /\ q \in Procs /\ q.at = "idle" /\ Placed(q) /\ Backed(q)'
      /\ q.view.calls = v.calls /\ q.view.evidence = v.evidence
  BY <1>3, IdleTyped
<1>6. /\ checkpoint' \in Rows /\ checkpoint'.phase = "reconciliation-required"
      /\ checkpoint'.iter = v.iter /\ checkpoint'.calls = v.calls /\ checkpoint'.intent = v.intent
      /\ checkpoint'.evidence = v.evidence /\ checkpoint'.decision = v.decision
  BY <1>1, <1>2 DEF Rows, Phases
<1>7. Lawful(checkpoint)'
  <2>1. Lawful(v) BY <1>2 DEF Inv, Row0
  <2> QED BY <1>1, <1>2, <1>6, <2>1 DEF Lawful
<1>8. me'[c] = q /\ \A d \in Controller \ {c} : me'[d] = me[d] BY <1>4 DEF Inv, Processes
<1>9. Executing'
  <2>1. ASSUME NEW d \in Controller, me'[d].at = "execute" PROVE d # c /\ me'[d] = me[d]
    BY <2>1, <1>5, <1>8
  <2> QED BY <1>1, <1>2, <1>6, <2>1 DEF Inv, Effects, Executing
<1>10. Ahead' BY <1>1, <1>2, <1>6 DEF Inv, Effects, Ahead
<1>11. Earned' BY <1>6, <1>7 DEF Earned, Lawful
<1>12. answers' \subseteq {"accept", "stop", "escalate"} BY <1>1 DEF Inv, Worlds
<1> QED BY <1>1, <1>2, <1>4, <1>5, <1>6, <1>7, <1>9, <1>10, <1>11, <1>12, WritingKeeps

(* What a process that can save knows, and is.                             *)
LEMMA Loaded ==
    ASSUME Inv, NEW c \in Controller, c \in current, me[c].at # "idle"
    PROVE  /\ me \in [Controller -> Procs] /\ me[c] \in Procs /\ Placed(me[c]) /\ Backed(me[c])
           /\ Knows(me[c].view) /\ checkpoint.phase # "reconciliation-required"
BY DEF Inv, Processes, Synced, Holding

LEMMA PersistIntentKeeps == ASSUME Inv, NEW c \in Controller, PersistIntent(c) PROVE Inv'
<1> DEFINE i == me[c].intent
<1>1. c \in current /\ me[c].at = "intent" /\ me[c].todo = <<>>
  BY DEF PersistIntent, At, Proceed, Save
<1>2. /\ me \in [Controller -> Procs] /\ Placed(me[c]) /\ Backed(me[c]) /\ Knows(me[c].view)
  BY <1>1, Loaded
<1>3. PICK x \in Procs : x = me[c] BY <1>2
<1>4. x.view.phase = "ready" /\ x.view.iter \in Iteration /\ x.view.calls < MaxToolCalls /\ i \in Intent
  BY <1>1, <1>2, <1>3 DEF Placed
<1>5. PICK v : v = Row(c, "pending-authorization", i) OBVIOUS
<1> HIDE DEF i
<1>6. /\ v \in Rows /\ v.phase = "pending-authorization" /\ v.intent = i /\ v.iter = x.view.iter
      /\ v.calls = x.view.calls /\ v.decision = x.view.decision
  BY <1>3, <1>4, <1>5 DEF Row, Procs, Rows, Phases, Outcomes
<1>7. PICK q : q = [x EXCEPT !.view = v, !.at = "gate", !.todo = <<>>] OBVIOUS
<1>8. /\ checkpoint' = v /\ current' = {c} /\ answers' = answers /\ UNCHANGED <<graph, world>>
      /\ dispatches' = dispatches /\ me' = [me EXCEPT ![c] = q]
  BY <1>3, <1>5, <1>7 DEF PersistIntent, Proceed, Save, world, i
<1>9. q \in Procs /\ q.at = "gate" /\ q.todo = <<>> /\ q.view = v /\ q.intent = i
  <2>1. <<>> \in Seq(Calls) OBVIOUS
  <2> QED BY <1>3, <1>6, <1>7, <2>1 DEF Procs, Labels, i
<1>10. Placed(q) BY <1>4, <1>6, <1>9 DEF Placed
<1>11. x.view.decision = "none" BY <1>2, <1>3, <1>4 DEF Backed, Lawful
<1>12. Lawful(v)' /\ Lawful(checkpoint)' BY <1>4, <1>6, <1>8, <1>11 DEF Lawful
<1>13. Backed(q)'
  <2>1. <<>> \in Seq(Harmless) OBVIOUS
  <2> QED BY <1>9, <1>12, <2>1 DEF Backed
<1>14. checkpoint.phase = "ready" /\ checkpoint.iter = v.iter BY <1>2, <1>3, <1>4, <1>6 DEF Knows
<1>15. \A d \in Controller : me[d].at # "execute" BY <1>14 DEF Inv, Effects, Executing
<1>16. Ahead' BY <1>8, <1>14 DEF Inv, Effects, Ahead
<1> QED BY <1>6, <1>8, <1>9, <1>10, <1>12, <1>13, <1>15, <1>16, QuietWritingKeeps

LEMMA AwaitApprovalKeeps == ASSUME Inv, NEW c \in Controller, AwaitApproval(c) PROVE Inv'
<1> DEFINE i == me[c].intent
<1>1. c \in current /\ me[c].at = "gate" BY DEF AwaitApproval, At, Save
<1>2. /\ me \in [Controller -> Procs] /\ Placed(me[c]) /\ Backed(me[c]) /\ Knows(me[c].view)
  BY <1>1, Loaded
<1>3. PICK x \in Procs : x = me[c] BY <1>2
<1>4. /\ x.view.phase \in {"pending-authorization", "awaiting-approval"} /\ i = x.view.intent
      /\ x.view.iter \in Iteration
  BY <1>1, <1>2, <1>3 DEF Placed
<1>5. x.view.intent \in Intent /\ x.view.decision = "none" BY <1>2, <1>3, <1>4 DEF Backed, Lawful
<1>6. PICK v : v = Row(c, "awaiting-approval", i) OBVIOUS
<1> HIDE DEF i
<1>7. /\ v \in Rows /\ v.phase = "awaiting-approval" /\ v.intent = i /\ v.iter = x.view.iter
      /\ v.calls = x.view.calls /\ v.decision = "none"
  BY <1>3, <1>4, <1>5, <1>6 DEF Row, Procs, Rows, Phases, Outcomes
<1>8. PICK q : q = Idle(x.view) OBVIOUS
<1>9. /\ checkpoint' = v /\ current' = {c} /\ answers' = answers /\ UNCHANGED <<graph, world>>
      /\ dispatches' = dispatches /\ me' = [me EXCEPT ![c] = q]
  BY <1>3, <1>6, <1>8 DEF AwaitApproval, Save, Return, world, i
<1>10. q \in Procs /\ q.at = "idle" /\ Placed(q) /\ Backed(q)'
  <2>1. x.view \in Rows BY DEF Procs
  <2> QED BY <1>8, <2>1, IdleTyped
<1>11. Lawful(checkpoint)' BY <1>4, <1>5, <1>7, <1>9 DEF Lawful
<1>12. checkpoint.phase \in {"pending-authorization", "awaiting-approval"} /\ checkpoint.iter = v.iter
  BY <1>2, <1>3, <1>4, <1>7 DEF Knows
<1>13. \A d \in Controller : me[d].at # "execute" BY <1>12 DEF Inv, Effects, Executing
<1>14. Ahead' BY <1>9, <1>12 DEF Inv, Effects, Ahead
<1> QED BY <1>7, <1>9, <1>10, <1>11, <1>13, <1>14, QuietWritingKeeps
(* The effect checkpoint: nothing was dispatched in this iteration yet,    *)
(* nobody else is about to, and from now on nobody else can be.            *)
LEMMA PersistEffectKeeps == ASSUME Inv, NEW c \in Controller, PersistEffect(c) PROVE Inv'
<1> DEFINE i == me[c].intent
           t == Advance("executor.dispatch", Blank)
<1>1. c \in current /\ me[c].at = "prepared" BY DEF PersistEffect, At, Proceed, Save
<1>2. /\ me \in [Controller -> Procs] /\ Placed(me[c]) /\ Backed(me[c]) /\ Knows(me[c].view)
  BY <1>1, Loaded
<1>3. PICK x \in Procs : x = me[c] BY <1>2
<1>4. /\ x.view.phase \in {"pending-authorization", "awaiting-approval"} /\ i = x.view.intent
      /\ x.view.iter \in Iteration /\ x.view.calls < MaxToolCalls
      /\ (Asks(i) => i \in spent)
  BY <1>1, <1>2, <1>3 DEF Placed, Backed
<1>5. x.view.intent \in Intent /\ x.view.decision = "none" BY <1>2, <1>3, <1>4 DEF Backed, Lawful
<1>6. PICK v : v = [Row(c, "pending-effect", i) EXCEPT !.calls = @ + 1] OBVIOUS
<1> HIDE DEF i
<1>7. /\ v \in Rows /\ v.phase = "pending-effect" /\ v.intent = i /\ v.iter = x.view.iter
      /\ v.calls = x.view.calls + 1 /\ v.decision = "none"
  <2>1. PICK w : w = Row(c, "pending-effect", i) OBVIOUS
  <2>2. /\ w \in Rows /\ w.phase = "pending-effect" /\ w.intent = i /\ w.iter = x.view.iter
        /\ w.calls = x.view.calls /\ w.decision = "none"
    BY <1>3, <1>4, <1>5, <2>1 DEF Row, Procs, Rows, Phases, Outcomes
  <2>3. x.view.calls + 1 \in 0..MaxToolCalls
    <3>1. x.view.calls \in 0..MaxToolCalls /\ MaxToolCalls \in Nat BY LoopAssumption DEF Procs, Rows
    <3> QED BY <1>4, <3>1
  <2>4. v = [w EXCEPT !.calls = w.calls + 1] BY <1>6, <2>1
  <2> QED BY <2>2, <2>3, <2>4 DEF Rows
<1>8. PICK q : q = [x EXCEPT !.view = v, !.at = "execute", !.todo = t] OBVIOUS
<1>9. t \in Seq(Harmless) /\ t \in Seq(Calls) BY DispatchHarmless, HarmlessIsCall
<1>10. /\ checkpoint' = v /\ current' = {c} /\ answers' = answers /\ UNCHANGED <<graph, world>>
       /\ dispatches' = dispatches /\ spent' = spent /\ me' = [me EXCEPT ![c] = q]
  BY <1>3, <1>6, <1>8 DEF PersistEffect, Proceed, Save, world, i
<1> HIDE DEF t
<1>11. q \in Procs /\ q.at = "execute" /\ q.todo = t /\ q.view = v /\ q.intent = i
  BY <1>3, <1>7, <1>8, <1>9 DEF Procs, Labels, i
<1>12. Placed(q) BY <1>4, <1>7, <1>11 DEF Placed
<1>13. Lawful(v)' /\ Lawful(checkpoint)' BY <1>4, <1>5, <1>7, <1>10 DEF Lawful
<1>14. Backed(q)' BY <1>4, <1>9, <1>10, <1>11, <1>13 DEF Backed, Asks
<1>15. checkpoint.phase \in {"pending-authorization", "awaiting-approval"} /\ checkpoint.iter = v.iter
  BY <1>2, <1>3, <1>4, <1>7 DEF Knows
<1>16. \A d \in Controller : me[d].at # "execute" BY <1>15 DEF Inv, Effects, Executing
<1>17. v.iter \in Iteration /\ v.iter \in Int
  <2>1. v.iter \in Iteration BY <1>4, <1>7
  <2> QED BY <2>1 DEF Iteration
<1>18. \A j \in Intent : dispatches[<<v.iter, j>>] = 0
  <2> SUFFICES ASSUME NEW j \in Intent PROVE dispatches[<<v.iter, j>>] = 0 OBVIOUS
  <2>1. dispatches[<<v.iter, j>>] \in Nat BY <1>17 DEF Inv, Worlds, Operation
  <2>2. ~(dispatches[<<v.iter, j>>] > 0) BY <1>15, <1>17 DEF Inv, Effects, Ahead
  <2> QED BY <2>1, <2>2
<1>19. me'[c] = q /\ \A d \in Controller \ {c} : me'[d] = me[d] BY <1>2, <1>10
<1>20. Executing'
  <2>1. ASSUME NEW d \in Controller, me'[d].at = "execute" PROVE d = c BY <2>1, <1>16, <1>19
  <2>2. c \in Controller /\ me'[c].view = v BY <1>11, <1>19
  <2> QED BY <1>7, <1>10, <1>18, <2>1, <2>2 DEF Executing
<1>21. Ahead' BY <1>10, <1>15 DEF Inv, Effects, Ahead
<1>22. Earned' BY <1>7, <1>10 DEF Earned
<1>23. answers' \subseteq {"accept", "stop", "escalate"} BY <1>10 DEF Inv, Worlds
<1> QED BY <1>7, <1>10, <1>11, <1>12, <1>13, <1>14, <1>20, <1>21, <1>22, <1>23, WritingKeeps

LEMMA GatheredTyped ==
    ASSUME NEW c \in Controller, me[c] \in Procs, NEW e \in Gathered(c)
    PROVE  e \in SUBSET Guards /\ me[c].view.evidence \subseteq e
BY LoopAssumption DEF Gathered, Provable, Procs, Rows

LEMMA NextRoundKeeps == ASSUME Inv, NEW c \in Controller, NEW e \in SUBSET Guards, NextRound(c, e) PROVE Inv'
<1>1. c \in current /\ me[c].at = "evaluating" /\ me[c].todo = <<>> BY DEF NextRound, At, Proceed, Save
<1>2. /\ me \in [Controller -> Procs] /\ Placed(me[c]) /\ Backed(me[c]) /\ Knows(me[c].view)
  BY <1>1, Loaded
<1>3. PICK x \in Procs : x = me[c] BY <1>2
<1>4. x.view.phase \in {"pending-effect", "reconciled-effect"} /\ x.view.iter \in Iteration
  BY <1>1, <1>2, <1>3 DEF Placed
<1>5. /\ x.view.intent \in Intent /\ x.view.decision = "none"
      /\ dispatches[<<x.view.iter, x.view.intent>>] > 0
  BY <1>1, <1>2, <1>3, <1>4 DEF Backed, Lawful
<1>6. PICK w : w = Row(c, "ready", NoIntent) OBVIOUS
<1>7. PICK v : v = [w EXCEPT !.iter = w.iter + 1, !.evidence = e] OBVIOUS
<1>8. /\ w \in Rows /\ w.phase = "ready" /\ w.iter = x.view.iter /\ w.decision = "none"
      /\ w.calls = x.view.calls
  BY <1>3, <1>4, <1>5, <1>6 DEF Row, Procs, Rows, Phases, Outcomes
<1>9. x.view.iter + 1 \in 1..(MaxIterations + 1) /\ x.view.iter \in Int
  <2>1. x.view.iter \in 1..MaxIterations /\ MaxIterations \in Nat BY <1>4, LoopAssumption DEF Iteration
  <2> QED BY <2>1
<1>10. /\ v \in Rows /\ v.phase = "ready" /\ v.iter = x.view.iter + 1 /\ v.decision = "none"
  BY <1>7, <1>8, <1>9 DEF Rows
<1>11. PICK q : q = [x EXCEPT !.view = v, !.at = "iterate", !.todo = <<>>] OBVIOUS
<1>12. /\ checkpoint' = v /\ current' = {c} /\ answers' = answers /\ UNCHANGED <<graph, world>>
       /\ dispatches' = dispatches /\ me' = [me EXCEPT ![c] = q]
  BY <1>3, <1>6, <1>7, <1>11 DEF NextRound, Proceed, Save, world
<1>13. q \in Procs /\ q.at = "iterate" /\ q.todo = <<>> /\ q.view = v
  <2>1. <<>> \in Seq(Calls) OBVIOUS
  <2> QED BY <1>3, <1>10, <1>11, <2>1 DEF Procs, Labels
<1>14. Placed(q) BY <1>10, <1>13 DEF Placed
<1>15. Lawful(v)' /\ Lawful(checkpoint)' BY <1>10, <1>12 DEF Lawful
<1>16. Backed(q)'
  <2>1. <<>> \in Seq(Harmless) OBVIOUS
  <2> QED BY <1>13, <1>15, <2>1 DEF Backed
<1>17. checkpoint.iter = x.view.iter BY <1>2, <1>3 DEF Knows
<1>18. \A d \in Controller : me[d].at # "execute"
  <2>1. dispatches[<<checkpoint.iter, x.view.intent>>] # 0 BY <1>5, <1>17
  <2> QED BY <1>5, <2>1 DEF Inv, Effects, Executing
<1>19. Ahead'
  <2> SUFFICES ASSUME NEW k \in Iteration, NEW i \in Intent, dispatches[<<k, i>>] > 0
               PROVE  k < v.iter
    BY <1>12 DEF Ahead
  <2>1. k < checkpoint.iter \/ k = checkpoint.iter BY DEF Inv, Effects, Ahead
  <2>2. k \in Int BY DEF Iteration
  <2> QED BY <1>9, <1>10, <1>17, <2>1, <2>2
<1> QED BY <1>10, <1>12, <1>13, <1>14, <1>15, <1>16, <1>18, <1>19, QuietWritingKeeps
(* A run ends: whoever executes meanwhile dispatches into an ended run.    *)
EarnedBy(row) ==
    /\ row.iter \in Iteration /\ row.evidence = Guards
    /\ The("decision.accept") \in done[row.iter]
    /\ \E i \in Intent : job[<<row.iter, i>>] = "succeeded"

LEMMA EndFacts ==
    ASSUME Inv, NEW row \in Rows, row.phase = "terminal", row.decision # "none",
           row.iter = checkpoint.iter, row.decision = "accept" => EarnedBy(row),
           checkpoint' = row, UNCHANGED <<graph, world>>,
           \A d \in Controller : me'[d].at = "execute" => me'[d] = me[d]
    PROVE  checkpoint' \in Rows /\ Lawful(checkpoint)' /\ Executing' /\ Ahead' /\ Earned'
<1>1. done' = done /\ job' = job /\ dispatches' = dispatches BY DEF graph, world
<1>2. Lawful(checkpoint)' BY DEF Lawful
<1>3. Executing' BY <1>1 DEF Inv, Effects, Executing
<1>4. Ahead' BY <1>1 DEF Inv, Effects, Ahead
<1>5. Earned' BY <1>1 DEF Earned, AcceptIsEarned, EarnedBy
<1> QED BY <1>2, <1>3, <1>4, <1>5

LEMMA EndKeeps ==
    ASSUME Inv, NEW c \in Controller, c \in current, me[c].at # "idle",
           NEW row \in Rows, row.phase = "terminal", row.decision # "none",
           row.iter = me[c].view.iter, row.decision = "accept" => EarnedBy(row),
           checkpoint' = row, current' = {c}, answers' = answers \cup {row.decision}, Return(c),
           UNCHANGED <<graph, world>>
    PROVE  Inv'
<1>1. me \in [Controller -> Procs] /\ me[c].view \in Rows /\ checkpoint.iter = row.iter
  BY Loaded DEF Procs, Knows
<1>2. PICK q : q = Idle(me[c].view) OBVIOUS
<1>3. q \in Procs /\ q.at = "idle" /\ Placed(q) /\ Backed(q)' BY <1>1, <1>2, IdleTyped
<1>4. me' = [me EXCEPT ![c] = q] BY <1>2 DEF Return
<1>5. \A d \in Controller : me'[d].at = "execute" => me'[d] = me[d] BY <1>1, <1>3, <1>4
<1>6. checkpoint' \in Rows /\ Lawful(checkpoint)' /\ Executing' /\ Ahead' /\ Earned'
  BY <1>1, <1>5, EndFacts
<1>7. answers' \subseteq {"accept", "stop", "escalate"} BY DEF Inv, Worlds, Rows
<1> QED BY <1>3, <1>4, <1>6, <1>7, WritingKeeps

LEMMA TerminalKeeps ==
    ASSUME Inv, NEW c \in Controller, me[c].at # "idle", NEW d \in {"accept", "stop", "escalate"},
           NEW why \in Reasons, Terminal(c, d, why), d = "accept" => EarnedBy(me[c].view)
    PROVE  Inv'
<1>1. c \in current BY DEF Terminal, Save
<1>2. me[c].view \in Rows BY <1>1, Loaded DEF Procs
<1>3. PICK w : w = Row(c, "terminal", NoIntent) OBVIOUS
<1>4. w \in Rows /\ w.iter = me[c].view.iter /\ w.evidence = me[c].view.evidence
  BY <1>2, <1>3 DEF Row, Rows, Phases, Outcomes
<1>5. PICK row : row = Terminated(w, d, why) OBVIOUS
<1>6. /\ row \in Rows /\ row.phase = "terminal" /\ row.decision = d
      /\ row.iter = w.iter /\ row.evidence = w.evidence
  BY <1>4, <1>5 DEF Terminated, Rows, Phases, Outcomes
<1>7. row.decision = "accept" => EarnedBy(row) BY <1>4, <1>6 DEF EarnedBy
<1>8. /\ checkpoint' = row /\ current' = {c} /\ answers' = answers \cup {row.decision} /\ Return(c)
      /\ UNCHANGED <<graph, world>>
  BY <1>3, <1>5, <1>6 DEF Terminal, Save
<1> QED BY <1>1, <1>4, <1>6, <1>7, <1>8, EndKeeps

LEMMA IterateKeeps == ASSUME Inv, NEW c \in Controller, Iterate(c) PROVE Inv'
<1>1. At(c, "iterate") /\ me[c].at # "idle" BY DEF Iterate, At
<1>2. CASE Round(c) > MaxIterations
  <2>1. Terminal(c, "stop", "iteration-budget-exhausted") BY <1>2 DEF Iterate
  <2> QED BY <1>1, <2>1, TerminalKeeps DEF Reasons
<1>3. CASE ~(Round(c) > MaxIterations)
  <2>1. Round(c) <= MaxIterations
    <3>1. me[c] \in Procs /\ MaxIterations \in Nat BY LoopAssumption DEF Inv, Processes
    <3> QED BY <1>3, <3>1 DEF Round, Procs, Rows
  <2>2. /\ me' = [me EXCEPT ![c].at = "branch", ![c].todo = OpenIteration(Round(c))]
        /\ Unchanged /\ UNCHANGED graph
    BY <1>3 DEF Iterate
  <2> QED BY <1>1, <2>1, <2>2, IterateWalks
<1> QED BY <1>2, <1>3

LEMMA StopOnToolCallsKeeps == ASSUME Inv, NEW c \in Controller, StopOnToolCalls(c) PROVE Inv'
BY TerminalKeeps DEF StopOnToolCalls, At, Reasons

LEMMA DenyKeeps == ASSUME Inv, NEW c \in Controller, Deny(c) PROVE Inv'
BY TerminalKeeps DEF Deny, At, Reasons

LEMMA AcceptKeeps == ASSUME Inv, NEW c \in Controller, Accept(c) PROVE Inv'
<1>1. /\ me[c].at = "accept" /\ me[c].todo = <<>>
      /\ Terminal(c, "accept", "verified-success")
  BY DEF Accept, At
<1>2. me[c] \in Procs /\ Placed(me[c]) /\ Backed(me[c]) BY DEF Inv, Processes
<1>3. /\ me[c].view.iter \in Iteration /\ me[c].view.evidence = Guards /\ me[c].view.intent \in Intent
      /\ The("decision.accept") \in done[me[c].view.iter]
      /\ job[<<me[c].view.iter, me[c].view.intent>>] = "succeeded"
  BY <1>1, <1>2 DEF Placed, Backed, Lawful, Succeeded, AcceptAhead
<1>4. EarnedBy(me[c].view) BY <1>3 DEF EarnedBy
<1> QED BY <1>1, <1>4, TerminalKeeps DEF Reasons

LEMMA EscalateKeeps == ASSUME Inv, NEW c \in Controller, NEW e \in SUBSET Guards, Escalate(c, e) PROVE Inv'
<1>1. c \in current /\ me[c].at = "evaluating" BY DEF Escalate, At, Save
<1>2. me[c].view \in Rows BY <1>1, Loaded DEF Procs
<1>3. PICK w : w = Terminated(me[c].view, "escalate", "repair") OBVIOUS
<1>4. PICK row : row = [w EXCEPT !.evidence = e] OBVIOUS
<1>5. /\ w \in Rows /\ w.phase = "terminal" /\ w.decision = "escalate" /\ w.iter = me[c].view.iter
  BY <1>2, <1>3 DEF Terminated, Rows, Phases, Outcomes, Reasons
<1>6. /\ row \in Rows /\ row.phase = "terminal" /\ row.decision = "escalate" /\ row.iter = me[c].view.iter
  BY <1>4, <1>5 DEF Rows
<1>7. /\ checkpoint' = row /\ current' = {c} /\ answers' = answers \cup {row.decision} /\ Return(c)
      /\ UNCHANGED <<graph, world>>
  BY <1>3, <1>4, <1>6 DEF Escalate, Save
<1> QED BY <1>1, <1>6, <1>7, EndKeeps

-------------------------------------------------------------------------------
(* The effect itself, and the world around the controllers.                *)
LEMMA ExecuteKeeps == ASSUME Inv, NEW c \in Controller, Execute(c) PROVE Inv'
<1>1. me[c].at = "execute" BY DEF Execute, At
<1>2. me \in [Controller -> Procs] /\ Placed(me[c]) /\ Backed(me[c]) BY DEF Inv, Processes
<1>3. PICK x \in Procs : x = me[c] BY <1>2
<1>4. PICK k, i : k = x.view.iter /\ i = x.view.intent OBVIOUS
<1>5. /\ k \in Iteration /\ i \in Intent /\ x.intent = i /\ x.view.phase = "pending-effect"
      /\ (Asks(i) => i \in spent) /\ k = checkpoint.iter
  BY <1>1, <1>2, <1>3, <1>4 DEF Placed, Backed, Lawful, Inv, Effects, Executing
<1>6. /\ checkpoint.phase \in {"pending-effect", "reconciliation-required", "terminal"}
      /\ checkpoint.phase # "terminal" => i = checkpoint.intent
      /\ \A j \in Intent : dispatches[<<k, j>>] = 0
      /\ \A d \in Controller : me[d].at = "execute" => d = c
  BY <1>1, <1>3, <1>4, <1>5 DEF Inv, Effects, Executing
<1>7. /\ dispatches' = [dispatches EXCEPT ![<<k, i>>] = @ + 1]
      /\ job' = [job EXCEPT ![<<k, i>>] = IF @ = "none" THEN "running" ELSE @]
      /\ me' = [me EXCEPT ![c].at = "await"]
      /\ checkpoint' = checkpoint /\ current' = current /\ done' = done /\ begun' = begun /\ facts' = facts
      /\ proposed' = proposed /\ fresh' = fresh /\ spent' = spent /\ answers' = answers
  BY <1>3, <1>4, <1>5 DEF Execute, Round, graph
<1>8. <<k, i>> \in Operation BY <1>5 DEF Operation
<1>9. dispatches \in [Operation -> Nat] /\ job \in [Operation -> {"none", "running", "succeeded", "failed"}]
  BY DEF Inv, Worlds
<1>10. dispatches'[<<k, i>>] = 1 /\ \A o \in Operation : o # <<k, i>> => dispatches'[o] = dispatches[o]
  BY <1>5, <1>6, <1>7, <1>8, <1>9
<1>11. /\ \A o \in Operation : job[o] # "none" => job'[o] = job[o]
       /\ \A o \in Operation : o # <<k, i>> => job'[o] = job[o]
  BY <1>7, <1>8, <1>9
<1>12. Grows BY <1>7, <1>8, <1>9, <1>10, <1>11 DEF Grows
<1>13. PICK q : q = [x EXCEPT !.at = "await"] OBVIOUS
<1>14. q \in Procs /\ q.at = "await" /\ q.todo = x.todo /\ q.view = x.view /\ q.intent = x.intent
  BY <1>3, <1>13 DEF Procs, Labels
<1>15. me' = [me EXCEPT ![c] = q] BY <1>2, <1>3, <1>7, <1>13
<1>16. Placed(q) BY <1>1, <1>2, <1>3, <1>14 DEF Placed
<1>17. Backed(q)'
  <2>1. Backed(x)' BY <1>2, <1>3, <1>12, BackedStays
  <2> QED BY <1>1, <1>3, <1>4, <1>10, <1>14, <2>1 DEF Backed
<1>18. Processes' /\ me'[c] = q /\ \A d \in Controller \ {c} : me'[d] = me[d]
  BY <1>12, <1>14, <1>15, <1>16, <1>17, ProcessesStep DEF Inv
<1>19. Graphs' BY <1>7 DEF Inv, Graphs
<1>20. ResultIsReal'
  <2> SUFFICES ASSUME NEW l \in Iteration, The("executor.result") \in done[l],
                      facts[l][The("executor.result")]["success"] = "True"
               PROVE  \E j \in Intent : job'[<<l, j>>] = "succeeded"
    BY <1>7 DEF ResultIsReal
  <2>1. PICK j \in Intent : job[<<l, j>>] = "succeeded" BY DEF Inv, ResultIsReal
  <2>2. job'[<<l, j>>] = "succeeded" BY <1>11, <2>1 DEF Operation
  <2> QED BY <2>2
<1>21. Worlds'
  <2>1. job' \in [Operation -> {"none", "running", "succeeded", "failed"}] BY <1>7, <1>8, <1>9
  <2>2. dispatches' \in [Operation -> Nat] BY <1>7, <1>8, <1>9
  <2>3. \A o \in Operation : job'[o] # "none" => dispatches'[o] > 0
    <3> SUFFICES ASSUME NEW o \in Operation, job'[o] # "none" PROVE dispatches'[o] > 0 OBVIOUS
    <3>1. CASE o = <<k, i>> BY <1>10, <3>1
    <3>2. CASE o # <<k, i>> BY <1>10, <1>11, <3>2 DEF Inv, Worlds
    <3> QED BY <3>1, <3>2
  <2> QED BY <1>7, <2>1, <2>2, <2>3 DEF Inv, Worlds
<1>22. Row0'
  <2>1. Lawful(checkpoint)' BY <1>7, <1>12, LawfulStays DEF Inv, Row0
  <2> QED BY <1>7, <2>1 DEF Inv, Row0
<1>23. Synced'
  <2> SUFFICES ASSUME NEW d \in current, me'[d].at # "idle" PROVE Knows(me'[d].view)
    BY <1>7 DEF Synced, Knows
  <2>1. d \in Controller BY DEF Inv, Row0
  <2>2. me'[d].view = me[d].view /\ me[d].at # "idle" BY <1>1, <1>3, <1>14, <1>18, <2>1
  <2> QED BY <2>2 DEF Inv, Synced
<1>24. Holding'
  <2> SUFFICES ASSUME NEW d \in current, checkpoint.phase = "reconciliation-required"
               PROVE  /\ me'[d].at = "idle" /\ me'[d].view.calls = checkpoint.calls
                      /\ me'[d].view.evidence = checkpoint.evidence
    BY <1>7 DEF Holding
  <2>1. d \in Controller /\ me[d].at = "idle" BY DEF Inv, Row0, Holding
  <2>2. me'[d] = me[d] BY <1>1, <1>18, <2>1
  <2> QED BY <2>2 DEF Inv, Holding
<1>25. Executing' BY <1>6, <1>14, <1>18 DEF Executing
<1>26. Ahead'
  <2> SUFFICES ASSUME NEW l \in Iteration, NEW j \in Intent, dispatches'[<<l, j>>] > 0
               PROVE  \/ l < checkpoint.iter
                      \/ /\ l = checkpoint.iter
                         /\ \/ checkpoint.phase = "terminal"
                            \/ /\ j = checkpoint.intent
                               /\ checkpoint.phase \in {"pending-effect", "reconciliation-required",
                                                        "reconciled-effect"}
    BY <1>7 DEF Ahead
  <2>1. CASE <<l, j>> = <<k, i>> BY <1>5, <1>6, <2>1
  <2>2. CASE <<l, j>> # <<k, i>>
    <3>1. dispatches[<<l, j>>] > 0 BY <1>10, <2>2 DEF Operation
    <3> QED BY <3>1 DEF Inv, Effects, Ahead
  <2> QED BY <2>1, <2>2
<1>27. Once'
  <2> SUFFICES ASSUME NEW l \in Iteration, NEW j \in Intent
               PROVE  /\ dispatches'[<<l, j>>] <= 1
                      /\ \A h \in Intent : dispatches'[<<l, j>>] > 0 /\ dispatches'[<<l, h>>] > 0 => j = h
    BY DEF Once
  <2>1. CASE l = k
    <3>1. \A h \in Intent : dispatches'[<<k, h>>] = IF h = i THEN 1 ELSE 0
      BY <1>5, <1>6, <1>10 DEF Operation
    <3> QED BY <2>1, <3>1
  <2>2. CASE l # k
    <3>1. \A h \in Intent : dispatches'[<<l, h>>] = dispatches[<<l, h>>]
      BY <1>10, <2>2 DEF Operation
    <3> QED BY <3>1 DEF Inv, Effects, Once
  <2> QED BY <2>1, <2>2
<1>28. EffectIsApproved'
  <2> SUFFICES ASSUME NEW o \in Operation, dispatches'[o] > 0, Asks(o[2]) PROVE o[2] \in spent
    BY <1>7 DEF EffectIsApproved, Asks
  <2>1. CASE o = <<k, i>> BY <1>5, <2>1
  <2>2. CASE o # <<k, i>>
    <3>1. dispatches[o] > 0 BY <1>10, <2>2
    <3> QED BY <3>1 DEF Inv, Effects, EffectIsApproved
  <2> QED BY <2>1, <2>2
<1>29. Earned'
  <2> SUFFICES ASSUME checkpoint.decision = "accept"
               PROVE  checkpoint.iter \in Iteration /\ AcceptIsEarned'
    BY <1>7 DEF Earned
  <2>1. checkpoint.iter \in Iteration /\ AcceptIsEarned BY DEF Inv, Earned
  <2>2. PICK j \in Intent : job[<<checkpoint.iter, j>>] = "succeeded" BY <2>1 DEF AcceptIsEarned
  <2>3. job'[<<checkpoint.iter, j>>] = "succeeded" BY <1>11, <2>1, <2>2 DEF Operation
  <2> QED BY <1>7, <2>1, <2>3 DEF AcceptIsEarned
<1> QED BY <1>18, <1>19, <1>20, <1>21, <1>22, <1>23, <1>24, <1>25, <1>26, <1>27, <1>28, <1>29
        DEF Inv, Effects
LEMMA JobEndsKeeps ==
    ASSUME Inv, NEW o \in Operation, NEW out \in {"succeeded", "failed"}, JobEnds(o, out)
    PROVE  Inv'
<1>1. /\ job[o] = "running" /\ job' = [job EXCEPT ![o] = out]
      /\ checkpoint' = checkpoint /\ current' = current /\ me' = me
      /\ done' = done /\ begun' = begun /\ facts' = facts /\ dispatches' = dispatches
      /\ proposed' = proposed /\ fresh' = fresh /\ spent' = spent /\ answers' = answers
  BY DEF JobEnds, graph
<1>2. /\ \A p \in Operation : p # o => job'[p] = job[p]
      /\ job' \in [Operation -> {"none", "running", "succeeded", "failed"}]
  BY <1>1 DEF Inv, Worlds
<1>3. Grows BY <1>1, <1>2 DEF Grows
<1>4. Processes' BY <1>1, <1>3, ProcessesStand DEF Inv
<1>5. Graphs' BY <1>1 DEF Inv, Graphs
<1>6. Worlds' BY <1>1, <1>2 DEF Inv, Worlds
<1>7. \A p \in Operation : job[p] = "succeeded" => job'[p] = "succeeded" BY <1>3 DEF Grows
<1>8. ResultIsReal'
  <2> SUFFICES ASSUME NEW l \in Iteration, The("executor.result") \in done[l],
                      facts[l][The("executor.result")]["success"] = "True"
               PROVE  \E j \in Intent : job'[<<l, j>>] = "succeeded"
    BY <1>1 DEF ResultIsReal
  <2>1. PICK j \in Intent : job[<<l, j>>] = "succeeded" BY DEF Inv, ResultIsReal
  <2>2. job'[<<l, j>>] = "succeeded" BY <1>7, <2>1 DEF Operation
  <2> QED BY <2>2
<1>9. Row0'
  <2>1. Lawful(checkpoint)' BY <1>1, <1>3, LawfulStays DEF Inv, Row0
  <2> QED BY <1>1, <2>1 DEF Inv, Row0
<1>10. Synced' /\ Holding' BY <1>1 DEF Inv, Synced, Holding, Knows
<1>11. Effects'
  <2>1. Executing' BY <1>1 DEF Inv, Effects, Executing
  <2>2. Ahead' /\ Once' BY <1>1 DEF Inv, Effects, Ahead, Once
  <2>3. EffectIsApproved' BY <1>1 DEF Inv, Effects, EffectIsApproved, Asks
  <2> QED BY <2>1, <2>2, <2>3 DEF Effects
<1>12. Earned'
  <2> SUFFICES ASSUME checkpoint.decision = "accept"
               PROVE  checkpoint.iter \in Iteration /\ AcceptIsEarned'
    BY <1>1 DEF Earned
  <2>1. checkpoint.iter \in Iteration /\ AcceptIsEarned BY DEF Inv, Earned
  <2>2. PICK j \in Intent : job[<<checkpoint.iter, j>>] = "succeeded" BY <2>1 DEF AcceptIsEarned
  <2>3. job'[<<checkpoint.iter, j>>] = "succeeded" BY <1>7, <2>1, <2>2 DEF Operation
  <2> QED BY <1>1, <2>1, <2>3 DEF AcceptIsEarned
<1> QED BY <1>4, <1>5, <1>6, <1>8, <1>9, <1>10, <1>11, <1>12 DEF Inv

LEMMA ApproveKeeps == ASSUME Inv, Approve PROVE Inv'
<1>1. /\ checkpoint.phase = "awaiting-approval" /\ fresh' = fresh \cup {checkpoint.intent}
      /\ checkpoint' = checkpoint /\ current' = current /\ me' = me
      /\ done' = done /\ begun' = begun /\ facts' = facts /\ dispatches' = dispatches
      /\ job' = job /\ proposed' = proposed /\ spent' = spent /\ answers' = answers
  BY DEF Approve, graph
<1>2. checkpoint.intent \in Intent BY <1>1 DEF Inv, Row0, Lawful
<1>3. Grows BY <1>1 DEF Grows
<1>4. Processes' BY <1>1, <1>3, ProcessesStand DEF Inv
<1>5. Graphs' /\ ResultIsReal' BY <1>1 DEF Inv, Graphs, ResultIsReal
<1>6. Worlds' BY <1>1, <1>2 DEF Inv, Worlds
<1>7. Row0' BY <1>1 DEF Inv, Row0, Lawful
<1>8. Synced' /\ Holding' BY <1>1 DEF Inv, Synced, Holding, Knows
<1>9. Effects'
  <2>1. Executing' BY <1>1 DEF Inv, Effects, Executing
  <2>2. Ahead' /\ Once' BY <1>1 DEF Inv, Effects, Ahead, Once
  <2>3. EffectIsApproved' BY <1>1 DEF Inv, Effects, EffectIsApproved, Asks
  <2> QED BY <2>1, <2>2, <2>3 DEF Effects
<1>10. Earned' BY <1>1 DEF Inv, Earned, AcceptIsEarned
<1> QED BY <1>4, <1>5, <1>6, <1>7, <1>8, <1>9, <1>10 DEF Inv

(* A finished operation was dispatched, so nobody is about to dispatch it. *)
LEMMA ReconcileEffectKeeps == ASSUME Inv, NEW c \in Controller, ReconcileEffect(c) PROVE Inv'
<1> DEFINE out == job[<<checkpoint.iter, checkpoint.intent>>]
<1>1. /\ me[c].at = "idle" /\ checkpoint.phase = "reconciliation-required" /\ out \in {"succeeded", "failed"}
      /\ checkpoint' = [checkpoint EXCEPT !.phase = "reconciled-effect", !.outcome = out,
                                          !.calls = me[c].view.calls, !.evidence = me[c].view.evidence]
      /\ current' = {c} /\ me' = me /\ UNCHANGED <<graph, world>> /\ answers' = answers
      /\ dispatches' = dispatches /\ job' = job /\ spent' = spent
  BY DEF ReconcileEffect, At, world
<1>2. PICK v \in Rows : v = checkpoint BY DEF Inv, Row0
<1>3. PICK q : q = me[c] OBVIOUS
<1>4. me \in [Controller -> Procs] /\ q \in Procs /\ Placed(q) /\ Backed(q) BY <1>3 DEF Inv, Processes
<1>5. PICK o : o = out OBVIOUS
<1>6. PICK w : w = checkpoint' OBVIOUS
<1>7. w = [v EXCEPT !.phase = "reconciled-effect", !.outcome = o, !.calls = q.view.calls,
                    !.evidence = q.view.evidence]
  BY <1>1, <1>2, <1>3, <1>5, <1>6
<1>8. q.view \in Rows /\ o \in Outcomes BY <1>1, <1>4, <1>5 DEF Procs, Outcomes
<1>9. /\ w \in Rows /\ w.phase = "reconciled-effect" /\ w.outcome = o /\ w.iter = v.iter
      /\ w.intent = v.intent /\ w.decision = v.decision
  BY <1>2, <1>7, <1>8 DEF Rows, Phases
<1>10. Lawful(v) BY <1>2 DEF Inv, Row0
<1>11. v.intent \in Intent /\ v.iter \in Iteration /\ v.decision = "none" BY <1>1, <1>2, <1>10 DEF Lawful
<1>12. Lawful(checkpoint)'
  <2>1. job'[<<w.iter, w.intent>>] = o /\ o \in {"succeeded", "failed"} BY <1>1, <1>2, <1>5, <1>9
  <2> QED BY <1>6, <1>9, <1>11, <2>1 DEF Lawful
<1>13. me' = [me EXCEPT ![c] = q] BY <1>1, <1>3, <1>4
<1>14. Grows BY <1>1 DEF Grows, graph
<1>15. Backed(q)' BY <1>4, <1>14, BackedStays
<1>16. \A d \in Controller : me[d].at # "execute"
  <2>1. dispatches[<<checkpoint.iter, checkpoint.intent>>] > 0
    BY <1>1, <1>2, <1>11 DEF Inv, Worlds, Operation
  <2>2. dispatches[<<checkpoint.iter, checkpoint.intent>>] # 0 BY <2>1
  <2> QED BY <1>2, <1>11, <2>2 DEF Inv, Effects, Executing
<1>17. Ahead' BY <1>1, <1>2, <1>6, <1>9 DEF Inv, Effects, Ahead
<1> QED BY <1>1, <1>3, <1>4, <1>6, <1>9, <1>12, <1>13, <1>15, <1>16, <1>17, QuietWritingKeeps

LEMMA CancelRunKeeps == ASSUME Inv, CancelRun PROVE Inv'
<1>1. /\ checkpoint' = Terminated(checkpoint, "stop", "cancelled-by-requester") /\ current' = {}
      /\ answers' = answers \cup {"stop"} /\ me' = me /\ UNCHANGED <<graph, world>>
      /\ done' = done /\ begun' = begun /\ facts' = facts /\ job' = job /\ dispatches' = dispatches
      /\ proposed' = proposed /\ fresh' = fresh /\ spent' = spent
  BY DEF CancelRun, graph, world
<1>2. checkpoint \in Rows BY DEF Inv, Row0
<1>3. PICK row : row = Terminated(checkpoint, "stop", "cancelled-by-requester") OBVIOUS
<1>4. row \in Rows /\ row.phase = "terminal" /\ row.decision = "stop" /\ row.iter = checkpoint.iter
  BY <1>2, <1>3 DEF Terminated, Rows, Phases, Outcomes, Reasons
<1>5. checkpoint' \in Rows /\ Lawful(checkpoint)' /\ Executing' /\ Ahead' /\ Earned'
  BY <1>1, <1>3, <1>4, EndFacts
<1>6. Grows BY <1>1 DEF Grows
<1>7. Processes' BY <1>1, <1>6, ProcessesStand DEF Inv
<1>8. Graphs' /\ ResultIsReal' BY <1>1 DEF Inv, Graphs, ResultIsReal
<1>9. Worlds' BY <1>1 DEF Inv, Worlds
<1>10. Row0' BY <1>1, <1>3, <1>4, <1>5 DEF Row0
<1>11. Synced' /\ Holding' BY <1>1 DEF Synced, Holding
<1>12. Once' BY <1>1 DEF Inv, Effects, Once
<1>13. EffectIsApproved' BY <1>1 DEF Inv, Effects, EffectIsApproved, Asks
<1> QED BY <1>5, <1>7, <1>8, <1>9, <1>10, <1>11, <1>12, <1>13 DEF Inv, Effects

LEMMA InitInv == Init => Inv
<1> SUFFICES ASSUME Init PROVE Inv OBVIOUS
<1>1. /\ checkpoint = NoRun /\ current = {} /\ me = [c \in Controller |-> Fresh]
      /\ done = [k \in Iteration |-> {}] /\ begun = [k \in Iteration |-> {}]
      /\ facts = [k \in Iteration |-> [n \in ControlNodes |-> Monitor!NoFacts]]
      /\ job = [o \in Operation |-> "none"] /\ dispatches = [o \in Operation |-> 0]
      /\ proposed = {} /\ fresh = {} /\ spent = {} /\ answers = {}
  BY DEF Init
<1>2. PICK q : q = Fresh OBVIOUS
<1>3. q \in Procs /\ q.at = "idle" /\ Placed(q) /\ q.view = NoRun /\ q.todo = <<>>
  BY <1>2, FreshTyped DEF Fresh, Process
<1>4. /\ NoRun \in Rows /\ NoRun.phase = "none" /\ NoRun.decision = "none" BY <1>3 DEF Procs, NoRun
<1>5. Backed(q)
  <2>1. <<>> \in Seq(Harmless) OBVIOUS
  <2> QED BY <1>3, <1>4, <2>1 DEF Backed, Lawful
<1>6. Processes
  <2>1. \A c \in Controller : me[c] = q BY <1>1, <1>2
  <2>2. me \in [Controller -> Procs] BY <1>1, <1>2, <1>3
  <2> QED BY <1>3, <1>5, <2>1, <2>2 DEF Processes
<1>7. Graphs BY <1>1 DEF Graphs
<1>8. Worlds BY <1>1 DEF Worlds
<1>9. Row0 BY <1>1, <1>4 DEF Row0, Lawful
<1>10. Synced /\ Holding BY <1>1 DEF Synced, Holding
<1>11. \A o \in Operation : dispatches[o] = 0 BY <1>1
<1>12. Effects
  <2>1. Executing BY <1>1, <1>2, <1>3 DEF Executing
  <2>2. Ahead /\ Once BY <1>11 DEF Ahead, Once, Operation
  <2>3. EffectIsApproved BY <1>11 DEF EffectIsApproved
  <2> QED BY <2>1, <2>2, <2>3 DEF Effects
<1>13. Earned /\ ResultIsReal BY <1>1, <1>4 DEF Earned, ResultIsReal
<1> QED BY <1>6, <1>7, <1>8, <1>9, <1>10, <1>12, <1>13 DEF Inv

LEMMA StepKeeps == ASSUME Inv, NEW c \in Controller, Step(c) PROVE Inv'
BY GraphStepKeeps, SaveConflictKeeps, StartRunKeeps, ResumeRunKeeps, BlockOnEffectKeeps, StayBlockedKeeps,
   ReturnDecisionKeeps, IterateKeeps, StopOnToolCallsKeeps, AdmitReconciledKeeps, ResumeIntentKeeps,
   ProposeKeeps, PersistIntentKeeps, AuthorizeKeeps, AwaitApprovalKeeps, DenyKeeps, PersistEffectKeeps,
   ExecuteKeeps, ObserveResultKeeps, EvaluateKeeps, EvaluationUnavailableKeeps, BeginAcceptKeeps,
   AcceptKeeps, NextRoundKeeps, EscalateKeeps
DEF Step

LEMMA NextInv == Inv /\ [Next]_vars => Inv'
<1> SUFFICES ASSUME Inv, [Next]_vars PROVE Inv' OBVIOUS
<1>1. ASSUME NEW c \in Controller, Step(c) PROVE Inv' BY <1>1, StepKeeps
<1>2. ASSUME NEW c \in Controller, Crash(c) PROVE Inv' BY <1>2, CrashKeeps
<1>3. ASSUME NEW o \in Operation, NEW out \in {"succeeded", "failed"}, JobEnds(o, out) PROVE Inv'
  BY <1>3, JobEndsKeeps
<1>4. ASSUME NEW c \in Controller, ReconcileEffect(c) PROVE Inv' BY <1>4, ReconcileEffectKeeps
<1>5. CASE Approve BY <1>5, ApproveKeeps
<1>6. CASE CancelRun BY <1>6, CancelRunKeeps
<1>7. CASE UNCHANGED vars
  <2>1. /\ checkpoint' = checkpoint /\ current' = current /\ me' = me
        /\ done' = done /\ begun' = begun /\ facts' = facts /\ dispatches' = dispatches /\ answers' = answers
        /\ job' = job /\ proposed' = proposed /\ fresh' = fresh /\ spent' = spent
    BY <1>7 DEF vars, graph, world
  <2>2. Grows BY <2>1 DEF Grows
  <2>3. Processes' BY <2>1, <2>2, ProcessesStand DEF Inv
  <2>4. Graphs' /\ ResultIsReal' BY <2>1 DEF Inv, Graphs, ResultIsReal
  <2>5. Worlds' BY <2>1 DEF Inv, Worlds
  <2>6. Row0' BY <2>1 DEF Inv, Row0, Lawful
  <2>7. Synced' /\ Holding' BY <2>1 DEF Inv, Synced, Holding, Knows
  <2>8. Executing' /\ Ahead' /\ Once' BY <2>1 DEF Inv, Effects, Executing, Ahead, Once
  <2>9. EffectIsApproved' BY <2>1 DEF Inv, Effects, EffectIsApproved, Asks
  <2>10. Earned' BY <2>1 DEF Inv, Earned, AcceptIsEarned
  <2> QED BY <2>3, <2>4, <2>5, <2>6, <2>7, <2>8, <2>9, <2>10 DEF Inv, Effects
<1> QED BY <1>1, <1>2, <1>3, <1>4, <1>5, <1>6, <1>7 DEF Next
-------------------------------------------------------------------------------
(* What a step looks like from outside.  Watches leaves the row alone;     *)
(* Moves and Ends are steps of the life cycle; Quietly says that no effect *)
(* happens, is paid for or becomes imminent.                               *)
Watches ==
    /\ checkpoint' = checkpoint
    /\ \/ answers' = answers
       \/ checkpoint.phase = "terminal" /\ answers' = answers \cup {checkpoint.decision}

EvidenceGrows == checkpoint.evidence \subseteq checkpoint'.evidence

Moves ==
    /\ \/ Lifecycle!Begin \/ Lifecycle!Commit \/ Lifecycle!Wait \/ Lifecycle!Act \/ Lifecycle!Doubt
       \/ Lifecycle!Reconcile \/ Lifecycle!Advance
    /\ answers' = answers /\ EvidenceGrows

Ends ==
    \E d \in {"accept", "stop", "escalate"} :
        Lifecycle!End(d) /\ answers' = answers \cup {d} /\ EvidenceGrows

Quietly ==
    /\ dispatches' = dispatches /\ checkpoint'.calls = checkpoint.calls
    /\ \A d \in Controller : me'[d].at = "execute" => me[d].at = "execute"

LEMMA GraphStepWatches == ASSUME Inv, NEW c \in Controller, GraphStep(c) PROVE Watches /\ Quietly
<1>1. me \in [Controller -> Procs] BY DEF Inv, Processes
<1>2. checkpoint' = checkpoint /\ answers' = answers /\ dispatches' = dispatches
  BY DEF GraphStep, AlreadyDone, GraphAdvance, GraphReserve, GraphFinish, GraphRejected, Unchanged, world
<1>3. \A d \in Controller : me'[d].at = "execute" => me[d].at = "execute"
  <2>1. CASE AlreadyDone(c) BY <1>1, <2>1 DEF AlreadyDone, NextCall, Procs
  <2>2. CASE GraphAdvance(c) BY <1>1, <2>2 DEF GraphAdvance, NextCall, Procs
  <2>3. CASE GraphReserve(c)
    <3>1. PICK t : me' = [me EXCEPT ![c].todo = t] BY <2>3 DEF GraphReserve
    <3> QED BY <1>1, <3>1 DEF Procs
  <2>4. CASE GraphFinish(c) BY <1>1, <2>4 DEF GraphFinish, NextCall, Procs
  <2>5. CASE GraphRejected(c)
    <3>1. GiveUp(c) /\ Fresh.at = "idle" BY <2>5, FreshTyped DEF GraphRejected
    <3> QED BY <1>1, <3>1 DEF GiveUp, Procs
  <2> QED BY <2>1, <2>2, <2>3, <2>4, <2>5 DEF GraphStep
<1> QED BY <1>2, <1>3 DEF Watches, Quietly

LEMMA WalkWatches ==
    ASSUME Inv, NEW c \in Controller,
           \/ SaveConflict(c) \/ Crash(c) \/ AdmitReconciled(c) \/ ResumeIntent(c)
           \/ \E i \in Intent : Propose(c, i)
           \/ Authorize(c) \/ ObserveResult(c) \/ Evaluate(c) \/ EvaluationUnavailable(c) \/ BeginAccept(c)
    PROVE  Watches /\ Quietly
<1>1. me \in [Controller -> Procs] BY DEF Inv, Processes
<1>2. checkpoint' = checkpoint /\ answers' = answers /\ dispatches' = dispatches
  BY DEF SaveConflict, Crash, AdmitReconciled, ResumeIntent, Propose, Authorize, ObserveResult, Evaluate,
         EvaluationUnavailable, BeginAccept, Unchanged, world
<1>3. \A d \in Controller : me'[d].at = "execute" => me[d].at = "execute"
  <2>1. CASE SaveConflict(c) \/ Crash(c) BY <1>1, <2>1, FreshTyped DEF SaveConflict, Crash
  <2>2. CASE AdmitReconciled(c) BY <1>1, <2>2 DEF AdmitReconciled, Procs
  <2>3. CASE ResumeIntent(c) BY <1>1, <2>3 DEF ResumeIntent, Procs
  <2>4. CASE \E i \in Intent : Propose(c, i)
    <3>1. PICK i \in Intent : Propose(c, i) BY <2>4
    <3>2. PICK t : t = Advance("action.intent", [Blank EXCEPT !["rule_index"] = RuleOf[i]]) OBVIOUS
    <3>3. me' = [me EXCEPT ![c].at = "intent", ![c].intent = i, ![c].todo = t] BY <3>1, <3>2 DEF Propose
    <3> QED BY <1>1, <3>3 DEF Procs
  <2>5. CASE Authorize(c) BY <1>1, <2>5 DEF Authorize, Procs
  <2>6. CASE ObserveResult(c) BY <1>1, <2>6 DEF ObserveResult, Procs
  <2>7. CASE Evaluate(c) BY <1>1, <2>7 DEF Evaluate, Procs
  <2>8. CASE EvaluationUnavailable(c)
    <3>1. GiveUp(c) /\ Fresh.at = "idle" BY <2>8, FreshTyped DEF EvaluationUnavailable
    <3> QED BY <1>1, <3>1 DEF GiveUp, Procs
  <2>9. CASE BeginAccept(c) BY <1>1, <2>9 DEF BeginAccept, Procs
  <2> QED BY <2>1, <2>2, <2>3, <2>4, <2>5, <2>6, <2>7, <2>8, <2>9
<1> QED BY <1>2, <1>3 DEF Watches, Quietly

LEMMA LookWatches ==
    ASSUME Inv, NEW c \in Controller, ResumeRun(c) \/ StayBlocked(c) \/ ReturnDecision(c)
    PROVE  Watches /\ Quietly
<1>1. me \in [Controller -> Procs] BY DEF Inv, Processes
<1>2. checkpoint' = checkpoint /\ dispatches' = dispatches
  BY DEF ResumeRun, StayBlocked, ReturnDecision, world
<1>3. answers' = answers \/ (checkpoint.phase = "terminal" /\ answers' = answers \cup {checkpoint.decision})
  BY DEF ResumeRun, StayBlocked, ReturnDecision
<1>4. PICK q : q.at # "execute" /\ me' = [me EXCEPT ![c] = q]
  BY DEF ResumeRun, StayBlocked, ReturnDecision, Idle, Process
<1> QED BY <1>1, <1>2, <1>3, <1>4 DEF Watches, Quietly

LEMMA WorldWatches ==
    ASSUME Approve \/ \E o \in Operation, out \in {"succeeded", "failed"} : JobEnds(o, out)
    PROVE  Watches /\ Quietly
BY DEF Approve, JobEnds, Watches, Quietly

-------------------------------------------------------------------------------
(* The writes, seen as steps of the life cycle.                            *)
LEMMA StartRunMoves == ASSUME Inv, NEW c \in Controller, StartRun(c) PROVE Moves /\ Quietly
<1>1. checkpoint = NoRun /\ me \in [Controller -> Procs] BY DEF StartRun, Inv, Row0, Processes
<1>2. /\ checkpoint' = [NoRun EXCEPT !.phase = "ready"] /\ answers' = answers /\ dispatches' = dispatches
  BY DEF StartRun, world
<1>3. Lifecycle!Begin BY <1>1, <1>2 DEF Lifecycle!Begin, Lifecycle!Goes, NoRun
<1>4. EvidenceGrows /\ checkpoint'.calls = checkpoint.calls BY <1>1, <1>2 DEF EvidenceGrows, NoRun
<1>5. PICK q : q.at # "execute" /\ me' = [me EXCEPT ![c] = q] BY DEF StartRun, Process
<1> QED BY <1>1, <1>2, <1>3, <1>4, <1>5 DEF Moves, Quietly

LEMMA BlockOnEffectMoves == ASSUME Inv, NEW c \in Controller, BlockOnEffect(c) PROVE Moves /\ Quietly
<1>1. checkpoint \in Rows /\ me \in [Controller -> Procs] BY DEF Inv, Row0, Processes
<1>2. /\ checkpoint' = [checkpoint EXCEPT !.phase = "reconciliation-required"]
      /\ checkpoint.phase = "pending-effect" /\ answers' = answers /\ dispatches' = dispatches
  BY DEF BlockOnEffect, world
<1>3. Lifecycle!Doubt BY <1>1, <1>2 DEF Lifecycle!Doubt, Lifecycle!Goes, Rows
<1>4. EvidenceGrows /\ checkpoint'.calls = checkpoint.calls BY <1>1, <1>2 DEF EvidenceGrows, Rows
<1>5. PICK q : q.at # "execute" /\ me' = [me EXCEPT ![c] = q] BY DEF BlockOnEffect, Idle, Process
<1> QED BY <1>1, <1>2, <1>3, <1>4, <1>5 DEF Moves, Quietly

LEMMA PersistIntentMoves == ASSUME Inv, NEW c \in Controller, PersistIntent(c) PROVE Moves /\ Quietly
<1>1. c \in current /\ me[c].at = "intent" BY DEF PersistIntent, At, Proceed, Save
<1>2. /\ me \in [Controller -> Procs] /\ me[c] \in Procs /\ Placed(me[c]) /\ Knows(me[c].view)
  BY <1>1, Loaded
<1>3. PICK v : v = me[c].view OBVIOUS
<1>4. /\ v \in Rows /\ v.phase = "ready" /\ v.iter \in Iteration /\ v.calls < MaxToolCalls
      /\ me[c].intent \in Intent
  BY <1>1, <1>2, <1>3 DEF Placed, Procs
<1>5. /\ checkpoint.phase = v.phase /\ checkpoint.iter = v.iter /\ checkpoint.calls = v.calls
      /\ checkpoint.decision = v.decision /\ checkpoint.evidence \subseteq v.evidence
  BY <1>2, <1>3 DEF Knows
<1>6. /\ checkpoint' = [v EXCEPT !.phase = "pending-authorization", !.intent = me[c].intent, !.outcome = "none"]
      /\ answers' = answers /\ dispatches' = dispatches
      /\ me' = [me EXCEPT ![c] = [@ EXCEPT !.view = checkpoint', !.at = "gate", !.todo = <<>>]]
  BY <1>3 DEF PersistIntent, Proceed, Save, Row, world
<1>7. /\ checkpoint'.phase = "pending-authorization" /\ checkpoint'.intent = me[c].intent
      /\ checkpoint'.iter = v.iter /\ checkpoint'.calls = v.calls /\ checkpoint'.decision = v.decision
      /\ checkpoint'.evidence = v.evidence
  BY <1>4, <1>6 DEF Rows
<1>8. v.iter <= MaxIterations BY <1>4, LoopAssumption DEF Iteration
<1>9. Lifecycle!Commit BY <1>4, <1>5, <1>7, <1>8 DEF Lifecycle!Commit, Lifecycle!Goes
<1>10. \A d \in Controller : me'[d].at = "execute" => me[d].at = "execute" BY <1>2, <1>6 DEF Procs
<1> QED BY <1>5, <1>6, <1>7, <1>9, <1>10 DEF Moves, Quietly, EvidenceGrows

LEMMA AwaitApprovalMoves == ASSUME Inv, NEW c \in Controller, AwaitApproval(c) PROVE Moves /\ Quietly
<1>1. c \in current /\ me[c].at = "gate" BY DEF AwaitApproval, At, Save
<1>2. /\ me \in [Controller -> Procs] /\ me[c] \in Procs /\ Placed(me[c]) /\ Knows(me[c].view)
  BY <1>1, Loaded
<1>3. PICK v : v = me[c].view OBVIOUS
<1>4. /\ v \in Rows /\ v.phase \in {"pending-authorization", "awaiting-approval"} /\ me[c].intent = v.intent
  BY <1>1, <1>2, <1>3 DEF Placed, Procs
<1>5. /\ checkpoint.phase = v.phase /\ checkpoint.iter = v.iter /\ checkpoint.calls = v.calls
      /\ checkpoint.intent = v.intent
      /\ checkpoint.decision = v.decision /\ checkpoint.evidence \subseteq v.evidence
  BY <1>2, <1>3 DEF Knows
<1>6. /\ checkpoint' = [v EXCEPT !.phase = "awaiting-approval", !.intent = me[c].intent, !.outcome = "none"]
      /\ answers' = answers /\ dispatches' = dispatches
  BY <1>3 DEF AwaitApproval, Save, Row, world
<1>7. /\ checkpoint'.phase = "awaiting-approval" /\ checkpoint'.intent = v.intent
      /\ checkpoint'.iter = v.iter /\ checkpoint'.calls = v.calls /\ checkpoint'.decision = v.decision
      /\ checkpoint'.evidence = v.evidence
  BY <1>4, <1>6 DEF Rows
<1>8. Lifecycle!Wait BY <1>4, <1>5, <1>7 DEF Lifecycle!Wait, Lifecycle!Goes
<1>9. PICK q : q.at # "execute" /\ me' = [me EXCEPT ![c] = q] BY DEF AwaitApproval, Return, Idle, Process
<1> QED BY <1>2, <1>5, <1>6, <1>7, <1>8, <1>9 DEF Moves, Quietly, EvidenceGrows
LEMMA PersistEffectMoves ==
    ASSUME Inv, NEW c \in Controller, PersistEffect(c)
    PROVE  Moves /\ dispatches' = dispatches /\ checkpoint'.calls = checkpoint.calls + 1
<1>1. c \in current /\ me[c].at = "prepared" BY DEF PersistEffect, At, Proceed, Save
<1>2. /\ me \in [Controller -> Procs] /\ me[c] \in Procs /\ Placed(me[c]) /\ Knows(me[c].view)
  BY <1>1, Loaded
<1>3. PICK v : v = me[c].view OBVIOUS
<1>4. /\ v \in Rows /\ v.phase \in {"pending-authorization", "awaiting-approval"} /\ me[c].intent = v.intent
  BY <1>1, <1>2, <1>3 DEF Placed, Procs
<1>5. /\ checkpoint.phase = v.phase /\ checkpoint.iter = v.iter /\ checkpoint.calls = v.calls
      /\ checkpoint.intent = v.intent
      /\ checkpoint.decision = v.decision /\ checkpoint.evidence \subseteq v.evidence
  BY <1>2, <1>3 DEF Knows
<1>6. PICK w : w = [v EXCEPT !.phase = "pending-effect", !.intent = me[c].intent, !.outcome = "none"] OBVIOUS
<1>7. /\ w.phase = "pending-effect" /\ w.intent = v.intent /\ w.iter = v.iter /\ w.calls = v.calls
      /\ w.decision = v.decision /\ w.evidence = v.evidence
  BY <1>4, <1>6 DEF Rows
<1>8. /\ checkpoint' = [w EXCEPT !.calls = @ + 1] /\ answers' = answers /\ dispatches' = dispatches
  BY <1>3, <1>6 DEF PersistEffect, Proceed, Save, Row, world
<1>9. /\ checkpoint'.phase = w.phase /\ checkpoint'.intent = w.intent /\ checkpoint'.iter = w.iter
      /\ checkpoint'.calls = v.calls + 1 /\ checkpoint'.decision = w.decision
      /\ checkpoint'.evidence = w.evidence
  BY <1>4, <1>6, <1>7, <1>8 DEF Rows
<1>10. Lifecycle!Act BY <1>4, <1>5, <1>7, <1>9 DEF Lifecycle!Act, Lifecycle!Goes
<1> QED BY <1>5, <1>7, <1>8, <1>9, <1>10 DEF Moves, EvidenceGrows

LEMMA NextRoundMoves ==
    ASSUME Inv, NEW c \in Controller, NEW e \in SUBSET Guards, NextRound(c, e)
    PROVE  Moves /\ Quietly
<1>1. c \in current /\ me[c].at = "evaluating" /\ e \in Gathered(c) BY DEF NextRound, At, Proceed, Save
<1>2. /\ me \in [Controller -> Procs] /\ me[c] \in Procs /\ Placed(me[c]) /\ Knows(me[c].view)
  BY <1>1, Loaded
<1>3. PICK v : v = me[c].view OBVIOUS
<1>4. v \in Rows /\ v.phase \in {"pending-effect", "reconciled-effect"} /\ v.evidence \subseteq e
  BY <1>1, <1>2, <1>3, GatheredTyped DEF Placed, Procs
<1>5. /\ checkpoint.phase = v.phase /\ checkpoint.iter = v.iter /\ checkpoint.calls = v.calls
      /\ checkpoint.decision = v.decision /\ checkpoint.evidence \subseteq v.evidence
  BY <1>2, <1>3 DEF Knows
<1>6. PICK w : w = [v EXCEPT !.phase = "ready", !.intent = NoIntent, !.outcome = "none"] OBVIOUS
<1>7. /\ w.phase = "ready" /\ w.intent = NoIntent /\ w.iter = v.iter /\ w.calls = v.calls
      /\ w.decision = v.decision
  BY <1>4, <1>6 DEF Rows
<1>8. /\ checkpoint' = [w EXCEPT !.iter = @ + 1, !.evidence = e]
      /\ answers' = answers /\ dispatches' = dispatches
      /\ me' = [me EXCEPT ![c] = [@ EXCEPT !.view = checkpoint', !.at = "iterate", !.todo = <<>>]]
  BY <1>3, <1>6 DEF NextRound, Proceed, Save, Row, world
<1>9. /\ checkpoint'.phase = w.phase /\ checkpoint'.intent = w.intent /\ checkpoint'.iter = v.iter + 1
      /\ checkpoint'.calls = w.calls /\ checkpoint'.decision = w.decision
      /\ checkpoint'.evidence = e
  BY <1>4, <1>6, <1>7, <1>8 DEF Rows
<1>10. Lifecycle!Advance BY <1>4, <1>5, <1>7, <1>9 DEF Lifecycle!Advance, Lifecycle!Goes
<1>11. \A d \in Controller : me'[d].at = "execute" => me[d].at = "execute" BY <1>2, <1>8 DEF Procs
<1> QED BY <1>4, <1>5, <1>7, <1>8, <1>9, <1>10, <1>11 DEF Moves, Quietly, EvidenceGrows

LEMMA TerminalEnds ==
    ASSUME Inv, NEW c \in Controller, me[c].at # "idle", NEW d \in {"accept", "stop", "escalate"}, NEW why,
           Terminal(c, d, why), d = "accept" => me[c].at = "accept"
    PROVE  Ends /\ Quietly
<1>1. c \in current BY DEF Terminal, Save
<1>2. /\ me \in [Controller -> Procs] /\ me[c] \in Procs /\ Placed(me[c]) /\ Knows(me[c].view)
  BY <1>1, Loaded
<1>3. PICK v : v = me[c].view OBVIOUS
<1>4. /\ v \in Rows /\ v.phase \notin {"none", "terminal"}
      /\ d = "accept" => v.phase \in {"pending-effect", "reconciled-effect"}
  BY <1>2, <1>3 DEF Placed, Procs, Labels
<1>5. /\ checkpoint.phase = v.phase /\ checkpoint.iter = v.iter /\ checkpoint.calls = v.calls
      /\ checkpoint.evidence \subseteq v.evidence
  BY <1>2, <1>3 DEF Knows
<1>6. PICK w : w = [v EXCEPT !.phase = "terminal", !.intent = NoIntent, !.outcome = "none"] OBVIOUS
<1>7. w \in Rows /\ w.iter = v.iter /\ w.calls = v.calls /\ w.evidence = v.evidence
  BY <1>4, <1>6 DEF Rows, Phases, Outcomes
<1>8. /\ checkpoint' = [w EXCEPT !.phase = "terminal", !.intent = NoIntent, !.outcome = "none",
                                 !.decision = d, !.reason = why]
      /\ answers' = answers \cup {d} /\ dispatches' = dispatches
  BY <1>3, <1>6 DEF Terminal, Save, Row, Terminated, world
<1>9. /\ checkpoint'.phase = "terminal" /\ checkpoint'.intent = NoIntent /\ checkpoint'.decision = d
      /\ checkpoint'.iter = v.iter /\ checkpoint'.calls = v.calls /\ checkpoint'.evidence = v.evidence
  BY <1>7, <1>8 DEF Rows
<1>10. Lifecycle!End(d) BY <1>4, <1>5, <1>9 DEF Lifecycle!End
<1>11. PICK q : q.at # "execute" /\ me' = [me EXCEPT ![c] = q] BY DEF Terminal, Return, Idle, Process
<1> QED BY <1>2, <1>5, <1>8, <1>9, <1>10, <1>11 DEF Ends, Quietly, EvidenceGrows

LEMMA EscalateEnds ==
    ASSUME Inv, NEW c \in Controller, NEW e \in SUBSET Guards, Escalate(c, e)
    PROVE  Ends /\ Quietly
<1>1. c \in current /\ me[c].at = "evaluating" /\ e \in Gathered(c) BY DEF Escalate, At, Save
<1>2. /\ me \in [Controller -> Procs] /\ me[c] \in Procs /\ Placed(me[c]) /\ Knows(me[c].view)
  BY <1>1, Loaded
<1>3. PICK v : v = me[c].view OBVIOUS
<1>4. v \in Rows /\ v.phase \in {"pending-effect", "reconciled-effect"} /\ v.evidence \subseteq e
  BY <1>1, <1>2, <1>3, GatheredTyped DEF Placed, Procs
<1>5. /\ checkpoint.phase = v.phase /\ checkpoint.iter = v.iter /\ checkpoint.calls = v.calls
      /\ checkpoint.evidence \subseteq v.evidence
  BY <1>2, <1>3 DEF Knows
<1>6. PICK w : w = Terminated(v, "escalate", "repair") OBVIOUS
<1>7. /\ w.phase = "terminal" /\ w.intent = NoIntent /\ w.decision = "escalate"
      /\ w.iter = v.iter /\ w.calls = v.calls
  BY <1>4, <1>6 DEF Terminated, Rows
<1>8. /\ checkpoint' = [w EXCEPT !.evidence = e] /\ answers' = answers \cup {"escalate"}
      /\ dispatches' = dispatches
  BY <1>3, <1>6 DEF Escalate, Save, world
<1>9. /\ checkpoint'.phase = "terminal" /\ checkpoint'.intent = NoIntent
      /\ checkpoint'.decision = "escalate" /\ checkpoint'.iter = v.iter
      /\ checkpoint'.calls = v.calls /\ checkpoint'.evidence = e
  BY <1>4, <1>6, <1>7, <1>8 DEF Terminated, Rows
<1>10. Lifecycle!End("escalate") BY <1>4, <1>5, <1>9 DEF Lifecycle!End
<1>11. PICK q : q.at # "execute" /\ me' = [me EXCEPT ![c] = q] BY DEF Escalate, Return, Idle, Process
<1> QED BY <1>2, <1>4, <1>5, <1>8, <1>9, <1>10, <1>11 DEF Ends, Quietly, EvidenceGrows

LEMMA IterateShows ==
    ASSUME Inv, NEW c \in Controller, Iterate(c)
    PROVE  (Ends \/ Watches) /\ Quietly
<1>1. me[c].at = "iterate" BY DEF Iterate, At
<1>2. CASE Round(c) > MaxIterations
  <2>1. Terminal(c, "stop", "iteration-budget-exhausted") BY <1>2 DEF Iterate
  <2> QED BY <1>1, <2>1, TerminalEnds
<1>3. CASE ~(Round(c) > MaxIterations)
  <2>1. /\ me' = [me EXCEPT ![c].at = "branch", ![c].todo = OpenIteration(Round(c))]
        /\ checkpoint' = checkpoint /\ answers' = answers /\ dispatches' = dispatches
    BY <1>3 DEF Iterate, Unchanged, world
  <2>2. PICK t : t = OpenIteration(Round(c)) OBVIOUS
  <2>3. \A d \in Controller : me'[d].at = "execute" => me[d].at = "execute"
    BY <2>1, <2>2 DEF Inv, Processes, Procs
  <2> QED BY <2>1, <2>3 DEF Watches, Quietly
<1> QED BY <1>2, <1>3

LEMMA EndingsEnd ==
    ASSUME Inv, NEW c \in Controller, StopOnToolCalls(c) \/ Deny(c) \/ Accept(c)
    PROVE  Ends /\ Quietly
BY TerminalEnds DEF StopOnToolCalls, Deny, Accept, At

LEMMA CancelRunEnds == ASSUME Inv, Documented, CancelRun PROVE Ends /\ Quietly
<1>1. /\ checkpoint' = Terminated(checkpoint, "stop", "cancelled-by-requester")
      /\ answers' = answers \cup {"stop"} /\ me' = me /\ dispatches' = dispatches
  BY DEF CancelRun, world
<1>2. checkpoint \in Rows /\ checkpoint.phase \notin {"none", "terminal"}
  BY CancelAssumption DEF Inv, Row0, CancelRun, Documented
<1>3. /\ checkpoint'.phase = "terminal" /\ checkpoint'.intent = NoIntent /\ checkpoint'.decision = "stop"
      /\ checkpoint'.iter = checkpoint.iter /\ checkpoint'.calls = checkpoint.calls
      /\ checkpoint'.evidence = checkpoint.evidence
  BY <1>1, <1>2 DEF Terminated, Rows
<1>4. Lifecycle!End("stop") BY <1>2, <1>3 DEF Lifecycle!End
<1> QED BY <1>1, <1>3, <1>4 DEF Ends, Quietly, EvidenceGrows

(* On the object that ran, the counter and the evidence are the row's own. *)
LEMMA ReconcileEffectMoves ==
    ASSUME Inv, Documented, NEW c \in Controller, ReconcileEffect(c)
    PROVE  Moves /\ Quietly
<1>1. c \in current /\ checkpoint.phase = "reconciliation-required" BY DEF ReconcileEffect, Documented
<1>2. me[c].view.calls = checkpoint.calls /\ me[c].view.evidence = checkpoint.evidence
  BY <1>1 DEF Inv, Holding
<1>3. PICK out : /\ checkpoint' = [checkpoint EXCEPT !.phase = "reconciled-effect", !.outcome = out,
                                                     !.calls = me[c].view.calls,
                                                     !.evidence = me[c].view.evidence]
                 /\ answers' = answers /\ me' = me /\ dispatches' = dispatches
  BY DEF ReconcileEffect, world
<1>4. checkpoint \in Rows BY DEF Inv, Row0
<1>5. PICK n, e : n = me[c].view.calls /\ e = me[c].view.evidence OBVIOUS
<1>6. checkpoint' = [checkpoint EXCEPT !.phase = "reconciled-effect", !.outcome = out,
                                       !.calls = n, !.evidence = e]
  BY <1>3, <1>5
<1>7. /\ checkpoint'.phase = "reconciled-effect" /\ checkpoint'.calls = checkpoint.calls
      /\ checkpoint'.evidence = checkpoint.evidence /\ checkpoint'.iter = checkpoint.iter
      /\ checkpoint'.intent = checkpoint.intent /\ checkpoint'.decision = checkpoint.decision
  BY <1>2, <1>4, <1>5, <1>6 DEF Rows
<1>8. Lifecycle!Reconcile BY <1>1, <1>7 DEF Lifecycle!Reconcile, Lifecycle!Goes
<1> QED BY <1>3, <1>7, <1>8 DEF Moves, Quietly, EvidenceGrows

LEMMA StepShows ==
    ASSUME Inv, NEW c \in Controller, Step(c)
    PROVE  \/ Execute(c) /\ Watches
           \/ PersistEffect(c) /\ Moves
           \/ (Watches \/ Moves \/ Ends) /\ Quietly
<1>1. Execute(c) => Watches BY DEF Execute, Watches
<1> QED
  BY <1>1, GraphStepWatches, WalkWatches, LookWatches, StartRunMoves, BlockOnEffectMoves, PersistIntentMoves,
     AwaitApprovalMoves, PersistEffectMoves, NextRoundMoves, EscalateEnds, IterateShows, EndingsEnd
  DEF Step

LEMMA NextShows ==
    ASSUME Inv, Documented, Next
    PROVE  \/ \E c \in Controller : Execute(c) /\ Watches
           \/ \E c \in Controller : PersistEffect(c) /\ Moves
           \/ (Watches \/ Moves \/ Ends) /\ Quietly
BY StepShows, WalkWatches, WorldWatches, ReconcileEffectMoves, CancelRunEnds DEF Next
-------------------------------------------------------------------------------
(* Effects are paid for before they happen, and answers are the decision.  *)
LEMMA LifecycleSteps ==
    ASSUME Moves \/ Ends
    PROVE  /\ checkpoint.phase # "terminal" /\ EvidenceGrows
           /\ Moves => checkpoint'.phase # "terminal" /\ answers' = answers
           /\ Ends => checkpoint'.phase = "terminal" /\ answers' = answers \cup {checkpoint'.decision}
BY DEF Moves, Ends, Lifecycle!Begin, Lifecycle!Commit, Lifecycle!Wait, Lifecycle!Act, Lifecycle!Doubt,
       Lifecycle!Reconcile, Lifecycle!Advance, Lifecycle!End, Lifecycle!Goes

LEMMA ToldKeeps ==
    ASSUME Told, Watches \/ Moves \/ Ends
    PROVE  Told'
<1>1. CASE Watches BY <1>1 DEF Told, AnswersAgree, Watches
<1>2. CASE Moves BY <1>2, LifecycleSteps DEF Told, AnswersAgree
<1>3. CASE Ends BY <1>3, LifecycleSteps DEF Told, AnswersAgree
<1> QED BY <1>1, <1>2, <1>3

LEMMA PaidQuietly == ASSUME Paid, Quietly PROVE Paid'
<1>1. Dispatched' = Dispatched BY DEF Quietly, Dispatched
<1> QED BY <1>1 DEF Paid, Quietly

LEMMA PaidByPersisting ==
    ASSUME Inv, Paid, NEW c \in Controller, PersistEffect(c)
    PROVE  Paid'
<1>1. dispatches' = dispatches /\ checkpoint'.calls = checkpoint.calls + 1 BY PersistEffectMoves
<1>2. Dispatched' = Dispatched BY <1>1 DEF Dispatched
<1>3. checkpoint.calls \in Nat /\ Cardinality(Dispatched) \in Nat BY FS_CardinalityType DEF Inv, Row0, Rows, Paid
<1>4. Cardinality(Dispatched) <= checkpoint.calls BY DEF Paid
<1>5. Cardinality(Dispatched) < checkpoint'.calls /\ Cardinality(Dispatched) <= checkpoint'.calls
  BY <1>1, <1>3, <1>4
<1> QED BY <1>2, <1>5 DEF Paid

LEMMA PaidByExecuting ==
    ASSUME Inv, Paid, NEW c \in Controller, Execute(c)
    PROVE  Paid'
<1>1. me[c].at = "execute" /\ checkpoint' = checkpoint BY DEF Execute, At
<1>2. PICK o : dispatches' = [dispatches EXCEPT ![o] = @ + 1] /\ me' = [me EXCEPT ![c].at = "await"]
  BY DEF Execute
<1>3. dispatches \in [Operation -> Nat] /\ me \in [Controller -> Procs] BY DEF Inv, Worlds, Processes
<1>4. Dispatched' \subseteq Dispatched \cup {o} BY <1>2, <1>3 DEF Dispatched
<1>5. IsFiniteSet(Dispatched) /\ Cardinality(Dispatched) < checkpoint.calls BY <1>1 DEF Paid
<1>6. /\ IsFiniteSet(Dispatched \cup {o})
      /\ Cardinality(Dispatched \cup {o}) <= Cardinality(Dispatched) + 1
  <2>1. /\ IsFiniteSet(Dispatched \cup {o})
        /\ Cardinality(Dispatched \cup {o}) =
             IF o \in Dispatched THEN Cardinality(Dispatched) ELSE Cardinality(Dispatched) + 1
    BY <1>5, FS_AddElement
  <2>2. Cardinality(Dispatched) \in Nat BY <1>5, FS_CardinalityType
  <2> QED BY <2>1, <2>2
<1>7. IsFiniteSet(Dispatched') /\ Cardinality(Dispatched') <= Cardinality(Dispatched \cup {o})
  BY <1>4, <1>6, FS_Subset
<1>8. Cardinality(Dispatched') <= checkpoint.calls
  <2>1. /\ checkpoint.calls \in Int /\ Cardinality(Dispatched) \in Int
        /\ Cardinality(Dispatched \cup {o}) \in Int /\ Cardinality(Dispatched') \in Int
    BY <1>5, <1>6, <1>7, FS_CardinalityType DEF Inv, Row0, Rows
  <2> QED BY <1>5, <1>6, <1>7, <2>1
<1>9. \A d \in Controller : me[d].at = "execute" => d = c BY <1>1 DEF Inv, Effects, Executing
<1>10. \A d \in Controller : me'[d].at # "execute" BY <1>2, <1>3, <1>9 DEF Procs
<1> QED BY <1>1, <1>7, <1>8, <1>10 DEF Paid

LEMMA InitDocInv == Init => DocInv
<1> SUFFICES ASSUME Init PROVE DocInv OBVIOUS
<1>1. /\ checkpoint = NoRun /\ answers = {} /\ me = [c \in Controller |-> Fresh]
      /\ dispatches = [o \in Operation |-> 0]
  BY DEF Init
<1>2. Dispatched = {} BY <1>1 DEF Dispatched
<1>3. IsFiniteSet(Dispatched) /\ Cardinality(Dispatched) = 0 BY <1>2, FS_EmptySet
<1>4. checkpoint.calls = 0 BY <1>1 DEF NoRun
<1>5. \A c \in Controller : me[c].at # "execute" BY <1>1, FreshTyped
<1> QED BY <1>1, <1>3, <1>4, <1>5 DEF DocInv, Paid, Told, AnswersAgree

LEMMA NextDocInv == Inv /\ Documented /\ DocInv /\ [Next]_vars => DocInv'
<1> SUFFICES ASSUME Inv, Documented, DocInv, [Next]_vars PROVE DocInv' OBVIOUS
<1>1. CASE Next
  <2>1. ASSUME NEW c \in Controller, Execute(c), Watches PROVE DocInv'
    BY <2>1, PaidByExecuting, ToldKeeps DEF DocInv
  <2>2. ASSUME NEW c \in Controller, PersistEffect(c), Moves PROVE DocInv'
    BY <2>2, PaidByPersisting, ToldKeeps DEF DocInv
  <2>3. ASSUME Watches \/ Moves \/ Ends, Quietly PROVE DocInv'
    BY <2>3, PaidQuietly, ToldKeeps DEF DocInv
  <2> QED BY <1>1, <2>1, <2>2, <2>3, NextShows
<1>2. CASE UNCHANGED vars
  <2>1. checkpoint' = checkpoint /\ answers' = answers /\ me' = me /\ dispatches' = dispatches
    BY <1>2 DEF vars, world
  <2>2. Watches /\ Quietly BY <2>1 DEF Watches, Quietly
  <2> QED BY <2>2, PaidQuietly, ToldKeeps DEF DocInv
<1> QED BY <1>1, <1>2

-------------------------------------------------------------------------------
LEMMA Invariance == Spec => []Inv
<1>1. Init => Inv BY InitInv
<1>2. Inv /\ [Next]_vars => Inv' BY NextInv
<1> QED BY <1>1, <1>2, PTL DEF Spec

(* The variables keep their kinds, whoever calls what when.                *)
THEOREM Typing == Spec => []TypeOK
<1>1. Inv => TypeOK BY DEF Inv, Row0, Rows, Reasons, Outcomes, Graphs, Worlds, TypeOK
<1> QED BY <1>1, Invariance, PTL

(* However many controllers serve a run, crash and resume, an iteration    *)
(* dispatches one operation at most, and that one once.                    *)
THEOREM EffectsHappenOnce == Spec => []OneEffectPerIteration
<1>1. Inv => OneEffectPerIteration
  <2> SUFFICES ASSUME Inv, NEW k \in Iteration
               PROVE  /\ \A i \in Intent : dispatches[<<k, i>>] <= 1
                      /\ Cardinality({i \in Intent : dispatches[<<k, i>>] > 0}) <= 1
    BY DEF OneEffectPerIteration
  <2> DEFINE S == {i \in Intent : dispatches[<<k, i>>] > 0}
  <2>1. \A i \in Intent : dispatches[<<k, i>>] <= 1 BY DEF Inv, Effects, Once
  <2>2. \A i, j \in S : i = j BY DEF Inv, Effects, Once
  <2> HIDE DEF S
  <2>3. CASE S = {}
    <3>1. Cardinality(S) = 0 BY <2>3, FS_EmptySet
    <3>2. Cardinality(S) <= 1 BY <3>1
    <3> QED BY <2>1, <3>2 DEF S
  <2>4. CASE S # {}
    <3>1. PICK i : S = {i} BY <2>2, <2>4
    <3>2. Cardinality({i}) = 1 BY FS_Singleton
    <3>3. Cardinality(S) <= 1 BY <3>1, <3>2
    <3> QED BY <2>1, <3>3 DEF S
  <2> QED BY <2>3, <2>4
<1> QED BY <1>1, Invariance, PTL

(* An effect is preceded by its checkpoint, which names it as uncertain    *)
(* until it is accounted for.                                              *)
THEOREM EffectsAreCheckpointed == Spec => []EffectIsCheckpointed
<1>1. Inv => EffectIsCheckpointed
  <2> SUFFICES ASSUME Inv, NEW o \in Operation, dispatches[o] > 0, checkpoint.phase # "terminal"
               PROVE  \/ o[1] < checkpoint.iter
                      \/ /\ o = <<checkpoint.iter, checkpoint.intent>>
                         /\ checkpoint.phase \in {"pending-effect", "reconciliation-required", "reconciled-effect"}
    BY DEF EffectIsCheckpointed
  <2>1. PICK k \in Iteration, i \in Intent : o = <<k, i>> BY DEF Operation
  <2> QED BY <2>1 DEF Inv, Effects, Ahead
<1> QED BY <1>1, Invariance, PTL

(* An effect whose rule asks for an approval had one, consumed for it.     *)
THEOREM EffectsAreApproved == Spec => []EffectIsApproved
<1>1. Inv => EffectIsApproved BY DEF Inv, Effects
<1> QED BY <1>1, Invariance, PTL

(* What the graph records as a successful execution was one.               *)
THEOREM ResultsAreReal == Spec => []ResultIsReal
<1>1. Inv => ResultIsReal BY DEF Inv
<1> QED BY <1>1, Invariance, PTL

(* A run that ends accepted has earned it: evidence for every guard, an    *)
(* accept decision in its graph, and an effect that succeeded.             *)
THEOREM AcceptsAreEarned == Spec => []AcceptIsEarned
<1>1. Inv => AcceptIsEarned BY DEF Inv, Earned, AcceptIsEarned
<1> QED BY <1>1, Invariance, PTL

(* Called as documented, a run never has more effects than its durable     *)
(* counter has calls.                                                      *)
THEOREM EffectsArePaid == Documented /\ Spec => []BudgetCoversEffects
<1>1. DocInv => BudgetCoversEffects BY DEF DocInv, Paid, Dispatched, BudgetCoversEffects
<1>2. Documented => []Documented
  <2>1. Documented => Documented' BY DEF Documented
  <2> QED BY <2>1, PTL
<1>3. Init => DocInv BY InitDocInv
<1>4. Inv /\ Documented /\ DocInv /\ [Next]_vars => DocInv' BY NextDocInv
<1> QED BY <1>1, <1>2, <1>3, <1>4, Invariance, PTL DEF Spec

(* And nobody is told a decision that is not the one of the row.           *)
THEOREM AnswersNeverDiffer == Documented /\ Spec => []AnswersAgree
<1>1. DocInv => AnswersAgree BY DEF DocInv, Told
<1>2. Documented => []Documented
  <2>1. Documented => Documented' BY DEF Documented
  <2> QED BY <2>1, PTL
<1>3. Init => DocInv BY InitDocInv
<1>4. Inv /\ Documented /\ DocInv /\ [Next]_vars => DocInv' BY NextDocInv
<1> QED BY <1>1, <1>2, <1>3, <1>4, Invariance, PTL DEF Spec

(* No step drops evidence that was gathered for the final goal.            *)
THEOREM EvidenceNeverShrinks == Documented /\ Spec => EvidenceIsKept
<1>1. Inv /\ Documented /\ [Next]_vars => [EvidenceGrows]_vars
  <2> SUFFICES ASSUME Inv, Documented, Next PROVE EvidenceGrows OBVIOUS
  <2>1. Watches => EvidenceGrows BY DEF Watches, EvidenceGrows
  <2> QED BY <2>1, NextShows, LifecycleSteps
<1>2. Documented => []Documented
  <2>1. Documented => Documented' BY DEF Documented
  <2> QED BY <2>1, PTL
<1> QED BY <1>1, <1>2, Invariance, PTL DEF Spec, EvidenceIsKept, EvidenceGrows

(* Whatever controllers, crashes, approvals and reconciliations do, the    *)
(* checkpoint moves through its phases as RunLifecycle allows: every step  *)
(* is a step of the life cycle or leaves it where it is.                   *)
THEOREM RefinesRunLifecycle == Documented /\ Spec => ImplementsRunLifecycle
<1>1. Init => Lifecycle!Init BY DEF Init, NoRun, Lifecycle!Init
<1>2. Inv /\ Documented /\ [Next]_vars => [Lifecycle!Next]_(Lifecycle!vars)
  <2> SUFFICES ASSUME Inv, Documented, [Next]_vars PROVE Lifecycle!Next \/ UNCHANGED Lifecycle!vars
    OBVIOUS
  <2>1. CASE Next
    <3>1. Watches => UNCHANGED Lifecycle!vars BY DEF Watches, Lifecycle!vars
    <3>2. Moves => Lifecycle!Next BY DEF Moves, Lifecycle!Next
    <3>3. Ends => Lifecycle!Next BY DEF Ends, Lifecycle!Next
    <3> QED BY <2>1, <3>1, <3>2, <3>3, NextShows
  <2>2. CASE UNCHANGED vars BY <2>2 DEF vars, Lifecycle!vars
  <2> QED BY <2>1, <2>2
<1>3. Documented => []Documented
  <2>1. Documented => Documented' BY DEF Documented
  <2> QED BY <2>1, PTL
<1> QED BY <1>1, <1>2, <1>3, Invariance, PTL DEF Spec, ImplementsRunLifecycle, Lifecycle!Spec
=============================================================================
