----------------------------- MODULE VerifiedLoop -----------------------------
(***************************************************************************)
(* VerifiedLoop.run and the calls around it (controller.py), over the      *)
(* checkpoint store (run_state.py), the durable control graph and the      *)
(* executor.  Several controller processes may work on one run; each can   *)
(* stop at any step and only what it wrote durably survives.               *)
(*                                                                         *)
(* One step is one durable write: a graph transaction, a checkpoint save,  *)
(* a gate decision, an executor call.  A call that raises ends the         *)
(* process, so it is indistinguishable from a crash just after the last    *)
(* write; only the rejections that matter are steps of their own.  A call  *)
(* that returns leaves a controller object with what it holds in memory,   *)
(* on which run() and reconcile_effect() may be called again.              *)
(*                                                                         *)
(* The controller is durable (state_store and evaluation_orchestrator are  *)
(* set).  What the planner proposes, the gate denies, the verifiers find   *)
(* and the repair controller directs is a free choice.                     *)
(***************************************************************************)
EXTENDS ControlGraph, Sequences

CONSTANTS
    Controller,      \* controller processes that may serve the run
    Intent,          \* proposals, each with its own digest
    RuleOf,          \* intent -> the contract rule it matches
    ApprovalRules,   \* rules whose intents need an approval
    MaxIterations, MaxToolCalls,   \* budgets of the contract
    Plans,           \* the checks of the evaluation plans, in order
    Criteria,        \* the guards, in the order of the manifest's nodes
    LocalGuards,     \* guards whose checks need no evaluator's receipt
    MaxCrashes,      \* bound on controller crashes
    AnyObjectReconciles,  \* reconcile_effect is called on objects that did not just run()
    CancelFrom       \* phases in which an operator calls cancel_run

NoIntent == "no intent"

ASSUME LoopAssumption ==
    /\ RuleOf \in [Intent -> Rules] /\ NoIntent \notin Intent
    /\ ApprovalRules \subseteq Rules
    /\ Plans \in Seq(DOMAIN PlanReceipt) /\ Criteria \in Seq(Guards)
    /\ Guards = {Criteria[k] : k \in 1..Len(Criteria)} /\ LocalGuards \subseteq Guards
    /\ MaxIterations \in Nat \ {0} /\ MaxToolCalls \in Nat /\ MaxCrashes \in Nat
    /\ AnyObjectReconciles \in BOOLEAN

Phases == {"none", "ready", "pending-authorization", "awaiting-approval", "pending-effect",
           "reconciliation-required", "reconciled-effect", "terminal"}
ASSUME CancelAssumption == CancelFrom \subseteq Phases \ {"none"}

Iteration == 1..MaxIterations
Operation == Iteration \X Intent      \* operation_id: a digest of both

Done  == [Blank EXCEPT !["success"] = "True"]

Monitor == INSTANCE TransitionMonitor WITH
    Node <- ControlNodes, Edge <- ControlEdges, Join <- ControlJoins,
    Field <- ControlFields, Value <- ControlValues

VARIABLES
    checkpoint,  \* the row of run_checkpoints, without its revision
    current,     \* controllers whose revision is the row's revision
    done, begun, \* iteration -> completed and reserved nodes of the graph
    facts,       \* iteration -> node -> what it left
    me,          \* controller -> its process
    job,         \* operation -> what the executor did with it
    dispatches,  \* operation -> times it was handed to the executor
    proposed,    \* intents the planner has used up
    fresh,       \* intents with an unused approval
    spent,       \* intents an approval was consumed for
    answers,     \* final decisions run() has returned to anyone
    crashes

graph == <<done, begun, facts>>
world == <<job, dispatches, proposed, fresh, spent>>
vars  == <<checkpoint, current, graph, me, world, answers, crashes>>

NoRun == [phase |-> "none", iter |-> 1, calls |-> 0, intent |-> NoIntent, outcome |-> "none",
          evidence |-> {}, decision |-> "none", reason |-> "none"]

Process(label, row) ==
    [at |-> label, todo |-> <<>>, view |-> row, intent |-> NoIntent, obs |-> "none", evaluated |-> FALSE]

(* A controller object that is not running: a new one counts from zero, an *)
(* old one still holds the counter and the evidence of its last run().     *)
Fresh     == Process("idle", NoRun)
Idle(row) == Process("idle", [NoRun EXCEPT !.calls = row.calls, !.evidence = row.evidence])

Init ==
    /\ checkpoint = NoRun /\ current = {}
    /\ done  = [k \in Iteration |-> {}]
    /\ begun = [k \in Iteration |-> {}]
    /\ facts = [k \in Iteration |-> [n \in ControlNodes |-> Monitor!NoFacts]]
    /\ me    = [c \in Controller |-> Fresh]
    /\ job   = [o \in Operation |-> "none"]
    /\ dispatches = [o \in Operation |-> 0]
    /\ proposed = {} /\ fresh = {} /\ spent = {} /\ answers = {} /\ crashes = 0

-------------------------------------------------------------------------------
(* Graph calls.  A process carries the calls it is about to make in todo.  *)

Call(op, n, p) == <<[op |-> op, node |-> n, facts |-> p]>>
Advance(n, p)  == Call("advance", The(n), p)          \* _graph_advance
Complete(n, p) == Call("complete", n, p)              \* _graph_complete
Reserve(n)     == Call("reserve", n, Blank)           \* _graph_reserve
Finish(n, p)   == Call("finish", n, p)                \* _graph_complete(reservation=...)

Due(c) == Head(me[c].todo)
At(c, label) == me[c].at = label /\ me[c].todo = <<>>
Round(c) == me[c].view.iter

CanStart(c) == Monitor!Enabled(Due(c).node, done[Round(c)], begun[Round(c)], facts[Round(c)], Due(c).facts)

Settle(c, n, p) ==
    /\ done'  = [done EXCEPT ![Round(c)] = @ \cup {n}]
    /\ begun' = [begun EXCEPT ![Round(c)] = @ \ {n}]
    /\ facts' = [facts EXCEPT ![Round(c)][n] = p]

NextCall(c) == me' = [me EXCEPT ![c].todo = Tail(@)]

Unchanged == UNCHANGED <<checkpoint, current, world, answers, crashes>>

(* advance and complete return quietly if the node is already completed.   *)
AlreadyDone(c) ==
    /\ me[c].todo # <<>> /\ Due(c).op # "reserve"
    /\ Due(c).node \in done[Round(c)]
    /\ NextCall(c)
    /\ Unchanged /\ UNCHANGED graph

GraphAdvance(c) ==
    /\ me[c].todo # <<>> /\ Due(c).op = "advance"
    /\ CanStart(c)
    /\ Settle(c, Due(c).node, Due(c).facts)
    /\ NextCall(c)
    /\ Unchanged

(* complete reserves the node, asks its owner, and only then completes it. *)
GraphReserve(c) ==
    /\ me[c].todo # <<>> /\ Due(c).op \in {"reserve", "complete"}
    /\ CanStart(c)
    /\ begun' = [begun EXCEPT ![Round(c)] = @ \cup {Due(c).node}]
    /\ me' = [me EXCEPT ![c].todo = IF Due(c).op = "reserve" THEN Tail(@)
                                    ELSE Finish(Due(c).node, Due(c).facts) \o Tail(@)]
    /\ Unchanged /\ UNCHANGED <<done, facts>>

GraphFinish(c) ==
    /\ me[c].todo # <<>> /\ Due(c).op = "finish"
    /\ Due(c).node \in begun[Round(c)]
    /\ Settle(c, Due(c).node, Due(c).facts)
    /\ NextCall(c)
    /\ Unchanged

(* GraphTransitionRejected ends run(), except inside the evaluation, whose *)
(* handler turns every exception into `evaluation.unavailable`.            *)
GiveUp(c) == me' = [me EXCEPT ![c] = IF @.at = "evaluating" THEN [@ EXCEPT !.todo = <<>>, !.evaluated = FALSE]
                                     ELSE Fresh]

GraphRejected(c) ==
    /\ me[c].todo # <<>> /\ Due(c).op # "finish"
    /\ ~CanStart(c)
    /\ Due(c).op = "reserve" \/ Due(c).node \notin done[Round(c)]
    /\ GiveUp(c)
    /\ Unchanged /\ UNCHANGED graph

GraphStep(c) ==
    AlreadyDone(c) \/ GraphAdvance(c) \/ GraphReserve(c) \/ GraphFinish(c) \/ GraphRejected(c)

-------------------------------------------------------------------------------
(* Checkpoints.  save() compares the revision the process loaded with the  *)
(* stored one and adds one to it, in one transaction: it succeeds iff      *)
(* nobody saved since, and then every other process is behind.  A losing   *)
(* save raises RunStateConflict.                                           *)

SaveUnchecked(c, row) == checkpoint' = row /\ current' = {c}   \* mutant: no compare-and-swap

Save(c, row) ==
    /\ c \in current
    /\ checkpoint' = row
    /\ current' = {c}

SavePoints == {"branch", "iterate", "intent", "gate", "prepared", "evaluating", "accept"}

SaveConflict(c) ==
    /\ me[c].todo = <<>> /\ me[c].at \in SavePoints
    /\ c \notin current
    /\ me' = [me EXCEPT ![c] = Fresh]
    /\ Unchanged /\ UNCHANGED graph

(* _save_checkpoint keeps what the process holds and drops what the next   *)
(* phase may not retain.                                                   *)
Row(c, phase, intent) ==
    [me[c].view EXCEPT !.phase = phase, !.intent = intent, !.outcome = "none"]

Terminated(row, d, why) ==
    [row EXCEPT !.phase = "terminal", !.intent = NoIntent, !.outcome = "none", !.decision = d, !.reason = why]

Return(c) == me' = [me EXCEPT ![c] = Idle(@.view)]

Terminal(c, d, why) ==
    /\ Save(c, Terminated(Row(c, "terminal", NoIntent), d, why))
    /\ answers' = answers \cup {d}
    /\ Return(c)
    /\ UNCHANGED <<graph, world, crashes>>

(* Row saved, the process goes on holding it.                              *)
Proceed(c, row, label, calls) ==
    /\ Save(c, row)
    /\ me' = [me EXCEPT ![c] = [@ EXCEPT !.view = row, !.at = label, !.todo = calls]]
    /\ UNCHANGED <<answers, crashes>>

(* _restore_or_start *)
StartRun(c) ==
    /\ At(c, "idle") /\ checkpoint.phase = "none"
    /\ checkpoint' = [NoRun EXCEPT !.phase = "ready"]
    /\ current' = {c}
    /\ me' = [me EXCEPT ![c] = Process("iterate", checkpoint')]
    /\ UNCHANGED <<graph, world, answers, crashes>>

ResumeRun(c) ==
    /\ At(c, "idle")
    /\ checkpoint.phase \in {"ready", "pending-authorization", "awaiting-approval", "reconciled-effect"}
    /\ current' = current \cup {c}
    /\ me' = [me EXCEPT ![c] = Process("iterate", checkpoint)]
    /\ UNCHANGED <<checkpoint, graph, world, answers, crashes>>

ReplayEffect(c) ==      \* mutant: an uncertain effect is taken for one that never began
    /\ At(c, "idle") /\ checkpoint.phase = "pending-effect"
    /\ checkpoint' = [checkpoint EXCEPT !.phase = "ready", !.intent = NoIntent]
    /\ current' = {c}
    /\ me' = [me EXCEPT ![c] = Idle(checkpoint)]
    /\ UNCHANGED <<graph, world, answers, crashes>>

BlockOnEffect(c) ==
    /\ At(c, "idle") /\ checkpoint.phase = "pending-effect"
    /\ checkpoint' = [checkpoint EXCEPT !.phase = "reconciliation-required"]
    /\ current' = {c}
    /\ me' = [me EXCEPT ![c] = Idle(checkpoint)]
    /\ UNCHANGED <<graph, world, answers, crashes>>

StayBlocked(c) ==
    /\ At(c, "idle") /\ checkpoint.phase = "reconciliation-required"
    /\ current' = current \cup {c}
    /\ me' = [me EXCEPT ![c] = Idle(checkpoint)]
    /\ UNCHANGED <<checkpoint, graph, world, answers, crashes>>

ReturnDecision(c) ==
    /\ At(c, "idle") /\ checkpoint.phase = "terminal"
    /\ answers' = answers \cup {checkpoint.decision}
    /\ current' = current \cup {c}
    /\ me' = [me EXCEPT ![c] = Idle(checkpoint)]
    /\ UNCHANGED <<checkpoint, graph, world, crashes>>

-------------------------------------------------------------------------------
(* The loop of run().                                                      *)

OpenIterationUnbound(k) ==    \* mutant: the principal's contract is not bound
    IF done[k] # {} THEN <<>> ELSE Advance("task.contract", Blank) \o Advance("snapshot.request", Blank)

OpenIteration(k) ==    \* _graph_begin_iteration
    IF done[k] # {} THEN <<>>
    ELSE Advance("task.contract", Blank) \o Complete(The("principal.contract"), Done)
         \o Advance("snapshot.request", Blank)

Iterate(c) ==
    /\ At(c, "iterate")
    /\ IF Round(c) > MaxIterations
       THEN Terminal(c, "stop", "iteration-budget-exhausted")
       ELSE /\ me' = [me EXCEPT ![c].at = "branch", ![c].todo = OpenIteration(Round(c))]
            /\ Unchanged /\ UNCHANGED graph

SpentTooLate(c) == me[c].view.calls > MaxToolCalls    \* mutant: off by one

Spent(c) == me[c].view.calls >= MaxToolCalls

StopOnToolCalls(c) ==
    /\ At(c, "branch") /\ Spent(c)
    /\ Terminal(c, "stop", "tool-call-budget-exhausted")

AdmitAnyReconciled(c) ==      \* mutant: a reconciled failure completes the result like a success
    /\ At(c, "branch") /\ ~Spent(c) /\ me[c].view.phase = "reconciled-effect"
    /\ me' = [me EXCEPT ![c].at = "result", ![c].obs = me[c].view.outcome,
                        ![c].todo = Complete(The("executor.result"), Done)]
    /\ Unchanged /\ UNCHANGED graph

AdmitReconciled(c) ==
    /\ At(c, "branch") /\ ~Spent(c) /\ me[c].view.phase = "reconciled-effect"
    /\ me' = [me EXCEPT ![c].at = "result", ![c].obs = me[c].view.outcome,
                        ![c].todo = IF me[c].view.outcome = "succeeded"
                                    THEN Complete(The("executor.result"), Done) \o Complete(The("artifact.manifest"), Done)
                                    ELSE <<>>]
    /\ Unchanged /\ UNCHANGED graph

ResumeIntent(c) ==
    /\ At(c, "branch") /\ ~Spent(c)
    /\ me[c].view.phase \in {"pending-authorization", "awaiting-approval"}
    /\ me' = [me EXCEPT ![c].at = "gate", ![c].intent = me[c].view.intent]
    /\ Unchanged /\ UNCHANGED graph

Propose(c, i) ==
    /\ At(c, "branch") /\ ~Spent(c) /\ me[c].view.phase = "ready"
    /\ i \notin proposed
    /\ proposed' = proposed \cup {i}
    /\ me' = [me EXCEPT ![c].at = "intent", ![c].intent = i,
                        ![c].todo = Advance("action.intent", [Blank EXCEPT !["rule_index"] = RuleOf[i]])]
    /\ UNCHANGED <<checkpoint, current, graph, job, dispatches, fresh, spent, answers, crashes>>

PersistIntent(c) ==
    /\ At(c, "intent")
    /\ Proceed(c, Row(c, "pending-authorization", me[c].intent), "gate", <<>>)
    /\ UNCHANGED <<graph, world>>

(* PolicyGate.authorize consumes a matching approval before it issues the  *)
(* capability; without one it refuses.                                     *)
Asks(i) == RuleOf[i] \in ApprovalRules

Authority(i) ==     \* _graph_authorise_action_rule, capability.execute, operation.prepared
    Complete(<<"action.rule", RuleOf[i]>>, Done)
    \o Advance("join.action.rule.any", Blank)
    \o Complete(The("policy.decision"), [Done EXCEPT !["approval_required"] = IF Asks(i) THEN "true" ELSE "false"])
    \o (IF Asks(i) THEN Complete(<<"approval.rule", RuleOf[i]>>, Done) ELSE <<>>)
    \o Advance("join.action.authority.any", Blank)
    \o Complete(The("capability.execute"), Done)
    \o Complete(The("operation.prepared"), Done)

AuthorizeUnasked(c) ==        \* mutant: a missing approval is not noticed
    /\ At(c, "gate")
    /\ fresh' = fresh \ {me[c].intent}
    /\ spent' = spent \cup (fresh \cap {me[c].intent})
    /\ me' = [me EXCEPT ![c].at = "prepared", ![c].todo = Authority(me[c].intent)]
    /\ UNCHANGED <<checkpoint, current, graph, job, dispatches, proposed, answers, crashes>>

Authorize(c) ==
    /\ At(c, "gate")
    /\ LET i == me[c].intent
       IN  /\ Asks(i) => i \in fresh
           /\ fresh' = fresh \ {i}
           /\ spent' = IF Asks(i) THEN spent \cup {i} ELSE spent
           /\ me' = [me EXCEPT ![c].at = "prepared", ![c].todo = Authority(i)]
    /\ UNCHANGED <<checkpoint, current, graph, job, dispatches, proposed, answers, crashes>>

AwaitApproval(c) ==
    /\ At(c, "gate") /\ Asks(me[c].intent) /\ me[c].intent \notin fresh
    /\ Save(c, Row(c, "awaiting-approval", me[c].intent))
    /\ Return(c)
    /\ UNCHANGED <<graph, world, answers, crashes>>

Deny(c) == At(c, "gate") /\ Terminal(c, "escalate", "policy-denied")

PersistNothing(c) ==          \* mutant: the effect begins before its checkpoint is written
    /\ At(c, "prepared")
    /\ me' = [me EXCEPT ![c].at = "execute", ![c].todo = Advance("executor.dispatch", Blank)]
    /\ Unchanged /\ UNCHANGED graph

PersistUncounted(c) ==        \* mutant: the call is not counted
    /\ At(c, "prepared")
    /\ Proceed(c, Row(c, "pending-effect", me[c].intent), "execute", Advance("executor.dispatch", Blank))
    /\ UNCHANGED <<graph, world>>

PersistEffect(c) ==
    /\ At(c, "prepared")
    /\ Proceed(c, [Row(c, "pending-effect", me[c].intent) EXCEPT !.calls = @ + 1], "execute",
               Advance("executor.dispatch", Blank))
    /\ UNCHANGED <<graph, world>>

Execute(c) ==
    /\ At(c, "execute")
    /\ LET o == <<Round(c), me[c].intent>>
       IN  /\ dispatches' = [dispatches EXCEPT ![o] = @ + 1]
           /\ job' = [job EXCEPT ![o] = IF @ = "none" THEN "running" ELSE @]
    /\ me' = [me EXCEPT ![c].at = "await"]
    /\ UNCHANGED <<checkpoint, current, graph, proposed, fresh, spent, answers, crashes>>

ObserveResult(c) ==
    /\ At(c, "await")
    /\ LET out == job[<<Round(c), me[c].intent>>]
       IN  /\ out \in {"succeeded", "failed"}
           /\ me' = [me EXCEPT ![c].at = "result", ![c].obs = out,
                               ![c].todo = IF out = "succeeded"
                                           THEN Complete(The("executor.result"), Done) \o Complete(The("artifact.manifest"), Done)
                                           ELSE Complete(The("executor.result"), [Blank EXCEPT !["success"] = "False"])]
    /\ Unchanged /\ UNCHANGED graph

(* The protected evaluation of a successful execution: the snapshot, then  *)
(* for every plan its evaluator and its receipt, in some fixed order.      *)
PlanCall(k) ==
    Reserve(<<"evaluator", Plans[k]>>) \o Finish(<<"evaluator", Plans[k]>>, Done)
    \o Complete(<<"receipt", PlanReceipt[Plans[k]]>>, Done)

PlanCalls == [j \in 1..(3 * Len(Plans)) |-> PlanCall((j + 2) \div 3)[1 + ((j + 2) % 3)]]

Evaluate(c) ==
    /\ At(c, "result")
    /\ LET ok == me[c].obs = "succeeded"
       IN  me' = [me EXCEPT ![c].at = "evaluating", ![c].evaluated = ok,
                            ![c].todo = IF ok THEN Complete(The("snapshot.materialized"), Done) \o PlanCalls ELSE <<>>]
    /\ Unchanged /\ UNCHANGED graph

(* A snapshot, evaluator or completion service fails during the evaluation.*)
EvaluationUnavailable(c) ==
    /\ me[c].at = "evaluating" /\ me[c].todo # <<>>
    /\ GiveUp(c)
    /\ Unchanged /\ UNCHANGED graph

GatheredLast(c) ==            \* mutant: only the last action's evidence is held
    IF me[c].obs = "succeeded" THEN SUBSET Guards ELSE {me[c].view.evidence}

(* Verification adds the guards that its checks prove of an action that    *)
(* ran to the evidence gathered so far.  An evaluation that failed leaves  *)
(* it without receipts, and with the checks that need none.                *)
Provable(c) == IF me[c].evaluated THEN Guards ELSE LocalGuards

Gathered(c) ==
    IF me[c].obs = "succeeded" THEN {me[c].view.evidence \cup S : S \in SUBSET Provable(c)}
    ELSE {me[c].view.evidence}

CriterionCalls ==
    [k \in 1..Len(Criteria) |-> Head(Complete(<<"criterion", Criteria[k]>>, [Done EXCEPT !["passed"] = "True"]))]

BeginAcceptUndecided(c) ==    \* mutant: the accept decision is not completed in the graph
    /\ At(c, "evaluating") /\ me[c].obs = "succeeded"
    /\ Guards \in Gathered(c)
    /\ me' = [me EXCEPT ![c].at = "accept", ![c].view.evidence = Guards,
                        ![c].todo = CriterionCalls \o Advance("join.guards.all", Blank)]
    /\ Unchanged /\ UNCHANGED graph

(* The final verifier passes on evidence for every guard: _graph_accept.   *)
BeginAccept(c) ==
    /\ At(c, "evaluating") /\ me[c].obs = "succeeded"
    /\ Guards \in Gathered(c)
    /\ me' = [me EXCEPT ![c].at = "accept", ![c].view.evidence = Guards,
                        ![c].todo = CriterionCalls \o Advance("join.guards.all", Blank)
                                    \o Complete(The("decision.accept"), Done)]
    /\ Unchanged /\ UNCHANGED graph

Accept(c) == At(c, "accept") /\ Terminal(c, "accept", "verified-success")

(* Progress on a criterion, an unmet final goal or a repair: next round.   *)
NextRound(c, e) ==
    /\ At(c, "evaluating") /\ e \in Gathered(c)
    /\ Proceed(c, [Row(c, "ready", NoIntent) EXCEPT !.iter = @ + 1, !.evidence = e], "iterate", <<>>)
    /\ UNCHANGED <<graph, world>>

(* A repeated failure, or a repair directive that escalates.               *)
Escalate(c, e) ==
    /\ At(c, "evaluating") /\ e \in Gathered(c)
    /\ Save(c, [Terminated(me[c].view, "escalate", "repair") EXCEPT !.evidence = e])
    /\ answers' = answers \cup {"escalate"}
    /\ Return(c)
    /\ UNCHANGED <<graph, world, crashes>>

-------------------------------------------------------------------------------
(* Around the loop: the executor, the reviewer, the operator, the machine. *)

JobEnds(o, out) ==
    /\ job[o] = "running"
    /\ job' = [job EXCEPT ![o] = out]
    /\ UNCHANGED <<checkpoint, current, graph, me, dispatches, proposed, fresh, spent, answers, crashes>>

Approve ==
    /\ checkpoint.phase = "awaiting-approval"
    /\ checkpoint.intent \notin fresh
    /\ fresh' = fresh \cup {checkpoint.intent}
    /\ UNCHANGED <<checkpoint, current, graph, me, job, dispatches, proposed, spent, answers, crashes>>

(* reconcile_effect: the supervisor signs an outcome only for an operation *)
(* it has finished.  The row is saved with the counter and the evidence    *)
(* the object holds, which nothing reloads; the run() it ends with is a    *)
(* ResumeRun.                                                              *)
ReconcileEffect(c) ==
    /\ At(c, "idle") /\ checkpoint.phase = "reconciliation-required"
    /\ AnyObjectReconciles \/ c \in current
    /\ LET out == job[<<checkpoint.iter, checkpoint.intent>>]
       IN  /\ out \in {"succeeded", "failed"}
           /\ checkpoint' = [checkpoint EXCEPT !.phase = "reconciled-effect", !.outcome = out,
                                               !.calls = me[c].view.calls, !.evidence = me[c].view.evidence]
    /\ current' = {c}
    /\ UNCHANGED <<graph, me, world, answers, crashes>>

(* cancel_run adopts whatever checkpoint there is and ends the run.        *)
CancelRun ==
    /\ checkpoint.phase \in CancelFrom
    /\ checkpoint' = Terminated(checkpoint, "stop", "cancelled-by-requester")
    /\ current' = {}
    /\ answers' = answers \cup {"stop"}
    /\ UNCHANGED <<graph, me, world, crashes>>

Crash(c) ==
    /\ me[c] # Fresh /\ crashes < MaxCrashes
    /\ crashes' = crashes + 1
    /\ current' = current \ {c}
    /\ me' = [me EXCEPT ![c] = Fresh]
    /\ UNCHANGED <<checkpoint, graph, world, answers>>

Step(c) ==
    \/ GraphStep(c) \/ SaveConflict(c)
    \/ StartRun(c) \/ ResumeRun(c) \/ BlockOnEffect(c) \/ StayBlocked(c) \/ ReturnDecision(c)
    \/ Iterate(c) \/ StopOnToolCalls(c) \/ AdmitReconciled(c) \/ ResumeIntent(c)
    \/ \E i \in Intent : Propose(c, i)
    \/ PersistIntent(c) \/ Authorize(c) \/ AwaitApproval(c) \/ Deny(c)
    \/ PersistEffect(c) \/ Execute(c) \/ ObserveResult(c)
    \/ Evaluate(c) \/ EvaluationUnavailable(c) \/ BeginAccept(c) \/ Accept(c)
    \/ \E e \in SUBSET Guards : NextRound(c, e) \/ Escalate(c, e)

Next ==
    \/ \E c \in Controller : Step(c) \/ Crash(c)
    \/ \E o \in Operation, out \in {"succeeded", "failed"} : JobEnds(o, out)
    \/ \E c \in Controller : ReconcileEffect(c)
    \/ Approve \/ CancelRun

Spec == Init /\ [][Next]_vars

(***************************************************************************)
(* A deployment restarts controllers, executors end what they run, and a   *)
(* process that can take its next step takes it.  Nobody is bound to       *)
(* approve or to cancel; reconcile_effect is called while it is due.  The  *)
(* evaluation services, asked again and again, answer at last.             *)
(***************************************************************************)
FairSpec ==
    /\ Spec
    /\ \A c \in Controller :
          /\ WF_vars(Step(c))
          /\ SF_vars(me[c].at = "evaluating" /\ AlreadyDone(c))
          /\ SF_vars(me[c].at = "evaluating" /\ GraphReserve(c))
    /\ \A o \in Operation : WF_vars(\E out \in {"succeeded", "failed"} : JobEnds(o, out))
    /\ WF_vars(\E c \in Controller : ReconcileEffect(c))

-------------------------------------------------------------------------------
TypeOK ==
    /\ checkpoint \in [phase : Phases, iter : 1..(MaxIterations + 1), calls : 0..MaxToolCalls,
                       intent : Intent \cup {NoIntent}, outcome : {"none", "succeeded", "failed"},
                       evidence : SUBSET Guards, decision : {"none", "accept", "stop", "escalate"},
                       reason : {"none", "iteration-budget-exhausted", "tool-call-budget-exhausted",
                                 "policy-denied", "verified-success", "repair", "cancelled-by-requester"}]
    /\ current \subseteq Controller
    /\ \A k \in Iteration : done[k] \cup begun[k] \subseteq ControlNodes /\ done[k] \cap begun[k] = {}
    /\ job \in [Operation -> {"none", "running", "succeeded", "failed"}]
    /\ proposed \cup fresh \cup spent \subseteq Intent
    /\ answers \subseteq {"accept", "stop", "escalate"}

(* An iteration hands at most one operation to the executor, and that one  *)
(* once, however many controllers run, crash and resume in it.             *)
OneEffectPerIteration ==
    \A k \in Iteration :
        /\ \A i \in Intent : dispatches[<<k, i>>] <= 1
        /\ Cardinality({i \in Intent : dispatches[<<k, i>>] > 0}) <= 1

(* The effect checkpoint is written ahead of the effect and stays until    *)
(* the effect is accounted for: whatever was dispatched in the iteration   *)
(* the checkpoint is at is the very operation it names as uncertain.       *)
EffectIsCheckpointed ==
    \A o \in Operation :
        dispatches[o] > 0 /\ checkpoint.phase # "terminal" =>
            \/ o[1] < checkpoint.iter
            \/ /\ o = <<checkpoint.iter, checkpoint.intent>>
               /\ checkpoint.phase \in {"pending-effect", "reconciliation-required", "reconciled-effect"}

(* The durable call counter covers every effect, so that neither crashes   *)
(* nor competing controllers spend more calls than the contract allows.    *)
BudgetCoversEffects ==
    Cardinality({o \in Operation : dispatches[o] > 0}) <= checkpoint.calls

(* An effect whose rule needs approval was dispatched on an approval that  *)
(* was consumed for exactly that intent.                                   *)
EffectIsApproved ==
    \A o \in Operation : dispatches[o] > 0 /\ Asks(o[2]) => o[2] \in spent

(* An accepted run has evidence for every guard, an accept decision in the *)
(* graph of its last iteration, and an effect there that really succeeded. *)
AcceptIsEarned ==
    checkpoint.decision = "accept" =>
        /\ checkpoint.evidence = Guards
        /\ The("decision.accept") \in done[checkpoint.iter]
        /\ \E i \in Intent : job[<<checkpoint.iter, i>>] = "succeeded"

(* Evidence is kept: no step of anybody drops what was gathered for the    *)
(* final goal, however often the run is resumed or reconciled.             *)
EvidenceIsKept == [][checkpoint.evidence \subseteq checkpoint'.evidence]_vars

(* What the graph of an iteration records as produced is what the executor *)
(* did: a successful result node means a successful operation.             *)
ResultIsReal ==
    \A k \in Iteration :
        The("executor.result") \in done[k] /\ facts[k][The("executor.result")]["success"] = "True" =>
            \E i \in Intent : job[<<k, i>>] = "succeeded"

(* Everyone who ever got a final decision from run() got the one that the  *)
(* checkpoint holds.                                                       *)
AnswersAgree == answers \subseteq {checkpoint.decision}

(* Whatever controllers, crashes, conflicts, approvals and reconciliations *)
(* do, the checkpoint moves as RunLifecycle says.                          *)
Lifecycle == INSTANCE RunLifecycle WITH
    phase <- checkpoint.phase, round <- checkpoint.iter, calls <- checkpoint.calls,
    pending <- checkpoint.intent, decision <- checkpoint.decision

ImplementsRunLifecycle == Lifecycle!Spec

(* A run comes to rest: decided, or waiting for a reviewer.                *)
Resting == checkpoint.phase = "terminal" \/ checkpoint.phase = "awaiting-approval"

RunsToRest == <>[]Resting

(* What a step that was cut short can leave behind in the iteration the    *)
(* checkpoint is at, and what nothing in the code undoes.                  *)
HalfOpened(k)   == done[k] # {} /\ The("snapshot.request") \notin done[k]
Orphaned(k)     == begun[k] # {}
HalfEvaluated(k) ==
    \E j, l \in 1..Len(Plans) : /\ <<"evaluator", Plans[j]>> \in done[k]
                               /\ <<"receipt", PlanReceipt[Plans[l]]>> \notin done[k]
OtherIntent(k) ==
    /\ checkpoint.intent # NoIntent /\ The("action.intent") \in done[k]
    /\ facts[k][The("action.intent")]["rule_index"] # RuleOf[checkpoint.intent]
NeverBegan(k) ==
    /\ checkpoint.phase = "reconciliation-required"
    /\ job[<<k, checkpoint.intent>>] = "none"

CutShort ==
    /\ checkpoint.iter \in Iteration
    /\ \/ HalfOpened(checkpoint.iter) \/ Orphaned(checkpoint.iter) \/ HalfEvaluated(checkpoint.iter)
       \/ OtherIntent(checkpoint.iter) \/ NeverBegan(checkpoint.iter)

(* Wherever controllers die and evaluations fail, a run that is restarted  *)
(* and reconciled comes to rest, unless it stays cut short in one of the   *)
(* ways above: every other loss is made good.                              *)
RestsUnlessCutShort == <>[]Resting \/ <>[]CutShort
=============================================================================
