------------------------------ MODULE Acceptance ------------------------------
(***************************************************************************)
(* How a run comes to be accepted: the protected evaluators are asked one  *)
(* after the other for signed receipts about an action (evaluation.py,     *)
(* controller.py), the receipts are validated (receipts.py), the checks    *)
(* are reduced to a report (verifiers.py), the report is kept as evidence  *)
(* and all evidence kept so far decides the goal (completion.py).          *)
(*                                                                         *)
(* Evaluators are honest but their answers are not trusted: whatever was   *)
(* ever signed may come back as the answer.  The executor's own metadata   *)
(* holds no receipts, and the deployment configures no probes.             *)
(***************************************************************************)
EXTENDS Integers, SequencesExt, FiniteSetsExt

CONSTANTS
    Check,          \* checks of the signed verifiers, one receipt type each
    Plans,          \* the evaluation plans, in order
    CategoryOf,     \* check -> category of its verifier
    Required,       \* required_verifiers of the contract
    Safety,         \* action_safety_checks of the contract
    Bindings,       \* success condition -> checks bound to it
    Conditions,     \* success_conditions of the contract
    GlobalGuards,   \* global_completion_guards of the contract
    Intent, Workspace,
    ManifestOf,     \* workspace -> artifact manifest of an action that leaves it
    Foreign,        \* receipts the evaluators signed outside this run
    OffsetOf, TtlOf,   \* check -> clock offset and receipt lifetime of its evaluator
    ClockSkew, MaximumAge, MaximumTtl,
    MaxActions, MaxTime   \* bounds on the actions and on the clock

Results == {"pass", "fail", "inconclusive"}
NoReceipt == [check |-> "none"]
Never == MaxTime + 2

Receipts == [check : Check, run : {"ours", "other"}, intent : Intent, instance : 1..MaxActions,
             manifest : {ManifestOf[w] : w \in Workspace}, workspace : Workspace,
             terms : {"pinned", "other"}, result : Results, issued : Int]

ASSUME AcceptanceAssumption ==
    /\ Plans \in Seq(Check) /\ Plans # <<>> /\ IsInjective(Plans)
    /\ "unknown" \notin Workspace
    /\ CategoryOf \in [Check -> {"correctness", "policy", "evidence", "quality"}]
    /\ Required \subseteq Check /\ Safety \subseteq Check /\ GlobalGuards \subseteq Check
    /\ \A s \in DOMAIN Bindings : Bindings[s] \subseteq Check
    /\ Foreign \subseteq Receipts /\ \A r \in Foreign : r.run = "other"
    /\ OffsetOf \in [Check -> Int] /\ TtlOf \in [Check -> Nat]
    /\ MaxActions \in Nat /\ MaxTime \in Nat

VARIABLES
    now,
    revoked,   \* check -> from when on its evaluator's key is revoked
    signed,    \* every receipt ever signed
    at,        \* where the controller is: "act", "evaluate", "verify" or "end"
    action,    \* intent and workspace of the action under way
    todo,      \* the plans still to be asked
    answers,   \* check -> the receipt its evaluator answered with
    evidence,  \* the evidence accumulated, one entry per action
    decision   \* status of the last final-goal check

vars == <<now, revoked, signed, at, action, todo, answers, evidence, decision>>
loop == <<at, action, todo, answers, evidence, decision>>

NoAnswers == [c \in Check |-> NoReceipt]

Init ==
    /\ now = 0 /\ signed = Foreign
    /\ revoked = [c \in Check |-> Never]
    /\ at = "act" /\ action \in [intent : Intent, workspace : Workspace]
    /\ todo = <<>> /\ answers = NoAnswers /\ evidence = <<>> /\ decision = "none"

InstanceBefore == Len(evidence)   \* mutant: off by one
Instance == Len(evidence) + 1     \* the evaluator nodes of the action under way

-------------------------------------------------------------------------------
(* Receipts and reports.                                                   *)

ValidForAnyInstance(r, c) ==     \* mutant: the graph node is not compared
    /\ r.check = c /\ r.run = "ours" /\ r.intent = action.intent
    /\ now < r.issued + TtlOf[r.check] /\ r.issued <= now + ClockSkew
    /\ now - r.issued <= MaximumAge /\ TtlOf[r.check] <= MaximumTtl
    /\ now < revoked[r.check]
    /\ r.terms = "pinned"
    /\ r.manifest = ManifestOf[action.workspace]

\* ReceiptVerifier.validate for the receipt type, graph node and observation of check c.
Valid(r, c) ==
    /\ r.check = c /\ r.run = "ours" /\ r.intent = action.intent
    /\ r.instance = Instance
    /\ now < r.issued + TtlOf[r.check] /\ r.issued <= now + ClockSkew
    /\ now - r.issued <= MaximumAge /\ TtlOf[r.check] <= MaximumTtl
    /\ now < revoked[r.check]
    /\ r.terms = "pinned"
    /\ r.manifest = ManifestOf[action.workspace]

Checked(status, r) == [status |-> status, receipt |-> r]

\* SignedReceiptVerifier.verify_with_context.
Verified(c) ==
    IF answers[c] = NoReceipt THEN Checked("inconclusive", NoReceipt)
    ELSE IF Valid(answers[c], c) THEN Checked(answers[c].result, answers[c])
    ELSE Checked("fail", NoReceipt)

Ran(k) == \A i \in 1..(k - 1) : Verified(Plans[i]).status = "pass"
AllPassed == Ran(Len(Plans) + 1)

\* HybridVerifier.verify: signed checks run until the first that does not pass.
Report ==
    [c \in {Plans[k] : k \in {i \in DOMAIN Plans : Ran(i)}} \cup Required |->
        IF \E k \in DOMAIN Plans : Plans[k] = c /\ Ran(k) THEN Verified(c)
        ELSE Checked("inconclusive", NoReceipt)]

\* The structural check runs first and the execution check last: both are local and pass.
Statuses(report, category) ==
    {report[c].status : c \in {d \in DOMAIN report : CategoryOf[d] = category}}
        \cup (IF category = "evidence" \/ (category = "correctness" /\ AllPassed) THEN {"pass"} ELSE {})

Accepted(report) ==
    /\ Statuses(report, "correctness") = {"pass"}
    /\ \A category \in {"policy", "evidence", "quality"} : Statuses(report, category) \subseteq {"pass"}

\* ActionSafetyReport.accepted
ActionIsSafe(report) == Safety # {} /\ \A c \in Safety : c \in DOMAIN report /\ report[c].status = "pass"

\* _safe_for_criterion_progress
SafeForProgress(report) ==
    IF Safety # {} THEN ActionIsSafe(report)
    ELSE \A c \in DOMAIN report : report[c].status # "fail"

-------------------------------------------------------------------------------
(* Evidence and the final goal.                                            *)

\* EvidenceAccumulator.append: the one workspace the signed checks of a report agree on.
Source(report) ==
    LET sources == {report[c].receipt.workspace : c \in {d \in DOMAIN report : report[d].receipt # NoReceipt}}
    IN  IF Cardinality(sources) = 1 THEN CHOOSE w \in sources : TRUE ELSE "unknown"

Entry(report) ==
    [intent |-> action.intent, workspace |-> action.workspace, time |-> now,
     source |-> Source(report), report |-> report]

RelevantAll(entries) == DOMAIN entries     \* mutant: evidence of every workspace counts

Relevant(entries) ==
    {j \in DOMAIN entries :
        IF Last(entries).source = "unknown" THEN j = Len(entries)
        ELSE entries[j].source = Last(entries).source}

Speaks(entries, c) == {j \in Relevant(entries) : c \in DOMAIN entries[j].report}
Receipt(entries, c, j) == entries[j].report[c].receipt

LaterAction(entries, c, i, j) == i <= j     \* mutant: the last action counts, whatever was signed for it

\* Receipts are compared by time of issue, then by action; no receipt is before every receipt.
NotAfter(entries, c, i, j) ==
    \/ Receipt(entries, c, i) = NoReceipt /\ (Receipt(entries, c, j) # NoReceipt \/ i <= j)
    \/ /\ Receipt(entries, c, i) # NoReceipt /\ Receipt(entries, c, j) # NoReceipt
       /\ \/ Receipt(entries, c, i).issued < Receipt(entries, c, j).issued
          \/ Receipt(entries, c, i).issued = Receipt(entries, c, j).issued /\ i <= j

\* _fresh_check_statuses.
Fresh(entries, c) ==
    IF Speaks(entries, c) = {} THEN "inconclusive"
    ELSE LET latest == CHOOSE j \in Speaks(entries, c) :
                            \A i \in Speaks(entries, c) : NotAfter(entries, c, i, j)
         IN  entries[latest].report[c].status

Bound == (UNION {Bindings[s] : s \in DOMAIN Bindings \cap Conditions}) \cup GlobalGuards

\* RequiredChecksFinalVerifier.verify.
FinalGoal(entries) ==
    IF DOMAIN Bindings # Conditions \/ \E s \in Conditions : Bindings[s] = {} THEN "inconclusive"
    ELSE IF \A c \in Bound : Fresh(entries, c) = "pass" THEN "pass" ELSE "fail"

-------------------------------------------------------------------------------
(* The controller, one action after the other.                             *)

Execute(i, w) ==
    /\ at = "act" /\ Instance <= MaxActions
    /\ action' = [intent |-> i, workspace |-> w]
    /\ at' = "evaluate" /\ todo' = Plans /\ answers' = NoAnswers
    /\ UNCHANGED <<now, revoked, signed, evidence, decision>>

OwnReceipt(c, result) ==
    [check |-> c, run |-> "ours", intent |-> action.intent, instance |-> Instance,
     manifest |-> ManifestOf[action.workspace], workspace |-> action.workspace,
     terms |-> "pinned", result |-> result, issued |-> now + OffsetOf[c]]

\* ReceiptSigner.issue for the plan that is asked; the answer may be any signed receipt.
Evaluate(result) ==
    /\ at = "evaluate" /\ todo # <<>>
    /\ signed' = signed \cup {OwnReceipt(Head(todo), result)}
    /\ \E r \in signed' : answers' = [answers EXCEPT ![Head(todo)] = r]
    /\ todo' = Tail(todo)
    /\ at' = IF Len(todo) = 1 THEN "verify" ELSE at
    /\ UNCHANGED <<now, revoked, action, evidence, decision>>

\* An evaluator that does not answer loses the answers of the plans before it as well.
Unavailable ==
    /\ at = "evaluate"
    /\ todo # <<>>
    /\ \/ signed' = signed
       \/ \E result \in Results : signed' = signed \cup {OwnReceipt(Head(todo), result)}
    /\ answers' = NoAnswers /\ todo' = <<>> /\ at' = "verify"
    /\ UNCHANGED <<now, revoked, action, evidence, decision>>

Verify ==
    /\ at = "verify"
    /\ evidence' = Append(evidence, Entry(Report))
    /\ decision' = IF Accepted(Report) \/ SafeForProgress(Report) THEN FinalGoal(evidence') ELSE "none"
    /\ at' = IF decision' = "pass" THEN "end" ELSE "act"
    /\ answers' = NoAnswers
    /\ UNCHANGED <<now, revoked, signed, action, todo>>

Tick ==
    /\ now < MaxTime /\ now' = now + 1
    /\ UNCHANGED <<revoked, signed, loop>>

Revoke(c) ==
    /\ revoked[c] = Never /\ revoked' = [revoked EXCEPT ![c] = now + 1]
    /\ UNCHANGED <<now, signed, loop>>

Next ==
    \/ \E i \in Intent, w \in Workspace : Execute(i, w)
    \/ \E result \in Results : Evaluate(result)
    \/ Unavailable
    \/ Verify
    \/ Tick
    \/ \E c \in Check : Revoke(c)

Spec == Init /\ [][Next]_vars

-------------------------------------------------------------------------------
Statement == [status : Results, receipt : Receipts \cup {NoReceipt}]

(* Every variable holds values of its kind (EvidenceSnapshot, CheckResult). *)
TypeOK ==
    /\ now \in 0..MaxTime /\ revoked \in [Check -> 0..Never]
    /\ signed \subseteq Receipts
    /\ at \in {"act", "evaluate", "verify", "end"}
    /\ action \in [intent : Intent, workspace : Workspace]
    /\ todo \in Seq(Check)
    /\ answers \in [Check -> Receipts \cup {NoReceipt}]
    /\ Len(evidence) <= MaxActions
    /\ \A e \in Range(evidence) :
           /\ e.source \in Workspace \cup {"unknown"} /\ DOMAIN e.report \subseteq Check
           /\ \A c \in DOMAIN e.report : e.report[c] \in Statement
    /\ decision \in Results \cup {"none"}

(* What was signed for check c about action j, if it was ever read.        *)
Word(c, j) == IF c \in DOMAIN evidence[j].report THEN evidence[j].report[c].receipt ELSE NoReceipt
Genuine(c, j, r) ==
    /\ r \in signed /\ r.check = c /\ r.run = "ours"
    /\ r.instance = j /\ r.workspace = evidence[j].workspace

AboutTheEnd(c) ==
    {j \in DOMAIN evidence : evidence[j].workspace = Last(evidence).workspace /\ Word(c, j) # NoReceipt}

(* A run is accepted only if, for every check a success condition or guard *)
(* is bound to, the evaluator's own last word read about the workspace the *)
(* run ends with is a pass, given for an action of this run that left that *)
(* workspace, read before it expired and before its key was revoked.       *)
(* (RequiredChecksFinalVerifier, EvidenceAccumulator, ReceiptVerifier)     *)
AcceptedWorkIsAttested ==
    at = "end" => \A c \in Bound : \E j \in AboutTheEnd(c) :
        /\ Genuine(c, j, Word(c, j)) /\ Word(c, j).result = "pass"
        /\ evidence[j].time < revoked[c] /\ evidence[j].time < Word(c, j).issued + TtlOf[c]
        /\ \A k \in AboutTheEnd(c) \ {j} :
               \/ Word(c, k).issued < Word(c, j).issued
               \/ Word(c, k).issued = Word(c, j).issued /\ k < j

(* The workspace an action's evidence is filed under is the one the action *)
(* really left, whichever receipts came back: a receipt for an earlier     *)
(* action with the same intent and the same artifacts, or for another run, *)
(* never moves evidence to another workspace.  (completion.py append)      *)
EvidenceIsFiledRight ==
    \A j \in DOMAIN evidence : evidence[j].source \in {evidence[j].workspace, "unknown"}

(* A check that failed for a workspace stays failed for it until a receipt *)
(* signed later says otherwise: losing answers, asking again or coming     *)
(* back to the workspace does not lift it.  (_fresh_check_statuses)        *)
FailureStands == [][
    \A c \in Check, j \in DOMAIN evidence :
        (/\ evidence' # evidence /\ Word(c, j) # NoReceipt /\ Word(c, j).result = "fail"
         /\ \A k \in DOMAIN evidence' : Word(c, k)' # NoReceipt => k <= j
         /\ Last(evidence').source = evidence[j].source)
            => Fresh(evidence', c) = "fail"]_vars
===============================================================================
