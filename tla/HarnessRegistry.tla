---------------------------- MODULE HarnessRegistry ----------------------------
(***************************************************************************)
(* The registry of harness_evolution.py: versioned components, changes     *)
(* proposed to them, the signed evaluation of harness_experiments.py that  *)
(* a change must pass, and promotion and rollback by reviewers.  Promotion *)
(* and rollback are transactions; proposing and recording an evaluation    *)
(* read first and write later, in a connection that commits each statement *)
(* by itself.                                                              *)
(*                                                                         *)
(* A version stands for a component's contents and their digest, a gain    *)
(* for a mean, a bound or a threshold of a metric.                         *)
(***************************************************************************)
EXTENDS Naturals, FiniteSets

CONSTANTS
    Component, Version, Change, Person,
    Metric, Gain,      \* Gain \subseteq Nat
    Intended,          \* proposals somebody makes
    Evaluations,       \* evaluation bundles somebody signs
    Recorder,          \* processes that record evaluations
    Proposing          \* processes that propose

None == "none"

Stages == {"absent", "proposed", "shadow-passed", "promoted", "rolled-back"}

VARIABLES
    current,    \* harness_components: component -> version, None if unregistered
    change,     \* harness_changes: change -> row
    draft,      \* proposer -> the proposal it has checked
    bundle      \* recorder -> the evaluation it has checked

vars == <<current, change, draft, bundle>>

Proposal == [change : Change, component : Component, base : Version, target : Version,
             proposer : Person, metric : Metric, minimum : Gain]

(* A signed evaluation: by whose key, of what, its mean improvement and    *)
(* the lower end of its interval, the minimum it declares for itself, and  *)
(* whether a safety metric that every pair reports got worse.              *)
Bundle == [change : Change, metric : Metric, improvement : Gain, lower : Gain, declared : Gain,
           regresses : BOOLEAN, trusted : BOOLEAN]

(* A review receipt is not used up: whoever holds one may show it as often *)
(* as its validity (valid: trusted key, signature and time) lasts.         *)
Receipt == [change : Change, reviewer : Person, role : {"harness-promoter", "harness-rollback"},
            valid : BOOLEAN]

ASSUME RegistryAssumption ==
    /\ Gain \subseteq Nat /\ None \notin Version \cup Person \cup Change
    /\ Intended \subseteq Proposal /\ Evaluations \subseteq Bundle

NoProposal == [change |-> None]
NoBundle   == [change |-> None]
NoChange   == [stage |-> "absent", proposal |-> NoProposal, shadow |-> NoBundle, reviewer |-> None,
               previous |-> None]

Init ==
    /\ current = [c \in Component |-> None]
    /\ change = [x \in Change |-> NoChange]
    /\ draft = [p \in Proposing |-> NoProposal]
    /\ bundle = [r \in Recorder |-> NoBundle]

(* An operator installs any version, over whatever is there.               *)
Register(c, v) ==
    /\ current' = [current EXCEPT ![c] = v]
    /\ UNCHANGED <<change, draft, bundle>>

(* propose() reads the component's digest...                               *)
CheckBase(p) ==
    /\ draft[p] = NoProposal
    /\ \E d \in Intended : d.base = current[d.component] /\ draft' = [draft EXCEPT ![p] = d]
    /\ UNCHANGED <<current, change, bundle>>

(* ...and inserts the change, unless its id is taken.                      *)
Propose(p) ==
    /\ draft[p] # NoProposal
    /\ LET x == draft[p].change IN
       change' = IF change[x].stage = "absent"
                 THEN [change EXCEPT ![x] = [NoChange EXCEPT !.stage = "proposed", !.proposal = draft[p]]]
                 ELSE change
    /\ draft' = [draft EXCEPT ![p] = NoProposal]
    /\ UNCHANGED <<current, bundle>>

(* HarnessEvaluationVerifier.validate: the bundle holds what it declares.  *)
Validated(b) ==
    b.trusted /\ b.improvement >= b.declared /\ b.lower >= b.declared /\ ~b.regresses

(* The bundle meets the proposal as it was made.                           *)
Satisfies(b, d) == b.metric = d.metric /\ b.improvement >= d.minimum

CheckUnvalidated(r) ==     \* mutant: the bundle's own claims are believed
    /\ bundle[r] = NoBundle
    /\ \E b \in Evaluations :
          /\ change[b.change].stage = "proposed"
          /\ Satisfies(b, change[b.change].proposal)
          /\ bundle' = [bundle EXCEPT ![r] = b]
    /\ UNCHANGED <<current, change, draft>>

(* record_signed_shadow() reads the change and compares...                 *)
CheckShadow(r) ==
    /\ bundle[r] = NoBundle
    /\ \E b \in Evaluations :
          /\ Validated(b)
          /\ change[b.change].stage = "proposed"
          /\ Satisfies(b, change[b.change].proposal)
          /\ bundle' = [bundle EXCEPT ![r] = b]
    /\ UNCHANGED <<current, change, draft>>

(* ...and then updates the row as it is by now.                            *)
RecordShadow(r) ==
    /\ bundle[r] # NoBundle
    /\ LET x == bundle[r].change IN
       change' = [change EXCEPT ![x].stage = "shadow-passed", ![x].shadow = bundle[r]]
    /\ bundle' = [bundle EXCEPT ![r] = NoBundle]
    /\ UNCHANGED <<current, draft>>

(* HarnessReviewVerifier.validate_review                                   *)
Reviewed(t, role) == t.valid /\ t.role = role

PromoteAnyBase(t) ==     \* mutant: the component may have moved on
    LET row == change[t.change]
    IN  /\ Reviewed(t, "harness-promoter")
        /\ row.stage = "shadow-passed" /\ t.reviewer # row.proposal.proposer
        /\ current' = [current EXCEPT ![row.proposal.component] = row.proposal.target]
        /\ change' = [change EXCEPT ![t.change].stage = "promoted", ![t.change].reviewer = t.reviewer,
                                    ![t.change].previous = current[row.proposal.component]]
        /\ UNCHANGED <<draft, bundle>>

PromoteRole(t) ==     \* mutant: the receipt's role is stored for the reviewer
    /\ Reviewed(t, "harness-promoter") /\ change[t.change].stage = "shadow-passed"
    /\ change' = [change EXCEPT ![t.change].stage = "promoted", ![t.change].reviewer = t.role]
    /\ UNCHANGED <<current, draft, bundle>>

Promote(t) ==
    LET row == change[t.change]
        d   == row.proposal
    IN  /\ Reviewed(t, "harness-promoter")
        /\ row.stage = "shadow-passed"
        /\ t.reviewer # d.proposer
        /\ current[d.component] = d.base
        /\ current' = [current EXCEPT ![d.component] = d.target]
        /\ change' = [change EXCEPT ![t.change].stage = "promoted", ![t.change].reviewer = t.reviewer,
                                    ![t.change].previous = current[d.component]]
        /\ UNCHANGED <<draft, bundle>>

Rollback(t) ==
    LET row == change[t.change]
        d   == row.proposal
    IN  /\ Reviewed(t, "harness-rollback")
        /\ row.stage = "promoted" /\ row.previous # None
        /\ t.reviewer \notin {d.proposer, row.reviewer}
        /\ current[d.component] = d.target
        /\ current' = [current EXCEPT ![d.component] = row.previous]
        /\ change' = [change EXCEPT ![t.change].stage = "rolled-back", ![t.change].reviewer = t.reviewer]
        /\ UNCHANGED <<draft, bundle>>

Next ==
    \/ \E c \in Component, v \in Version : Register(c, v)
    \/ \E p \in Proposing : CheckBase(p) \/ Propose(p)
    \/ \E r \in Recorder : CheckShadow(r) \/ RecordShadow(r)
    \/ \E t \in Receipt : Promote(t) \/ Rollback(t)

Spec == Init /\ [][Next]_vars

-------------------------------------------------------------------------------
Row == [stage : Stages, proposal : Proposal \cup {NoProposal}, shadow : Bundle \cup {NoBundle},
        reviewer : Person \cup {None}, previous : Version \cup {None}]

(* Every column holds values of its kind.                                  *)
TypeOK ==
    /\ current \in [Component -> Version \cup {None}]
    /\ change \in [Change -> Row]
    /\ draft \in [Proposing -> Proposal \cup {NoProposal}]
    /\ bundle \in [Recorder -> Bundle \cup {NoBundle}]

(* However proposing, recording, registering and reviewing interleave, a   *)
(* change past its proposal rests on a trusted evaluation without safety   *)
(* regression that reaches both the bundle's and the proposal's minimum,   *)
(* and one that was promoted on a reviewer who is not its proposer.        *)
StageIsEarned ==
    \A x \in Change :
        LET row == change[x] IN
        /\ row.stage \in {"shadow-passed", "promoted", "rolled-back"} =>
              row.shadow.change = x /\ Validated(row.shadow) /\ Satisfies(row.shadow, row.proposal)
        /\ row.stage \in {"promoted", "rolled-back"} => row.reviewer \notin {None, row.proposal.proposer}

(* Nobody's work is overwritten unseen: but for an operator's register(),  *)
(* a component moves only along a change, forward from the base the change *)
(* was evaluated against, back to what the promotion replaced; and the     *)
(* person who takes it back is neither its proposer nor its promoter.      *)
Forward(x, c) ==
    LET d == change[x].proposal IN
    /\ change[x].stage = "shadow-passed" /\ change'[x].stage = "promoted"
    /\ d.component = c /\ current[c] = d.base /\ current'[c] = d.target
    /\ change'[x].previous = d.base

Back(x, c) ==
    LET d == change[x].proposal IN
    /\ change[x].stage = "promoted" /\ change'[x].stage = "rolled-back"
    /\ d.component = c /\ current[c] = d.target /\ current'[c] = d.base
    /\ change'[x].reviewer \notin {d.proposer, change[x].reviewer}

NothingIsOverwritten ==
    [][change' # change =>
          \A c \in Component : current'[c] # current[c] => \E x \in Change : Forward(x, c) \/ Back(x, c)]_vars

(* A proposal is immutable once it is stored, and what was withdrawn by a  *)
(* rollback or is in force cannot be evaluated again: only proposed changes *)
(* receive shadow evidence.                                                *)
EvidenceOnlyForProposed ==
    [][\A x \in Change : change'[x].shadow # change[x].shadow => change[x].stage = "proposed"]_vars
=============================================================================
