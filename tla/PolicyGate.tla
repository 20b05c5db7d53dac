------------------------------ MODULE PolicyGate ------------------------------
(***************************************************************************)
(* PolicyGate.authorize (policy.py) for one contract and one executor, as  *)
(* several policy servers run it over shared SQLite stores.  A call is     *)
(* three kinds of step: the checks that need no store, one consumption     *)
(* attempt per approval it was handed, and the charge of every matching    *)
(* rule, which is one BEGIN IMMEDIATE ... COMMIT.  Other servers may act   *)
(* between the steps, and a server may die between them: what it consumed  *)
(* stays consumed.                                                         *)
(*                                                                         *)
(* The checks of an intent against the contract (version, forbidden tool,  *)
(* provenance, inline secrets, argument rules) depend on nothing that      *)
(* changes: Admissible intents pass them.  A contract that expires only    *)
(* stops calls from being opened, which a behaviour without further calls  *)
(* covers.  Unsigned in-process approvals (development only) are left out. *)
(***************************************************************************)
EXTENDS Integers, FiniteSets

CONSTANTS
    Rule,           \* action rules of the contract
    Counter,        \* rule -> key of its use counter: (contract, tool, effect, target prefix)
    Limit,          \* max_uses of the rules that have one
    Intent,         \* intents callers ask for, by digest
    Admissible,     \* intents the contract admits
    Matching,       \* intent -> rules for its tool, effect and target
    NeedsApproval,  \* intents for which requires_approval holds
    Approval,       \* signed approval receipts
    Approves,       \* approval -> the intent it is bound to
    Capability,     \* capabilities the signer may issue, each with a nonce of its own
    Server,         \* policy servers
    None

ASSUME PolicyAssumption ==
    /\ IsFiniteSet(Rule) /\ IsFiniteSet(Capability)
    /\ DOMAIN Counter = Rule
    /\ DOMAIN Limit \subseteq Rule /\ \A r \in DOMAIN Limit : Limit[r] \in Nat \ {0}
    /\ Admissible \subseteq Intent /\ NeedsApproval \subseteq Intent
    /\ Matching \in [Intent -> SUBSET Rule]
    /\ \A i \in Admissible : Matching[i] # {}
    /\ Approves \in [Approval -> Intent]
    /\ None \notin Intent /\ None \notin Approval

VARIABLES
    uses,       \* policy_use_counters: counter key -> use_count
    consumed,   \* consumed_approvals
    granted,    \* capability -> the intent it was issued for, or None
    basis,      \* capability -> the approval it was issued upon, or None (the code keeps no such link)
    gate        \* server -> the authorize() call it is in

gateVars == <<uses, consumed, granted, basis, gate>>

CounterKey == {Counter[r] : r \in Rule}
NoCall == [at |-> "idle", intent |-> None, offered |-> {}, approval |-> None]

GateInit ==
    /\ uses     = [k \in CounterKey |-> 0]
    /\ consumed = {}
    /\ granted  = [c \in Capability |-> None]
    /\ basis    = [c \in Capability |-> None]
    /\ gate     = [s \in Server |-> NoCall]

Goto(s, call) == gate' = [gate EXCEPT ![s] = call]

Requires(i) == i \in NeedsApproval

\* authorize() up to the approvals: only intents that need one look at them.
Ask(s, i, offered) ==
    /\ gate[s].at = "idle"
    /\ i \in Admissible
    /\ Goto(s, [at |-> IF Requires(i) THEN "approving" ELSE "charging",
                intent |-> i, offered |-> offered, approval |-> None])
    /\ UNCHANGED <<uses, consumed, granted, basis>>

\* Mutant of Accept: the receipt is looked up but not recorded as consumed.
AcceptReusable(s, a) ==
    /\ Approves[a] = gate[s].intent
    /\ a \notin consumed
    /\ UNCHANGED consumed
    /\ Goto(s, [gate[s] EXCEPT !.at = "charging", !.approval = a])

(* ApprovalVerifier.validate: a receipt bound to this intent whose         *)
(* signature, trust and age pass is consumed if nobody consumed it before. *)
Accept(s, a) ==
    /\ Approves[a] = gate[s].intent
    /\ a \notin consumed
    /\ consumed' = consumed \cup {a}
    /\ Goto(s, [gate[s] EXCEPT !.at = "charging", !.approval = a])

\* Signature, trust and age are judged outside, so any receipt may fail.
Reject(s, a) ==
    /\ Goto(s, [gate[s] EXCEPT !.offered = @ \ {a}])
    /\ UNCHANGED consumed

TryApproval(s, a) ==
    /\ gate[s].at = "approving"
    /\ a \in gate[s].offered
    /\ Accept(s, a) \/ Reject(s, a)
    /\ UNCHANGED <<uses, granted, basis>>

\* PolicyDenied for want of an approval.
DenyUnapproved(s) ==
    /\ gate[s].at = "approving"
    /\ gate[s].offered = {}
    /\ Goto(s, NoCall)
    /\ UNCHANGED <<uses, consumed, granted, basis>>

\* SQLitePolicyUseCounterStore.consume: all matching rules are checked, then all are charged.
HasBudget(i) == \A r \in Matching[i] \cap DOMAIN Limit : uses[Counter[r]] < Limit[r]

Charges(i, k) == Cardinality({r \in Matching[i] : Counter[r] = k})

Charged(i) == [k \in CounterKey |-> uses[k] + Charges(i, k)]

(* The charge and the capability it pays for.  A server that dies after    *)
(* the charge leaves a capability here that nobody ever presents.          *)
ChargeAndIssue(s, c) ==
    LET i == gate[s].intent IN
    /\ gate[s].at = "charging"
    /\ HasBudget(i)
    /\ granted[c] = None
    /\ uses'    = Charged(i)
    /\ granted' = [granted EXCEPT ![c] = i]
    /\ basis'   = [basis EXCEPT ![c] = gate[s].approval]
    /\ Goto(s, NoCall)
    /\ UNCHANGED consumed

\* PolicyDenied for want of budget; an approval consumed on the way stays consumed.
DenyExhausted(s) ==
    /\ gate[s].at = "charging"
    /\ ~HasBudget(gate[s].intent)
    /\ Goto(s, NoCall)
    /\ UNCHANGED <<uses, consumed, granted, basis>>

ServerDies(s) ==
    /\ gate[s].at # "idle"
    /\ Goto(s, NoCall)
    /\ UNCHANGED <<uses, consumed, granted, basis>>

GateNext ==
    \E s \in Server :
        \/ \E i \in Intent, offered \in SUBSET Approval : Ask(s, i, offered)
        \/ \E a \in Approval : TryApproval(s, a)
        \/ \E c \in Capability : ChargeAndIssue(s, c)
        \/ DenyUnapproved(s)
        \/ DenyExhausted(s)
        \/ ServerDies(s)

GateSpec == GateInit /\ [][GateNext]_gateVars

-----------------------------------------------------------------------------
CallType ==
    [at : {"idle", "approving", "charging"}, intent : Intent \cup {None},
     offered : SUBSET Approval, approval : Approval \cup {None}]

\* Shape of the stores and of the calls in progress.
GateTypeOK ==
    /\ uses \in [CounterKey -> Nat]
    /\ consumed \subseteq Approval
    /\ granted \in [Capability -> Intent \cup {None}]
    /\ basis \in [Capability -> Approval \cup {None}]
    /\ gate \in [Server -> CallType]
    /\ \A s \in Server : gate[s].at # "idle" => gate[s].intent \in Admissible

GrantedUnder(r) == {c \in Capability : granted[c] # None /\ r \in Matching[granted[c]]}

(* Capabilities issued under a rule never exceed its max_uses, however     *)
(* many servers race for the last use and whichever other rules the        *)
(* intents match (policy.py:351-380).                                      *)
BudgetHolds == \A r \in DOMAIN Limit : Cardinality(GrantedUnder(r)) <= Limit[r]

(* An approval pays for one capability: no two servers hold it and no two  *)
(* capabilities rest on it, and a capability that needed one rests on one  *)
(* that was bound to its intent (policy.py:107-115, 300-303).              *)
ApprovalPaysOnce ==
    /\ \A c, d \in Capability : basis[c] # None /\ basis[c] = basis[d] => c = d
    /\ \A c \in Capability : granted[c] \in NeedsApproval =>
          basis[c] \in consumed /\ Approves[basis[c]] = granted[c]
=============================================================================
