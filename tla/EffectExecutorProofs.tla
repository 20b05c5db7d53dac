------------------------- MODULE EffectExecutorProofs -------------------------
(***************************************************************************)
(* Proofs about the executor behind the policy gate, for any number of     *)
(* callers, servers, keys, intents and capabilities: one effect per key,   *)
(* every effect paid for, no answer taken back.  The argument is about who *)
(* holds a key: a row is claimed once, so at most one caller ever stands   *)
(* between the claim and the settlement, and a row taken over from it can  *)
(* no longer be claimed or settled by anybody.                             *)
(***************************************************************************)
EXTENDS EffectExecutor, FiniteSetTheorems, TLAPS

(***************************************************************************)
(* The policy gate by itself: no rule is overspent and no approval pays    *)
(* twice, for any number of servers, rules, approvals and capabilities.    *)
(***************************************************************************)
LEMMA GateTypeInit == GateInit => GateTypeOK
BY PolicyAssumption DEF GateInit, GateTypeOK, CallType, NoCall

(* What one intent adds to a counter is a number, and at least one for the *)
(* counters of its own rules.                                              *)
LEMMA ChargesCount ==
    ASSUME NEW i \in Intent, NEW k
    PROVE  /\ Charges(i, k) \in Nat
           /\ \A r \in Matching[i] : Counter[r] = k => Charges(i, k) >= 1
<1> DEFINE R == {r \in Matching[i] : Counter[r] = k}
<1>1. R \subseteq Rule /\ IsFiniteSet(Rule) BY PolicyAssumption
<1>2. IsFiniteSet(R) /\ Cardinality(R) \in Nat BY <1>1, FS_Subset, FS_CardinalityType
<1>3. ASSUME NEW r \in R PROVE Cardinality(R) >= 1
  <2>1. Cardinality(R) # 0 BY <1>2, FS_EmptySet
  <2> QED BY <2>1, <1>2
<1> QED BY <1>2, <1>3 DEF Charges

LEMMA GateTypeStep == GateTypeOK /\ [GateNext]_gateVars => GateTypeOK'
<1> SUFFICES ASSUME GateTypeOK, [GateNext]_gateVars PROVE GateTypeOK'
  OBVIOUS
<1> USE PolicyAssumption DEF GateTypeOK, CallType, NoCall, Goto
<1>1. ASSUME NEW s \in Server, NEW i \in Intent, NEW offered \in SUBSET Approval, Ask(s, i, offered)
      PROVE  GateTypeOK'
  BY <1>1 DEF Ask
<1>2. ASSUME NEW s \in Server, NEW a \in Approval, TryApproval(s, a) PROVE GateTypeOK'
  <2>1. CASE Accept(s, a)
    <3>1. [gate[s] EXCEPT !.at = "charging", !.approval = a] \in CallType BY <1>2
    <3>2. [gate[s] EXCEPT !.at = "charging", !.approval = a].intent = gate[s].intent BY <1>2
    <3> QED BY <1>2, <2>1, <3>1, <3>2 DEF TryApproval, Accept
  <2>2. CASE Reject(s, a)
    <3>1. [gate[s] EXCEPT !.offered = @ \ {a}] \in CallType BY <1>2
    <3>2. [gate[s] EXCEPT !.offered = @ \ {a}].intent = gate[s].intent BY <1>2
    <3> QED BY <1>2, <2>2, <3>1, <3>2 DEF TryApproval, Reject
  <2> QED BY <1>2, <2>1, <2>2 DEF TryApproval
<1>3. ASSUME NEW s \in Server, NEW c \in Capability, ChargeAndIssue(s, c) PROVE GateTypeOK'
  <2>1. gate[s].intent \in Intent BY <1>3 DEF ChargeAndIssue
  <2>2. uses' \in [CounterKey -> Nat]
    BY <1>3, <2>1, ChargesCount DEF ChargeAndIssue, Charged
  <2> QED BY <1>3, <2>1, <2>2 DEF ChargeAndIssue
<1>4. ASSUME NEW s \in Server, DenyUnapproved(s) \/ DenyExhausted(s) \/ ServerDies(s) PROVE GateTypeOK'
  BY <1>4 DEF DenyUnapproved, DenyExhausted, ServerDies
<1>5. CASE UNCHANGED gateVars
  BY <1>5 DEF gateVars
<1> QED BY <1>1, <1>2, <1>3, <1>4, <1>5 DEF GateNext

(* What was charged covers what was issued, rule by rule.                  *)
Covered ==
    \A r \in Rule :
        /\ Cardinality(GrantedUnder(r)) <= uses[Counter[r]]
        /\ r \in DOMAIN Limit => Cardinality(GrantedUnder(r)) <= Limit[r]

LEMMA GrantedUnderCount ==
    ASSUME NEW r PROVE IsFiniteSet(GrantedUnder(r)) /\ Cardinality(GrantedUnder(r)) \in Nat
<1>1. GrantedUnder(r) \subseteq Capability /\ IsFiniteSet(Capability) BY PolicyAssumption DEF GrantedUnder
<1> QED BY <1>1, FS_Subset, FS_CardinalityType

LEMMA CoveredInit == GateInit => Covered
<1> SUFFICES ASSUME GateInit, NEW r \in Rule
             PROVE  /\ Cardinality(GrantedUnder(r)) <= uses[Counter[r]]
                    /\ r \in DOMAIN Limit => Cardinality(GrantedUnder(r)) <= Limit[r]
  BY DEF Covered
<1>1. GrantedUnder(r) = {} BY DEF GateInit, GrantedUnder
<1>2. Cardinality(GrantedUnder(r)) = 0 BY <1>1, FS_EmptySet
<1>3. uses[Counter[r]] = 0 BY DEF GateInit, CounterKey
<1> QED BY <1>2, <1>3, PolicyAssumption

LEMMA CoveredStep == GateTypeOK /\ Covered /\ [GateNext]_gateVars => Covered'
<1> SUFFICES ASSUME GateTypeOK, Covered, [GateNext]_gateVars PROVE Covered'
  OBVIOUS
<1>1. ASSUME UNCHANGED <<uses, granted>> PROVE Covered'
  BY <1>1 DEF Covered, GrantedUnder
<1>2. ASSUME NEW s \in Server, NEW c \in Capability, ChargeAndIssue(s, c), NEW r \in Rule
      PROVE  /\ Cardinality(GrantedUnder(r)') <= uses'[Counter[r]]
             /\ r \in DOMAIN Limit => Cardinality(GrantedUnder(r)') <= Limit[r]
  <2> DEFINE i == gate[s].intent
             n == Cardinality(GrantedUnder(r))
             k == Counter[r]
  <2>1. /\ i \in Intent /\ i # None /\ granted' = [granted EXCEPT ![c] = i] /\ granted[c] = None
        /\ HasBudget(i) /\ uses' = Charged(i)
    BY <1>2, PolicyAssumption DEF ChargeAndIssue, GateTypeOK
  <2>2. k \in CounterKey /\ uses[k] \in Nat /\ uses'[k] = uses[k] + Charges(i, k)
    BY <2>1 DEF CounterKey, GateTypeOK, Charged
  <2>3. Charges(i, k) \in Nat /\ (r \in Matching[i] => Charges(i, k) >= 1)
    BY <2>1, ChargesCount
  <2>4. n \in Nat /\ n <= uses[k] /\ (r \in DOMAIN Limit => n <= Limit[r] /\ Limit[r] \in Nat)
    BY GrantedUnderCount, PolicyAssumption DEF Covered
  <2>5. CASE r \notin Matching[i]
    <3>1. GrantedUnder(r)' = GrantedUnder(r) BY <2>1, <2>5 DEF GrantedUnder, GateTypeOK
    <3> QED BY <3>1, <2>2, <2>3, <2>4
  <2>6. CASE r \in Matching[i]
    <3>1. GrantedUnder(r)' = GrantedUnder(r) \cup {c} /\ c \notin GrantedUnder(r)
      BY <2>1, <2>6 DEF GrantedUnder, GateTypeOK
    <3>2. Cardinality(GrantedUnder(r)') = n + 1
      BY <3>1, GrantedUnderCount, FS_AddElement
    <3>3. r \in DOMAIN Limit => uses[k] < Limit[r]
      BY <2>1, <2>6 DEF HasBudget
    <3> QED BY <3>2, <3>3, <2>2, <2>3, <2>4, <2>6
  <2> QED BY <2>5, <2>6
<1>3. ASSUME NEW s \in Server, NEW c \in Capability, ChargeAndIssue(s, c) PROVE Covered'
  BY <1>2, <1>3 DEF Covered
<1>4. CASE UNCHANGED gateVars BY <1>1, <1>4 DEF gateVars
<1> QED BY <1>1, <1>3, <1>4
  DEF GateNext, Ask, TryApproval, DenyUnapproved, DenyExhausted, ServerDies

(* Who holds an approval: it is consumed, and it is in one call or behind  *)
(* one capability, never both.                                             *)
Held ==
    /\ \A c \in Capability : basis[c] # None => basis[c] \in consumed
    /\ \A c \in Capability : granted[c] = None => basis[c] = None
    /\ \A c, d \in Capability : basis[c] # None /\ basis[c] = basis[d] => c = d
    /\ \A c \in Capability : granted[c] \in NeedsApproval => basis[c] # None /\ Approves[basis[c]] = granted[c]
    /\ \A s \in Server : gate[s].approval # None =>
          /\ gate[s].at = "charging" /\ gate[s].approval \in consumed
          /\ Approves[gate[s].approval] = gate[s].intent
          /\ \A c \in Capability : basis[c] # gate[s].approval
          /\ \A t \in Server : gate[t].approval = gate[s].approval => t = s
    /\ \A s \in Server : gate[s].at = "charging" /\ gate[s].intent \in NeedsApproval => gate[s].approval # None

LEMMA HeldInit == GateInit => Held
BY PolicyAssumption DEF GateInit, Held, NoCall

LEMMA HeldStep == GateTypeOK /\ Held /\ [GateNext]_gateVars => Held'
<1> SUFFICES ASSUME GateTypeOK, Held, [GateNext]_gateVars PROVE Held'
  OBVIOUS
<1>0. ASSUME NEW s \in Server, Goto(s, NoCall), UNCHANGED <<consumed, granted, basis>> PROVE Held'
  BY <1>0 DEF Goto, NoCall, Held, GateTypeOK
<1>1. ASSUME NEW s \in Server, NEW i \in Intent, NEW offered \in SUBSET Approval, Ask(s, i, offered)
      PROVE  Held'
  <2> DEFINE new == [at |-> IF Requires(i) THEN "approving" ELSE "charging",
                     intent |-> i, offered |-> offered, approval |-> None]
  <2>1. gate' = [gate EXCEPT ![s] = new] /\ UNCHANGED <<consumed, granted, basis>>
    BY <1>1 DEF Ask, Goto
  <2>2. gate'[s] = new /\ \A t \in Server : t # s => gate'[t] = gate[t]
    BY <2>1 DEF GateTypeOK
  <2>3. new.approval = None /\ (new.at = "charging" => i \notin NeedsApproval) /\ new.intent = i
    BY DEF Requires
  <2> HIDE DEF new
  <2> QED BY <2>1, <2>2, <2>3 DEF Held
<1>2. ASSUME NEW s \in Server, NEW a \in Approval, gate[s].at = "approving", Accept(s, a), UNCHANGED <<granted, basis>>
      PROVE  Held'
  <2> DEFINE new == [gate[s] EXCEPT !.at = "charging", !.approval = a]
  <2>1. /\ gate' = [gate EXCEPT ![s] = new] /\ consumed' = consumed \cup {a} /\ a \notin consumed
        /\ Approves[a] = gate[s].intent /\ a # None
    BY <1>2, PolicyAssumption DEF Accept, Goto
  <2>2. gate'[s] = new /\ \A t \in Server : t # s => gate'[t] = gate[t]
    BY <2>1 DEF GateTypeOK
  <2>3. new.approval = a /\ new.at = "charging" /\ new.intent = gate[s].intent
    BY DEF GateTypeOK, CallType
  <2> HIDE DEF new
  <2> QED BY <2>1, <2>2, <2>3, <1>2 DEF Held
<1>3. ASSUME NEW s \in Server, NEW a \in Approval, gate[s].at = "approving", Reject(s, a), UNCHANGED <<granted, basis>>
      PROVE  Held'
  <2> DEFINE new == [gate[s] EXCEPT !.offered = @ \ {a}]
  <2>1. gate' = [gate EXCEPT ![s] = new] /\ UNCHANGED consumed BY <1>3 DEF Reject, Goto
  <2>2. gate'[s] = new /\ \A t \in Server : t # s => gate'[t] = gate[t]
    BY <2>1 DEF GateTypeOK
  <2>3. new.approval = gate[s].approval /\ new.at = gate[s].at /\ new.intent = gate[s].intent
    BY DEF GateTypeOK, CallType
  <2> HIDE DEF new
  <2> QED BY <2>1, <2>2, <2>3, <1>3 DEF Held
<1>4. ASSUME NEW s \in Server, NEW c \in Capability, ChargeAndIssue(s, c) PROVE Held'
  <2> DEFINE i == gate[s].intent
             a == gate[s].approval
  <2>1. /\ gate[s].at = "charging" /\ granted[c] = None /\ UNCHANGED consumed
        /\ i \in Intent /\ i # None /\ a \in Approval \cup {None}
    BY <1>4, PolicyAssumption DEF ChargeAndIssue, GateTypeOK, CallType
  <2>2. /\ granted'[c] = i /\ basis'[c] = a
        /\ \A d \in Capability : d # c => granted'[d] = granted[d] /\ basis'[d] = basis[d]
    BY <1>4 DEF ChargeAndIssue, GateTypeOK
  <2>3. gate'[s] = NoCall /\ \A t \in Server : t # s => gate'[t] = gate[t]
    BY <1>4 DEF ChargeAndIssue, Goto, GateTypeOK
  <2>4. NoCall.approval = None /\ NoCall.at = "idle" BY DEF NoCall
  <2> QED BY <2>1, <2>2, <2>3, <2>4 DEF Held
<1>5. CASE UNCHANGED gateVars BY <1>5 DEF gateVars, Held
<1> QED BY <1>0, <1>1, <1>2, <1>3, <1>4, <1>5
  DEF GateNext, TryApproval, DenyUnapproved, DenyExhausted, ServerDies

GateInv == GateTypeOK /\ Covered /\ Held

LEMMA GateInvInit == GateInit => GateInv
BY GateTypeInit, CoveredInit, HeldInit DEF GateInv

LEMMA GateInvStep == GateInv /\ [GateNext]_gateVars => GateInv'
BY GateTypeStep, CoveredStep, HeldStep DEF GateInv

LEMMA GateInvPays == GateInv => GateTypeOK /\ BudgetHolds /\ ApprovalPaysOnce
<1>1. Covered => BudgetHolds BY PolicyAssumption DEF Covered, BudgetHolds
<1>2. Held => ApprovalPaysOnce BY DEF Held, ApprovalPaysOnce
<1> QED BY <1>1, <1>2 DEF GateInv

(* The gate alone keeps its stores' shape, never overspends a rule and     *)
(* never spends an approval twice.                                         *)
THEOREM GatePays == GateSpec => [](GateTypeOK /\ BudgetHolds /\ ApprovalPaysOnce)
<1> QED BY GateInvInit, GateInvStep, GateInvPays, PTL DEF GateSpec

(***************************************************************************)
(* The executor behind the gate.                                           *)
(***************************************************************************)

Holding(w) == call[w].at \in {"reserved", "cleared", "raised", "returned"}

Holds(w, k) == Holding(w) /\ KeyIn(w) = k

(* Calls and effects rest on capabilities issued for exactly their intent. *)
Binding ==
    /\ \A w \in Caller : call[w].at # "idle" => granted[call[w].cap] = call[w].intent
    /\ \A w \in Caller : call[w].at \in {"cleared", "raised", "returned"} => call[w].cap \in nonces
    /\ \A e \in Done : granted[e[2]] = e[1] /\ e[2] \in nonces

(* A key has one holder at most; its row is unsettled or was taken over,   *)
(* and whether its effect happened shows in where its holder stands.       *)
Custody ==
    /\ \A w, v \in Caller : Holding(w) /\ Holding(v) /\ KeyIn(w) = KeyIn(v) => w = v
    /\ \A w \in Caller : Holding(w) =>
          /\ rows[KeyIn(w)].state \in {"pending", "indeterminate"}
          /\ call[w].at \in {"reserved", "cleared"} => KeyIn(w) \notin Happened
          /\ call[w].at = "returned" => KeyIn(w) \in Happened

(* What a row says of its key's effect.                                    *)
Records ==
    \A k \in Key :
        /\ rows[k].state = "absent" => k \notin Happened
        /\ rows[k].outcome = "none" <=> rows[k].state \in {"absent", "pending"}
        /\ rows[k].state = "indeterminate" <=> rows[k].outcome = "unknown"
        /\ rows[k].outcome = "effected" => k \in Happened
        /\ rows[k].outcome = "refused" => k \notin Happened

(* What callers were told is what the row says or, if the store failed,    *)
(* what it can only come to say.                                           *)
Told ==
    \A k \in Key :
        /\ "effected" \in answers[k] => rows[k].outcome = "effected"
        /\ "refused" \in answers[k] => rows[k].outcome = "refused"
        /\ "unknown" \in answers[k] =>
              \/ rows[k].state = "indeterminate"
              \/ rows[k].state = "pending" /\ \A w \in Caller : ~Holds(w, k)

ExecInv == TypeOK /\ Binding /\ Custody /\ Records /\ Told /\ EffectOnce

-----------------------------------------------------------------------------
LEMMA NoneDone == ASSUME effects = [e \in Effect |-> 0] PROVE Done = {} /\ Happened = {}
<1>1. Done = {} BY DEF Done
<1> QED BY <1>1 DEF Happened

LEMMA ExecInvInit == Init => ExecInv
<1> SUFFICES ASSUME Init PROVE ExecInv
  OBVIOUS
<1>1. Done = {} /\ Happened = {} BY NoneDone DEF Init
<1>2. TypeOK
  BY GateTypeInit DEF Init, TypeOK, NoRow, Idle, RowType, Positions
<1>3. Binding /\ Custody BY <1>1 DEF Init, Binding, Custody, Holding, Idle
<1>4. Records /\ Told BY <1>1 DEF Init, Records, Told, NoRow
<1>5. EffectOnce BY <1>1 DEF Init, EffectOnce
<1> QED BY <1>2, <1>3, <1>4, <1>5 DEF ExecInv

(* Whatever changes neither the gate's grants nor the effects leaves who   *)
(* did what.                                                               *)
LEMMA EffectsUnchanged ==
    ASSUME UNCHANGED effects PROVE Done' = Done /\ Happened' = Happened
BY DEF Done, Happened

(* The raw executor acts for w: one more effect, on w's key.               *)
LEMMA EffectsGrow ==
    ASSUME TypeOK, NEW e \in Effect, effects' = [effects EXCEPT ![e] = @ + 1]
    PROVE  Done' = Done \cup {e} /\ Happened' = Happened \cup {KeyOf[e[1]]}
<1>1. effects \in [Effect -> Nat] BY DEF TypeOK
<1>2. \A d \in Effect : effects'[d] > 0 <=> effects[d] > 0 \/ d = e BY <1>1
<1>3. Done' = Done \cup {e} BY <1>2 DEF Done
<1> QED BY <1>3 DEF Happened

(* The gate never takes back or redirects a capability.                    *)
LEMMA GrantsStay ==
    ASSUME GateTypeOK, GateNext
    PROVE  \A c \in Capability : granted[c] # None => granted'[c] = granted[c]
BY DEF GateNext, Ask, TryApproval, ChargeAndIssue, DenyUnapproved, DenyExhausted, ServerDies, GateTypeOK

LEMMA GateStepKeeps == ASSUME ExecInv, GateNext, UNCHANGED executorVars PROVE ExecInv'
<1>1. TypeOK /\ UNCHANGED <<rows, leased, nonces, lapsed, call, effects, answers>>
  BY DEF ExecInv, executorVars
<1>2. TypeOK'
  <2>1. GateTypeOK' BY <1>1, GateTypeStep DEF TypeOK
  <2> QED BY <1>1, <2>1 DEF TypeOK
<1>3. Done' = Done /\ Happened' = Happened BY <1>1, EffectsUnchanged
<1>4. Binding'
  <2>1. \A c \in Capability : granted[c] # None => granted'[c] = granted[c]
    BY <1>1, GrantsStay DEF TypeOK
  <2>2. \A e \in Done : e[1] \in Intent /\ e[2] \in Capability BY DEF Done, Effect
  <2> QED BY <1>1, <1>3, <2>1, <2>2, PolicyAssumption DEF ExecInv, Binding, TypeOK
<1>5. Custody' /\ Records' /\ Told' /\ EffectOnce'
  BY <1>1, <1>3 DEF ExecInv, Custody, Records, Told, EffectOnce, Holding, Holds, KeyIn
<1> QED BY <1>2, <1>4, <1>5 DEF ExecInv

-----------------------------------------------------------------------------
LEMMA KeyInType ==
    ASSUME TypeOK, NEW w \in Caller, call[w].at # "idle"
    PROVE  KeyIn(w) \in Key /\ call[w].intent \in Intent /\ call[w].cap \in Capability
BY ExecutorAssumption DEF TypeOK, KeyIn

(* How a call moves on, and how a row is settled.                          *)
LEMMA Moves ==
    ASSUME TypeOK, NEW w \in Caller, NEW at \in Positions, Move(w, at)
    PROVE  /\ call'[w].at = at /\ call'[w].intent = call[w].intent /\ call'[w].cap = call[w].cap
           /\ KeyIn(w)' = KeyIn(w)
           /\ \A v \in Caller : v # w => call'[v] = call[v] /\ KeyIn(v)' = KeyIn(v)
           /\ call[w].at # "idle" =>
                 call' \in [Caller -> [at : Positions, intent : Intent \cup {None}, cap : Capability \cup {None}]]
BY DEF TypeOK, Move, KeyIn

LEMMA Returns ==
    ASSUME TypeOK, NEW w \in Caller, call' = [call EXCEPT ![w] = Idle]
    PROVE  /\ call'[w].at = "idle" /\ ~Holding(w)'
           /\ \A v \in Caller : v # w => call'[v] = call[v] /\ KeyIn(v)' = KeyIn(v)
           /\ call' \in [Caller -> [at : Positions, intent : Intent \cup {None}, cap : Capability \cup {None}]]
BY DEF TypeOK, KeyIn, Idle, Holding, Positions

LEMMA Writes ==
    ASSUME TypeOK, NEW k \in Key, NEW state \in {"completed", "indeterminate"},
           NEW outcome \in {"effected", "refused", "unknown"}, Write(k, state, outcome)
    PROVE  /\ rows'[k].state = state /\ rows'[k].outcome = outcome
           /\ \A j \in Key : j # k => rows'[j] = rows[j]
           /\ rows' \in [Key -> RowType]
           /\ leased' \subseteq {j \in Key : rows'[j].state = "pending"}
<1>1. rows \in [Key -> RowType] /\ leased \subseteq {j \in Key : rows[j].state = "pending"}
  BY DEF TypeOK
<1>2. rows' = [rows EXCEPT ![k].state = state, ![k].outcome = outcome] /\ leased' = leased \ {k}
  BY DEF Write
<1>3. rows'[k].state = state /\ rows'[k].outcome = outcome /\ rows'[k] \in RowType
  BY <1>1, <1>2 DEF RowType
<1>4. \A j \in Key : j # k => rows'[j] = rows[j] BY <1>1, <1>2
<1> QED BY <1>1, <1>2, <1>3, <1>4

LEMMA Answers ==
    ASSUME TypeOK, NEW w \in Caller, call[w].at # "idle",
           NEW verdict \in {"effected", "refused", "unknown"}, Answer(w, verdict)
    PROVE  /\ call' = [call EXCEPT ![w] = Idle]
           /\ KeyIn(w) \in Key
           /\ answers'[KeyIn(w)] = answers[KeyIn(w)] \cup {verdict}
           /\ \A j \in Key : j # KeyIn(w) => answers'[j] = answers[j]
           /\ answers' \in [Key -> SUBSET {"effected", "refused", "unknown"}]
<1>1. KeyIn(w) \in Key BY ExecutorAssumption DEF TypeOK, KeyIn
<1> QED BY <1>1 DEF TypeOK, Answer

(* A call that returns without touching the row or an answer disturbs      *)
(* nothing: what it held is held by nobody any more.                       *)
LEMMA ReturnKeeps ==
    ASSUME ExecInv, NEW w \in Caller, call' = [call EXCEPT ![w] = Idle],
           UNCHANGED <<rows, leased, nonces, lapsed, effects, answers, gateVars>>
    PROVE  ExecInv'
<1>1. /\ call'[w].at = "idle" /\ ~Holding(w)'
      /\ \A v \in Caller : v # w => call'[v] = call[v] /\ KeyIn(v)' = KeyIn(v)
      /\ call' \in [Caller -> [at : Positions, intent : Intent \cup {None}, cap : Capability \cup {None}]]
  BY Returns DEF ExecInv
<1>2. Done' = Done /\ Happened' = Happened BY EffectsUnchanged
<1>3. TypeOK' BY <1>1 DEF ExecInv, TypeOK, GateTypeOK, gateVars
<1>4. Binding' BY <1>1, <1>2 DEF ExecInv, Binding, gateVars
<1>5. Custody' BY <1>1, <1>2 DEF ExecInv, Custody, Holding
<1>6. Records' /\ EffectOnce' BY <1>2 DEF ExecInv, Records, EffectOnce
<1>7. Told' BY <1>1 DEF ExecInv, Told, Holds, Holding
<1> QED BY <1>3, <1>4, <1>5, <1>6, <1>7 DEF ExecInv

(* Settling a pending row one holds, or that nobody can hold any more:     *)
(* the verdict has to be true of the effect, and nothing else has to be.   *)
LEMMA SettleKeeps ==
    ASSUME ExecInv, NEW w \in Caller, call[w].at # "idle", rows[KeyIn(w)].state = "pending",
           NEW state, NEW outcome,
           \/ state = "completed" /\ outcome = "effected" /\ call[w].at = "returned"
           \/ state = "completed" /\ outcome = "refused" /\ call[w].at = "reserved"
           \/ state = "indeterminate" /\ outcome = "unknown",
           Write(KeyIn(w), state, outcome), Answer(w, outcome),
           UNCHANGED <<nonces, lapsed, effects, gateVars>>
    PROVE  ExecInv'
<1> DEFINE k == KeyIn(w)
<1>1. /\ call' = [call EXCEPT ![w] = Idle] /\ k \in Key
      /\ answers'[k] = answers[k] \cup {outcome}
      /\ \A j \in Key : j # k => answers'[j] = answers[j]
      /\ answers' \in [Key -> SUBSET {"effected", "refused", "unknown"}]
  BY Answers DEF ExecInv
<1>2. /\ call'[w].at = "idle" /\ ~Holding(w)'
      /\ \A v \in Caller : v # w => call'[v] = call[v] /\ KeyIn(v)' = KeyIn(v)
      /\ call' \in [Caller -> [at : Positions, intent : Intent \cup {None}, cap : Capability \cup {None}]]
  BY <1>1, Returns DEF ExecInv
<1>3. /\ rows'[k].state = state /\ rows'[k].outcome = outcome
      /\ \A j \in Key : j # k => rows'[j] = rows[j]
      /\ rows' \in [Key -> RowType]
      /\ leased' \subseteq {j \in Key : rows'[j].state = "pending"}
  BY <1>1, Writes DEF ExecInv
<1>4. Done' = Done /\ Happened' = Happened BY EffectsUnchanged
<1>5. TypeOK' BY <1>1, <1>2, <1>3 DEF ExecInv, TypeOK, GateTypeOK, gateVars
<1>6. Binding' BY <1>2, <1>4 DEF ExecInv, Binding, gateVars
<1>7. \A v \in Caller : v # w /\ Holding(v) /\ state = "completed" => KeyIn(v) # k
  BY DEF ExecInv, Custody, Holding
<1>8. Custody'
  BY <1>2, <1>3, <1>4, <1>7, KeyInType DEF ExecInv, Custody, Holding
<1>9. outcome = "effected" => k \in Happened
  BY DEF ExecInv, Custody, Holding
<1>10. outcome = "refused" => k \notin Happened
  BY DEF ExecInv, Custody, Holding
<1>11. Records' BY <1>1, <1>3, <1>4, <1>9, <1>10 DEF ExecInv, Records
<1>12. rows[k].outcome = "none" /\ (state = "completed" => Holds(w, k))
  BY <1>1 DEF ExecInv, Records, Holds, Holding
<1>13. Told'
  <2> SUFFICES ASSUME NEW j \in Key
      PROVE  /\ "effected" \in answers'[j] => rows'[j].outcome = "effected"
             /\ "refused" \in answers'[j] => rows'[j].outcome = "refused"
             /\ "unknown" \in answers'[j] =>
                   \/ rows'[j].state = "indeterminate"
                   \/ rows'[j].state = "pending" /\ \A v \in Caller : ~Holds(v, j)'
    BY DEF Told
  <2>1. CASE j = k
    BY <2>1, <1>1, <1>3, <1>12 DEF ExecInv, Told
  <2>2. CASE j # k
    BY <2>2, <1>1, <1>2, <1>3 DEF ExecInv, Told, Holds, Holding
  <2> QED BY <2>1, <2>2
<1>14. EffectOnce' BY <1>4 DEF ExecInv, EffectOnce
<1> QED BY <1>5, <1>6, <1>8, <1>11, <1>13, <1>14 DEF ExecInv

-----------------------------------------------------------------------------
LEMMA PresentKeeps ==
    ASSUME ExecInv, NEW w \in Caller, NEW i \in Intent, NEW c \in Capability, Present(w, i, c)
    PROVE  ExecInv'
<1> DEFINE new == [at |-> "validated", intent |-> i, cap |-> c]
<1>1. /\ call[w].at = "idle" /\ granted[c] = i /\ call' = [call EXCEPT ![w] = new]
      /\ UNCHANGED <<rows, leased, nonces, lapsed, effects, answers, gateVars>>
  BY DEF Present, Bound
<1>2. /\ call'[w] = new /\ new.at = "validated" /\ new.intent = i /\ new.cap = c
      /\ ~Holding(w) /\ ~Holding(w)'
      /\ \A v \in Caller : v # w => call'[v] = call[v] /\ KeyIn(v)' = KeyIn(v)
  BY <1>1 DEF ExecInv, TypeOK, Holding, KeyIn
<1>3. Done' = Done /\ Happened' = Happened BY <1>1, EffectsUnchanged
<1>4. TypeOK' BY <1>1 DEF ExecInv, TypeOK, GateTypeOK, gateVars, Positions
<1> HIDE DEF new
<1>5. Binding' BY <1>1, <1>2, <1>3 DEF ExecInv, Binding, gateVars
<1>6. Custody' BY <1>1, <1>2, <1>3 DEF ExecInv, Custody, Holding
<1>7. Records' /\ EffectOnce' BY <1>1, <1>3 DEF ExecInv, Records, EffectOnce
<1>8. Told' BY <1>1, <1>2 DEF ExecInv, Told, Holds, Holding
<1> QED BY <1>4, <1>5, <1>6, <1>7, <1>8 DEF ExecInv

LEMMA ClaimKeeps ==
    ASSUME ExecInv, NEW w \in Caller, call[w].at = "validated", ClaimRow(w),
           UNCHANGED <<nonces, lapsed, effects, gateVars>>
    PROVE  ExecInv'
<1> DEFINE k == KeyIn(w)
           new == [state |-> "pending", intent |-> call[w].intent, outcome |-> "none"]
<1>1. /\ rows[k].state = "absent" /\ rows' = [rows EXCEPT ![k] = new]
      /\ leased' = leased \cup {k} /\ Move(w, "reserved") /\ UNCHANGED answers
  BY DEF ClaimRow
<1>2. k \in Key /\ call[w].intent \in Intent /\ call[w].cap \in Capability
  BY KeyInType DEF ExecInv
<1>3. /\ call'[w].at = "reserved" /\ call'[w].intent = call[w].intent /\ call'[w].cap = call[w].cap
      /\ KeyIn(w)' = k
      /\ \A v \in Caller : v # w => call'[v] = call[v] /\ KeyIn(v)' = KeyIn(v)
      /\ call' \in [Caller -> [at : Positions, intent : Intent \cup {None}, cap : Capability \cup {None}]]
  BY <1>1, Moves DEF ExecInv, Positions
<1>4. /\ rows'[k] = new /\ new.state = "pending" /\ new.outcome = "none" /\ new \in RowType
      /\ \A j \in Key : j # k => rows'[j] = rows[j]
  BY <1>1, <1>2 DEF ExecInv, TypeOK, RowType
<1>5. Done' = Done /\ Happened' = Happened BY EffectsUnchanged
<1>6. TypeOK'
  <2>1. rows' \in [Key -> RowType] BY <1>1, <1>4 DEF ExecInv, TypeOK
  <2>2. leased' \subseteq {j \in Key : rows'[j].state = "pending"}
    BY <1>1, <1>2, <1>4 DEF ExecInv, TypeOK
  <2>3. \A v \in Caller : call'[v].at # "idle" => call'[v].intent \in Intent /\ call'[v].cap \in Capability
    BY <1>2, <1>3 DEF ExecInv, TypeOK
  <2> QED BY <1>1, <1>3, <2>1, <2>2, <2>3 DEF ExecInv, TypeOK, GateTypeOK, gateVars
<1> HIDE DEF new
<1>7. Binding' BY <1>3, <1>5 DEF ExecInv, Binding, gateVars
<1>8. k \notin Happened /\ rows[k].outcome = "none"
  BY <1>1, <1>2 DEF ExecInv, Records
<1>9. \A v \in Caller : Holding(v) => KeyIn(v) # k /\ KeyIn(v) \in Key
  BY <1>1, KeyInType DEF ExecInv, Custody, Holding
<1>10. \A v \in Caller : v # w => (Holding(v)' <=> Holding(v))
  BY <1>3 DEF Holding
<1>11. Custody'
  <2>1. \A v \in Caller : v # w /\ Holding(v)' =>
           /\ KeyIn(v)' # k /\ rows'[KeyIn(v)'] = rows[KeyIn(v)]
    BY <1>3, <1>4, <1>9, <1>10
  <2> QED BY <1>3, <1>4, <1>5, <1>8, <1>10, <2>1 DEF ExecInv, Custody
<1>12. Records' BY <1>4, <1>5, <1>8 DEF ExecInv, Records
<1>13. Told'
  <2>1. answers[k] = {}
    BY <1>1, <1>2, <1>8 DEF ExecInv, Told, TypeOK
  <2> QED BY <1>1, <1>3, <1>4, <1>10, <2>1 DEF ExecInv, Told, Holds
<1>14. EffectOnce' BY <1>5 DEF ExecInv, EffectOnce
<1> QED BY <1>6, <1>7, <1>11, <1>12, <1>13, <1>14 DEF ExecInv

(* Replaying a settled row repeats what it says.                           *)
LEMMA ReplayKeeps ==
    ASSUME ExecInv, NEW w \in Caller, call[w].at = "validated", Replay(w),
           UNCHANGED <<nonces, lapsed, effects, gateVars>>
    PROVE  ExecInv'
<1> DEFINE k == KeyIn(w)
           verdict == rows[k].outcome
<1>1. rows[k].state \in {"completed", "indeterminate"} /\ UNCHANGED <<rows, leased>> /\ Answer(w, verdict)
  BY DEF Replay, SameIntent
<1>2. k \in Key BY KeyInType DEF ExecInv
<1>3. verdict \in {"effected", "refused", "unknown"}
  BY <1>1, <1>2 DEF ExecInv, Records, TypeOK, RowType
<1>4. /\ call' = [call EXCEPT ![w] = Idle]
      /\ answers'[k] = answers[k] \cup {verdict}
      /\ \A j \in Key : j # k => answers'[j] = answers[j]
      /\ answers' \in [Key -> SUBSET {"effected", "refused", "unknown"}]
  BY <1>1, <1>3, Answers DEF ExecInv
<1>5. /\ call'[w].at = "idle" /\ ~Holding(w)'
      /\ \A v \in Caller : v # w => call'[v] = call[v] /\ KeyIn(v)' = KeyIn(v)
      /\ call' \in [Caller -> [at : Positions, intent : Intent \cup {None}, cap : Capability \cup {None}]]
  BY <1>4, Returns DEF ExecInv
<1>6. Done' = Done /\ Happened' = Happened BY EffectsUnchanged
<1>7. TypeOK' BY <1>1, <1>4, <1>5 DEF ExecInv, TypeOK, GateTypeOK, gateVars
<1>8. Binding' BY <1>5, <1>6 DEF ExecInv, Binding, gateVars
<1>9. Custody' BY <1>1, <1>5, <1>6 DEF ExecInv, Custody, Holding
<1>10. Records' /\ EffectOnce' BY <1>1, <1>6 DEF ExecInv, Records, EffectOnce
<1>11. Told'
  <2>1. verdict = "unknown" => rows[k].state = "indeterminate" BY <1>2 DEF ExecInv, Records
  <2>2. \A v \in Caller, j \in Key : Holds(v, j)' => Holds(v, j) BY <1>5 DEF Holds, Holding
  <2> QED BY <1>1, <1>2, <1>4, <2>1, <2>2 DEF ExecInv, Told
<1> QED BY <1>7, <1>8, <1>9, <1>10, <1>11 DEF ExecInv

LEMMA ReserveKeeps == ASSUME ExecInv, NEW w \in Caller, ReserveKey(w) PROVE ExecInv'
<1>1. call[w].at = "validated" /\ UNCHANGED <<nonces, lapsed, effects, gateVars>>
  BY DEF ReserveKey
<1>2. CASE ClaimRow(w) BY <1>1, <1>2, ClaimKeeps
<1>3. CASE Conflict(w) \/ AlreadyExecuting(w)
  BY <1>1, <1>3, ReturnKeeps DEF Conflict, AlreadyExecuting, ReturnOnly
<1>4. CASE Replay(w) BY <1>1, <1>4, ReplayKeeps
<1>5. CASE TakeOver(w)
  BY <1>1, <1>5, SettleKeeps DEF TakeOver, SameIntent
<1> QED BY <1>2, <1>3, <1>4, <1>5 DEF ReserveKey

LEMMA NonceKeeps == ASSUME ExecInv, NEW w \in Caller, ConsumeNonce(w) PROVE ExecInv'
<1>1. /\ call[w].at = "reserved" /\ nonces' = nonces \cup {call[w].cap} /\ Move(w, "cleared")
      /\ UNCHANGED <<rows, leased, lapsed, effects, answers, gateVars>>
  BY DEF ConsumeNonce
<1>2. KeyIn(w) \in Key /\ call[w].intent \in Intent /\ call[w].cap \in Capability
  BY <1>1, KeyInType DEF ExecInv
<1>3. /\ call'[w].at = "cleared" /\ call'[w].intent = call[w].intent /\ call'[w].cap = call[w].cap
      /\ KeyIn(w)' = KeyIn(w)
      /\ \A v \in Caller : v # w => call'[v] = call[v] /\ KeyIn(v)' = KeyIn(v)
      /\ call' \in [Caller -> [at : Positions, intent : Intent \cup {None}, cap : Capability \cup {None}]]
  BY <1>1, Moves DEF ExecInv, Positions
<1>4. Done' = Done /\ Happened' = Happened BY <1>1, EffectsUnchanged
<1>5. TypeOK' BY <1>1, <1>2, <1>3 DEF ExecInv, TypeOK, GateTypeOK, gateVars
<1>6. Binding' BY <1>1, <1>3, <1>4 DEF ExecInv, Binding, gateVars
<1>7. \A v \in Caller : Holding(v)' <=> Holding(v) BY <1>1, <1>3 DEF Holding
<1>8. Custody' BY <1>1, <1>3, <1>4, <1>7 DEF ExecInv, Custody
<1>9. Records' /\ EffectOnce' BY <1>1, <1>4 DEF ExecInv, Records, EffectOnce
<1>10. Told' BY <1>1, <1>3, <1>7 DEF ExecInv, Told, Holds
<1> QED BY <1>5, <1>6, <1>8, <1>9, <1>10 DEF ExecInv

(* The one step that acts.  Its caller holds the key, so the effect is the *)
(* key's first, and it holds the capability, so it is the capability's.    *)
LEMMA RunKeeps == ASSUME ExecInv, NEW w \in Caller, RunRaw(w) PROVE ExecInv'
<1> DEFINE k == KeyIn(w)
           e == <<call[w].intent, call[w].cap>>
<1>1. /\ call[w].at = "cleared" /\ UNCHANGED <<rows, leased, nonces, lapsed, answers, gateVars>>
      /\ Move(w, "returned") \/ Move(w, "raised")
  BY DEF RunRaw
<1>2. /\ k \in Key /\ call[w].intent \in Intent /\ call[w].cap \in Capability /\ e \in Effect
      /\ e[1] = call[w].intent /\ e[2] = call[w].cap /\ KeyOf[e[1]] = k
  BY <1>1, KeyInType DEF ExecInv, Effect, KeyIn
<1>3. /\ call'[w].at \in {"returned", "raised"}
      /\ call'[w].intent = call[w].intent /\ call'[w].cap = call[w].cap
      /\ KeyIn(w)' = k
      /\ \A v \in Caller : v # w => call'[v] = call[v] /\ KeyIn(v)' = KeyIn(v)
      /\ call' \in [Caller -> [at : Positions, intent : Intent \cup {None}, cap : Capability \cup {None}]]
  BY <1>1, Moves DEF ExecInv, Positions
<1>4. k \notin Happened /\ rows[k].state \in {"pending", "indeterminate"}
  BY <1>1 DEF ExecInv, Custody, Holding
<1>5. \A v \in Caller : Holding(v)' <=> Holding(v) BY <1>1, <1>3 DEF Holding
<1>6. \/ /\ effects' = [effects EXCEPT ![e] = @ + 1]
         /\ Done' = Done \cup {e} /\ Happened' = Happened \cup {k}
      \/ UNCHANGED effects /\ Done' = Done /\ Happened' = Happened /\ call'[w].at = "raised"
  <2>1. CASE effects' = [effects EXCEPT ![e] = @ + 1]
    BY <1>2, <2>1, EffectsGrow DEF ExecInv
  <2>2. CASE Move(w, "raised") /\ UNCHANGED effects
    <3>1. call'[w].at = "raised" BY <2>2, Moves DEF ExecInv, Positions
    <3> QED BY <2>2, <3>1, EffectsUnchanged
  <2> QED BY <2>1, <2>2 DEF RunRaw
<1>7. TypeOK'
  <2>1. effects' \in [Effect -> Nat] BY <1>2, <1>6 DEF ExecInv, TypeOK
  <2>2. \A v \in Caller : call'[v].at # "idle" => call'[v].intent \in Intent /\ call'[v].cap \in Capability
    BY <1>2, <1>3 DEF ExecInv, TypeOK
  <2> QED BY <1>1, <1>3, <2>1, <2>2 DEF ExecInv, TypeOK, GateTypeOK, gateVars
<1>8. granted[e[2]] = e[1] /\ e[2] \in nonces
  BY <1>1, <1>2 DEF ExecInv, Binding
<1>9. Binding' BY <1>1, <1>3, <1>6, <1>8 DEF ExecInv, Binding, gateVars
<1>10. Custody'
  <2>1. \A v \in Caller : v # w /\ Holding(v) => KeyIn(v) # k
    BY <1>1 DEF ExecInv, Custody, Holding
  <2>2. call'[w].at = "returned" => k \in Happened' 
    BY <1>6
  <2> QED BY <1>1, <1>3, <1>4, <1>5, <1>6, <2>1, <2>2 DEF ExecInv, Custody
<1>11. Records' BY <1>1, <1>4, <1>6 DEF ExecInv, Records
<1>12. Told' BY <1>1, <1>3, <1>5 DEF ExecInv, Told, Holds
<1>13. EffectOnce'
  <2>1. \A d \in Done : KeyOf[d[1]] # k BY <1>4 DEF Happened
  <2>2. effects[e] = 0
    <3>1. e \notin Done BY <1>2, <2>1
    <3> QED BY <1>2, <3>1 DEF Done, ExecInv, TypeOK
  <2>3. \A d \in Effect : effects'[d] <= 1
    BY <1>2, <1>6, <2>2 DEF ExecInv, EffectOnce, TypeOK
  <2> QED BY <1>2, <1>6, <2>1, <2>3 DEF ExecInv, EffectOnce
<1> QED BY <1>7, <1>9, <1>10, <1>11, <1>12, <1>13 DEF ExecInv

(* A receipt that could not be stored: the holder leaves without a trace   *)
(* in the row, so nobody can complete it any more.                         *)
LEMMA LostKeeps ==
    ASSUME ExecInv, NEW w \in Caller, call[w].at = "returned", Answer(w, "unknown"),
           UNCHANGED <<rows, leased, nonces, lapsed, effects, gateVars>>
    PROVE  ExecInv'
<1> DEFINE k == KeyIn(w)
<1>1. /\ call' = [call EXCEPT ![w] = Idle] /\ k \in Key
      /\ answers'[k] = answers[k] \cup {"unknown"}
      /\ \A j \in Key : j # k => answers'[j] = answers[j]
      /\ answers' \in [Key -> SUBSET {"effected", "refused", "unknown"}]
  BY Answers DEF ExecInv
<1>2. /\ call'[w].at = "idle" /\ ~Holding(w)'
      /\ \A v \in Caller : v # w => call'[v] = call[v] /\ KeyIn(v)' = KeyIn(v)
      /\ call' \in [Caller -> [at : Positions, intent : Intent \cup {None}, cap : Capability \cup {None}]]
  BY <1>1, Returns DEF ExecInv
<1>3. Done' = Done /\ Happened' = Happened BY EffectsUnchanged
<1>4. TypeOK' BY <1>1, <1>2 DEF ExecInv, TypeOK, GateTypeOK, gateVars
<1>5. Binding' BY <1>2, <1>3 DEF ExecInv, Binding, gateVars
<1>6. Custody' BY <1>2, <1>3 DEF ExecInv, Custody, Holding
<1>7. Records' /\ EffectOnce' BY <1>3 DEF ExecInv, Records, EffectOnce
<1>8. rows[k].state \in {"pending", "indeterminate"} /\ \A v \in Caller : v # w => ~Holds(v, k)
  BY DEF ExecInv, Custody, Holds, Holding
<1>9. Told'
  <2>1. \A v \in Caller, j \in Key : Holds(v, j)' => v # w /\ Holds(v, j)
    BY <1>2 DEF Holds, Holding
  <2> QED BY <1>1, <1>8, <2>1 DEF ExecInv, Told
<1> QED BY <1>4, <1>5, <1>6, <1>7, <1>9 DEF ExecInv

LEMMA CallerKeeps == ASSUME ExecInv, NEW w \in Caller, CallerStep(w) PROVE ExecInv'
<1>1. CASE RefuseKey(w)
  BY <1>1, SettleKeeps, ReturnKeeps DEF RefuseKey, CanSettle, ReturnOnly
<1>2. CASE SettleRaised(w)
  BY <1>2, SettleKeeps, ReturnKeeps DEF SettleRaised, CanSettle, ReturnOnly
<1>3. CASE SettleReturned(w)
  BY <1>3, SettleKeeps DEF SettleReturned, CanSettle
<1>4. CASE ReceiptLost(w)
  BY <1>4, SettleKeeps, LostKeeps DEF ReceiptLost, CanSettle
<1>5. CASE Die(w)
  BY <1>5, ReturnKeeps DEF Die
<1> QED BY <1>1, <1>2, <1>3, <1>4, <1>5, PresentKeeps, ReserveKeeps, NonceKeeps, RunKeeps DEF CallerStep

LEMMA TimeKeeps ==
    ASSUME ExecInv, leased' \subseteq leased, lapsed' \subseteq Capability,
           UNCHANGED <<rows, nonces, call, effects, answers, gateVars>>
    PROVE  ExecInv'
<1>1. Done' = Done /\ Happened' = Happened BY EffectsUnchanged
<1>2. TypeOK' BY DEF ExecInv, TypeOK, GateTypeOK, gateVars
<1>3. Binding' BY <1>1 DEF ExecInv, Binding, gateVars
<1>4. Custody' /\ Records' /\ Told' /\ EffectOnce'
  BY <1>1 DEF ExecInv, Custody, Records, Told, EffectOnce, Holding, Holds, KeyIn
<1> QED BY <1>2, <1>3, <1>4 DEF ExecInv

LEMMA ExecutorKeeps == ASSUME ExecInv, ExecutorNext PROVE ExecInv'
<1>1. ASSUME NEW k \in Key, LeaseEnds(k) PROVE ExecInv'
  BY <1>1, TimeKeeps DEF LeaseEnds, ExecInv, TypeOK
<1>2. ASSUME NEW c \in Capability, CapabilityLapses(c) PROVE ExecInv'
  BY <1>2, TimeKeeps DEF CapabilityLapses, ExecInv, TypeOK
<1> QED BY <1>1, <1>2, CallerKeeps DEF ExecutorNext

(* The executor only reads the gate's state.                               *)
LEMMA ExecutorLeavesGate == ExecutorNext => UNCHANGED gateVars
BY DEF ExecutorNext, CallerStep, Present, ReserveKey, ConsumeNonce, RefuseKey, RunRaw, SettleRaised,
       SettleReturned, ReceiptLost, Die, LeaseEnds, CapabilityLapses

Inv == GateInv /\ ExecInv

LEMMA Invariance == Spec => []Inv
<1>1. Init => Inv BY GateInvInit, ExecInvInit DEF Inv, Init
<1>2. Inv /\ [Next]_vars => Inv'
  <2> SUFFICES ASSUME Inv, [Next]_vars PROVE Inv'
    OBVIOUS
  <2>1. [GateNext]_gateVars
    BY ExecutorLeavesGate DEF Next, vars
  <2>2. GateInv' BY <2>1, GateInvStep DEF Inv
  <2>3. ExecInv'
    <3>1. CASE GateNext /\ UNCHANGED executorVars BY <3>1, GateStepKeeps DEF Inv
    <3>2. CASE ExecutorNext BY <3>2, ExecutorKeeps DEF Inv
    <3>3. CASE UNCHANGED vars
      BY <3>3, TimeKeeps DEF Inv, ExecInv, TypeOK, vars, executorVars
    <3> QED BY <3>1, <3>2, <3>3 DEF Next
  <2> QED BY <2>2, <2>3 DEF Inv
<1> QED BY <1>1, <1>2, PTL DEF Spec

(* The stores of the gate and of the executor, and the callers' positions, *)
(* keep their shape.                                                       *)
THEOREM StoresTyped == Spec => []TypeOK
<1>1. Inv => TypeOK BY DEF Inv, ExecInv
<1> QED BY <1>1, Invariance, PTL

(* One effect per idempotency key, and behind the executor the gate's      *)
(* promises still hold.                                                    *)
THEOREM OneEffect == Spec => [](BudgetHolds /\ ApprovalPaysOnce /\ EffectOnce)
<1>1. Inv => BudgetHolds /\ ApprovalPaysOnce /\ EffectOnce
  BY GateInvPays DEF Inv, ExecInv
<1> QED BY <1>1, Invariance, PTL

(* Distinct effects were paid for by distinct capabilities, so a rule's    *)
(* budget bounds the effects as it bounds the capabilities.                *)
THEOREM EffectsPaid == Spec => []EffectsArePaidFor
<1>1. Inv => EffectsArePaidFor
  <2> SUFFICES ASSUME Inv PROVE EffectsArePaidFor
    OBVIOUS
  <2>1. \A e \in Done : /\ e \in Effect /\ e = <<e[1], e[2]>> /\ e[1] \in Intent /\ e[2] \in Capability
                       /\ granted[e[2]] = e[1] /\ e[2] \in nonces
    BY DEF Inv, ExecInv, Binding, Done, Effect
  <2>2. BudgetHolds /\ ApprovalPaysOnce BY GateInvPays DEF Inv
  <2>3. ASSUME NEW r \in DOMAIN Limit
        PROVE  Cardinality({e \in Done : r \in Matching[e[1]]}) <= Limit[r]
    <3> DEFINE D == {e \in Done : r \in Matching[e[1]]}
               f == [e \in D |-> e[2]]
    <3>1. \A e \in D : f[e] \in GrantedUnder(r)
      BY <2>1, PolicyAssumption DEF GrantedUnder
    <3>2. \A d, e \in D : f[d] = f[e] => d = e
      BY <2>1
    <3>3. f \in Injection(D, GrantedUnder(r))
      BY <3>1, <3>2 DEF Injection, IsInjective
    <3>4. IsFiniteSet(GrantedUnder(r)) /\ Cardinality(GrantedUnder(r)) \in Nat BY GrantedUnderCount
    <3>5. IsFiniteSet(D) /\ Cardinality(D) <= Cardinality(GrantedUnder(r))
      BY <3>3, <3>4, FS_Injection
    <3>6. Cardinality(D) \in Nat BY <3>5, FS_CardinalityType
    <3> QED BY <2>2, <3>4, <3>5, <3>6, PolicyAssumption DEF BudgetHolds
  <2> QED BY <2>1, <2>2, <2>3 DEF EffectsArePaidFor, ApprovalPaysOnce
<1> QED BY <1>1, Invariance, PTL

(* What a caller was told is the key's one verdict, and it is true.        *)
THEOREM TrueAnswers == Spec => []AnswersAreTrue
<1>1. Inv => AnswersAreTrue
  <2> SUFFICES ASSUME Inv, NEW k \in Key
               PROVE  /\ Cardinality(answers[k]) <= 1
                      /\ "effected" \in answers[k] => k \in Happened /\ rows[k].outcome = "effected"
                      /\ "refused" \in answers[k] => k \notin Happened
    BY DEF AnswersAreTrue
  <2>1. answers[k] \subseteq {"effected", "refused", "unknown"} BY DEF Inv, ExecInv, TypeOK
  <2>2. /\ "effected" \in answers[k] => rows[k].outcome = "effected"
        /\ "refused" \in answers[k] => rows[k].outcome = "refused"
        /\ "unknown" \in answers[k] => rows[k].outcome \in {"unknown", "none"}
    BY DEF Inv, ExecInv, Told, Records
  <2>3. \A u, v \in answers[k] : u = v BY <2>1, <2>2
  <2>4. Cardinality(answers[k]) <= 1
    <3>1. CASE answers[k] = {}
      <4>1. Cardinality({}) = 0 BY FS_EmptySet
      <4> QED BY <3>1, <4>1
    <3>2. CASE answers[k] # {}
      <4>1. PICK v : v \in answers[k] BY <3>2
      <4>2. answers[k] = {v} BY <2>3, <4>1
      <4>3. Cardinality({v}) = 1 BY FS_Singleton
      <4> QED BY <4>2, <4>3
    <3> QED BY <3>1, <3>2
  <2> QED BY <2>2, <2>4 DEF Inv, ExecInv, Records
<1> QED BY <1>1, Invariance, PTL

(* No step writes a settled row: only claiming and settling write, and     *)
(* both look at the state they find.                                       *)
THEOREM Settled == Spec => SettledIsFinal
<1>1. TypeOK /\ [Next]_vars =>
        [\A k \in Key : rows[k].state \in {"completed", "indeterminate"} => rows'[k] = rows[k]]_vars
  <2> SUFFICES ASSUME TypeOK, Next, NEW k \in Key, rows[k].state \in {"completed", "indeterminate"}
               PROVE  rows'[k] = rows[k]
    OBVIOUS
  <2>1. ASSUME NEW j, rows[j].state = "pending", NEW st, NEW out, Write(j, st, out) PROVE rows'[k] = rows[k]
    BY <2>1 DEF Write, TypeOK
  <2>2. ASSUME NEW w \in Caller, ClaimRow(w) PROVE rows'[k] = rows[k]
    BY <2>2 DEF ClaimRow, TypeOK
  <2>3. ASSUME NEW w \in Caller, CallerStep(w) PROVE rows'[k] = rows[k]
    BY <2>1, <2>2, <2>3
    DEF CallerStep, Present, ReserveKey, Conflict, Replay, AlreadyExecuting, TakeOver, SameIntent,
        ConsumeNonce, RefuseKey, RunRaw, SettleRaised, SettleReturned, ReceiptLost, Die, CanSettle
  <2> QED BY <2>3 DEF Next, ExecutorNext, executorVars, LeaseEnds, CapabilityLapses
<1>2. Inv => TypeOK BY DEF Inv, ExecInv
<1> QED BY <1>1, <1>2, Invariance, PTL DEF Spec, SettledIsFinal

-----------------------------------------------------------------------------
Fate == [k \in Key |-> FateOf(rows[k])]

(* What a written row means to the abstraction.                            *)
LEMMA WriteMeans ==
    ASSUME TypeOK, NEW k \in Key, rows[k].state = "pending",
           NEW outcome \in {"effected", "refused", "unknown"},
           NEW state, state = IF outcome = "unknown" THEN "indeterminate" ELSE "completed",
           Write(k, state, outcome)
    PROVE  Fate[k] = "claimed" /\ Fate' = [Fate EXCEPT ![k] = outcome]
<1>1. /\ rows'[k].state = state /\ rows'[k].outcome = outcome
      /\ \A j \in Key : j # k => rows'[j] = rows[j]
  BY Writes
<1>2. FateOf(rows'[k]) = outcome /\ FateOf(rows[k]) = "claimed" BY <1>1 DEF FateOf
<1>3. Fate' = [j \in Key |-> FateOf(rows'[j])] BY DEF Fate
<1>4. \A j \in Key : j # k => FateOf(rows'[j]) = FateOf(rows[j]) BY <1>1
<1> QED BY <1>2, <1>3, <1>4 DEF Fate

(* The executor implements OnceOnly: a claim is a claim, the raw           *)
(* executor's act is the effect, settling is settling, and everything      *)
(* else - the gate, capabilities, nonces, leases, deaths - is a stutter.   *)
THEOREM Implementation == Spec => ImplementsOnceOnly
<1> DEFINE abs == <<Fate, Happened>>
<1>1. Init => Promise!Init
  BY NoneDone DEF Init, Promise!Init, NoRow, FateOf
<1>2. Inv /\ [Next]_vars => [Promise!Next]_abs
  <2> SUFFICES ASSUME Inv, Next PROVE Promise!Next \/ UNCHANGED abs
    BY EffectsUnchanged DEF vars, executorVars, Fate
  <2>0. TypeOK BY DEF Inv, ExecInv
  <2>1. ASSUME UNCHANGED <<rows, effects>> PROVE UNCHANGED abs
    BY <2>1, EffectsUnchanged DEF Fate
  <2>2. ASSUME NEW w \in Caller, ClaimRow(w), call[w].at = "validated", UNCHANGED effects
        PROVE  Promise!Next
    <3> DEFINE k == KeyIn(w)
               new == [state |-> "pending", intent |-> call[w].intent, outcome |-> "none"]
    <3>1. k \in Key /\ rows[k].state = "absent" /\ rows' = [rows EXCEPT ![k] = new]
      BY <2>0, <2>2, KeyInType DEF ClaimRow
    <3>2. FateOf(new) = "claimed" /\ FateOf(rows[k]) = "open" BY <3>1 DEF FateOf
    <3>3. rows'[k] = new /\ \A j \in Key : j # k => rows'[j] = rows[j] BY <2>0, <3>1 DEF TypeOK
    <3>4. Fate[k] = "open" /\ Fate' = [Fate EXCEPT ![k] = "claimed"]
      <4>1. Fate' = [j \in Key |-> FateOf(rows'[j])] BY DEF Fate
      <4>2. FateOf(rows'[k]) = "claimed" /\ \A j \in Key : j # k => FateOf(rows'[j]) = FateOf(rows[j])
        BY <3>2, <3>3
      <4> QED BY <3>1, <3>2, <4>1, <4>2 DEF Fate
    <3>5. Promise!Claim(k) BY <2>2, <3>1, <3>4, EffectsUnchanged DEF Promise!Claim, Fate
    <3> QED BY <3>1, <3>5 DEF Promise!Next
  <2>3. ASSUME NEW w \in Caller, call[w].at # "idle", rows[KeyIn(w)].state = "pending",
               Write(KeyIn(w), "indeterminate", "unknown"), UNCHANGED effects
        PROVE  Promise!Next
    <3>1. KeyIn(w) \in Key BY <2>0, <2>3, KeyInType
    <3>2. Promise!Settle(KeyIn(w), "unknown")
      BY <2>0, <2>3, <3>1, WriteMeans, EffectsUnchanged DEF Promise!Settle, Fate
    <3> QED BY <3>1, <3>2 DEF Promise!Next, Promise!Doubted
  <2>4. ASSUME NEW w \in Caller, call[w].at = "reserved", rows[KeyIn(w)].state = "pending",
               Write(KeyIn(w), "completed", "refused"), UNCHANGED effects
        PROVE  Promise!Next
    <3>1. KeyIn(w) \in Key BY <2>0, <2>4, KeyInType
    <3>2. KeyIn(w) \notin Happened BY <2>4 DEF Inv, ExecInv, Custody, Holding
    <3>3. Fate[KeyIn(w)] = "claimed" /\ Fate' = [Fate EXCEPT ![KeyIn(w)] = "refused"]
      <4>1. "completed" = IF "refused" = "unknown" THEN "indeterminate" ELSE "completed" OBVIOUS
      <4> QED BY <2>0, <2>4, <3>1, <4>1, WriteMeans
    <3>4. Promise!Settle(KeyIn(w), "refused")
      BY <2>4, <3>3, EffectsUnchanged DEF Promise!Settle, Fate
    <3> QED BY <3>1, <3>2, <3>4 DEF Promise!Next, Promise!Refused
  <2>5. ASSUME NEW w \in Caller, call[w].at = "returned", rows[KeyIn(w)].state = "pending",
               Write(KeyIn(w), "completed", "effected"), UNCHANGED effects
        PROVE  Promise!Next
    <3>1. KeyIn(w) \in Key BY <2>0, <2>5, KeyInType
    <3>2. KeyIn(w) \in Happened BY <2>5 DEF Inv, ExecInv, Custody, Holding
    <3>3. Fate[KeyIn(w)] = "claimed" /\ Fate' = [Fate EXCEPT ![KeyIn(w)] = "effected"]
      <4>1. "completed" = IF "effected" = "unknown" THEN "indeterminate" ELSE "completed" OBVIOUS
      <4> QED BY <2>0, <2>5, <3>1, <4>1, WriteMeans
    <3>4. Promise!Settle(KeyIn(w), "effected")
      BY <2>5, <3>3, EffectsUnchanged DEF Promise!Settle, Fate
    <3> QED BY <3>1, <3>2, <3>4 DEF Promise!Next, Promise!Effected
  <2>6. ASSUME NEW w \in Caller, RunRaw(w) PROVE Promise!Next \/ UNCHANGED abs
    <3> DEFINE k == KeyIn(w)
               e == <<call[w].intent, call[w].cap>>
    <3>1. call[w].at = "cleared" /\ UNCHANGED rows BY <2>6 DEF RunRaw
    <3>2. k \in Key /\ e \in Effect /\ KeyOf[e[1]] = k
      BY <2>0, <3>1, KeyInType DEF Effect, KeyIn
    <3>3. k \notin Happened /\ rows[k].state \in {"pending", "indeterminate"}
      BY <3>1 DEF Inv, ExecInv, Custody, Holding
    <3>4. Fate[k] \in {"claimed", "unknown"} /\ UNCHANGED Fate
      BY <3>1, <3>2, <3>3 DEF Fate, FateOf
    <3>5. CASE effects' = [effects EXCEPT ![e] = @ + 1]
      <4>1. Happened' = Happened \cup {k} BY <2>0, <3>2, <3>5, EffectsGrow
      <4>2. Promise!Happen(k) BY <3>3, <3>4, <4>1 DEF Promise!Happen, Fate
      <4> QED BY <3>2, <4>2 DEF Promise!Next
    <3>6. CASE UNCHANGED effects BY <3>1, <3>6, <2>1
    <3> QED BY <2>6, <3>5, <3>6 DEF RunRaw
  <2>7. ASSUME NEW w \in Caller, ReserveKey(w) PROVE Promise!Next \/ UNCHANGED abs
    BY <2>7, <2>1, <2>2, <2>3
    DEF ReserveKey, Conflict, Replay, AlreadyExecuting, TakeOver, SameIntent
  <2>8. ASSUME NEW w \in Caller, RefuseKey(w) \/ SettleRaised(w) \/ SettleReturned(w) \/ ReceiptLost(w)
        PROVE  Promise!Next \/ UNCHANGED abs
    BY <2>8, <2>1, <2>3, <2>4, <2>5 DEF RefuseKey, SettleRaised, SettleReturned, ReceiptLost, CanSettle
  <2>9. ASSUME NEW w \in Caller, CallerStep(w) PROVE Promise!Next \/ UNCHANGED abs
    BY <2>9, <2>1, <2>6, <2>7, <2>8 DEF CallerStep, Present, ConsumeNonce, Die
  <2> QED BY <2>1, <2>9 DEF Next, ExecutorNext, executorVars, LeaseEnds, CapabilityLapses
<1> QED BY <1>1, <1>2, Invariance, PTL DEF Spec, ImplementsOnceOnly, Promise!Spec, Fate
=============================================================================
