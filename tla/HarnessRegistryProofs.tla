------------------------- MODULE HarnessRegistryProofs -------------------------
(***************************************************************************)
(* The registry of harness changes is sound for all components, people,    *)
(* changes, evaluations and processes: however checks and updates          *)
(* interleave, no stage is reached without the evaluation it stands for,   *)
(* and no component moves except along a reviewed change.                  *)
(***************************************************************************)
EXTENDS HarnessRegistry, TLAPS

(* What a recorder carries from its check to its update goes on holding: a *)
(* change once stored keeps its proposal.                                  *)
Pending ==
    \A r \in Recorder :
        LET b == bundle[r] IN
        b # NoBundle => /\ Validated(b) /\ change[b.change].stage # "absent"
                        /\ Satisfies(b, change[b.change].proposal)

(* A stored change holds a real proposal, and what a promoted one would go *)
(* back to is the base it started from.                                    *)
BaseKept ==
    \A x \in Change :
        /\ change[x].stage # "absent" => change[x].proposal \in Proposal
        /\ change[x].stage = "promoted" => change[x].previous = change[x].proposal.base

Inv == TypeOK /\ StageIsEarned /\ Pending /\ BaseKept

LEMMA NoneIsNone ==
    /\ \A b \in Bundle : b # NoBundle /\ b.change \in Change
    /\ \A d \in Proposal : d # NoProposal /\ d.change \in Change /\ d.component \in Component
                           /\ d.base \in Version /\ d.target \in Version /\ d.proposer \in Person
    /\ \A t \in Receipt : t.change \in Change /\ t.reviewer \in Person
    /\ \A v \in Version \cup Person : v # None
BY RegistryAssumption DEF Bundle, NoBundle, Proposal, NoProposal, Receipt

LEMMA InitInv == Init => Inv
BY DEF Init, Inv, TypeOK, StageIsEarned, Pending, BaseKept, NoChange, Row, Stages

-------------------------------------------------------------------------------
(* Steps that leave the changes alone.                                     *)
LEMMA ChangeKept ==
    ASSUME Inv, UNCHANGED change, TypeOK', Pending'
    PROVE  Inv'
BY DEF Inv, StageIsEarned, BaseKept

LEMMA RegisterKeeps ==
    ASSUME Inv, NEW c \in Component, NEW v \in Version, Register(c, v)
    PROVE  Inv'
<1>1. TypeOK' BY DEF Inv, TypeOK, Register
<1>2. Pending' BY DEF Inv, Pending, Register
<1> QED BY <1>1, <1>2, ChangeKept DEF Register

LEMMA CheckBaseKeeps ==
    ASSUME Inv, NEW p \in Proposing, CheckBase(p)
    PROVE  Inv'
<1>1. PICK d \in Intended : draft' = [draft EXCEPT ![p] = d]
  BY DEF CheckBase
<1>2. d \in Proposal BY RegistryAssumption
<1>3. TypeOK' BY <1>1, <1>2 DEF Inv, TypeOK, CheckBase
<1>4. Pending' BY DEF Inv, Pending, CheckBase
<1> QED BY <1>3, <1>4, ChangeKept DEF CheckBase

LEMMA CheckShadowKeeps ==
    ASSUME Inv, NEW r \in Recorder, CheckShadow(r)
    PROVE  Inv'
<1>1. PICK b \in Evaluations : /\ Validated(b) /\ change[b.change].stage = "proposed"
                               /\ Satisfies(b, change[b.change].proposal)
                               /\ bundle' = [bundle EXCEPT ![r] = b]
  BY DEF CheckShadow
<1>2. b \in Bundle BY RegistryAssumption
<1>3. TypeOK' BY <1>1, <1>2 DEF Inv, TypeOK, CheckShadow
<1>4. Pending' BY <1>1 DEF Inv, Pending, TypeOK, CheckShadow
<1> QED BY <1>3, <1>4, ChangeKept DEF CheckShadow

-------------------------------------------------------------------------------
(* Steps that rewrite the row of one change.                               *)
LEMMA RowRewritten ==
    ASSUME Inv, NEW x \in Change, NEW row \in Row, change' = [change EXCEPT ![x] = row],
           /\ row.stage \in {"shadow-passed", "promoted", "rolled-back"} =>
                 row.shadow.change = x /\ Validated(row.shadow) /\ Satisfies(row.shadow, row.proposal)
           /\ row.stage \in {"promoted", "rolled-back"} => row.reviewer \notin {None, row.proposal.proposer}
           /\ row.stage = "promoted" => row.previous = row.proposal.base,
           row.proposal \in Proposal, row.stage # "absent", change[x].stage # "absent" => row.proposal = change[x].proposal,
           \A r \in Recorder : bundle'[r] # NoBundle => bundle'[r] = bundle[r]
    PROVE  change' \in [Change -> Row] /\ StageIsEarned' /\ Pending' /\ BaseKept'
<1>1. change'[x] = row /\ (\A y \in Change : y # x => change'[y] = change[y]) /\ change' \in [Change -> Row]
  BY DEF Inv, TypeOK
<1>2. StageIsEarned'
  BY <1>1 DEF Inv, StageIsEarned
<1>3. BaseKept'
  BY <1>1 DEF Inv, BaseKept
<1>4. Pending'
  <2> SUFFICES ASSUME NEW r \in Recorder, bundle'[r] # NoBundle
               PROVE  LET b == bundle'[r] IN
                      /\ Validated(b) /\ change'[b.change].stage # "absent"
                      /\ Satisfies(b, change'[b.change].proposal)
    BY DEF Pending
  <2> DEFINE b == bundle[r]
  <2>1. bundle'[r] = b /\ b \in Bundle
    BY DEF Inv, TypeOK
  <2>2. b.change \in Change /\ b # NoBundle
    BY <2>1, NoneIsNone
  <2>3. Validated(b) /\ change[b.change].stage # "absent" /\ Satisfies(b, change[b.change].proposal)
    BY <2>2 DEF Inv, Pending
  <2>4. change'[b.change].stage # "absent" /\ change'[b.change].proposal = change[b.change].proposal
    <3>1. CASE b.change = x BY <1>1, <2>3, <3>1
    <3>2. CASE b.change # x BY <1>1, <2>2, <2>3, <3>2
    <3> QED BY <3>1, <3>2
  <2> QED BY <2>1, <2>3, <2>4
<1> QED BY <1>1, <1>2, <1>3, <1>4

LEMMA ProposeKeeps ==
    ASSUME Inv, NEW p \in Proposing, Propose(p)
    PROVE  Inv'
<1> DEFINE d == draft[p]
           x == d.change
           row == [NoChange EXCEPT !.stage = "proposed", !.proposal = d]
<1>1. d \in Proposal BY DEF Inv, TypeOK, Propose
<1>2. x \in Change BY <1>1, NoneIsNone
<1>3. row \in Row /\ row.stage = "proposed" /\ row.proposal = d BY <1>1 DEF Row, NoChange, Stages
<1>4. UNCHANGED <<current, bundle>> /\ draft' \in [Proposing -> Proposal \cup {NoProposal}]
  BY DEF Inv, TypeOK, Propose
<1>5. CASE change[x].stage = "absent"
  <2>1. change' = [change EXCEPT ![x] = row] BY <1>5 DEF Propose
  <2> HIDE DEF row
  <2>2. change' \in [Change -> Row] /\ StageIsEarned' /\ Pending' /\ BaseKept'
    BY <1>1, <1>2, <1>3, <1>4, <1>5, <2>1, RowRewritten
  <2> QED BY <2>2, <1>4 DEF Inv, TypeOK
<1>6. CASE change[x].stage # "absent"
  <2>1. change' = change BY <1>6 DEF Propose
  <2>2. TypeOK' /\ Pending' BY <1>4, <2>1 DEF Inv, TypeOK, Pending
  <2> QED BY <2>1, <2>2, ChangeKept
<1> QED BY <1>5, <1>6

LEMMA RecordShadowKeeps ==
    ASSUME Inv, NEW r \in Recorder, RecordShadow(r)
    PROVE  Inv'
<1> DEFINE b == bundle[r]
           x == b.change
           row == [change[x] EXCEPT !.stage = "shadow-passed", !.shadow = b]
<1>1. b \in Bundle /\ b # NoBundle BY DEF Inv, TypeOK, RecordShadow
<1>2. x \in Change BY <1>1, NoneIsNone
<1>3. change[x] \in Row BY <1>2 DEF Inv, TypeOK
<1>4. /\ row \in Row /\ row.stage = "shadow-passed" /\ row.shadow = b
      /\ row.proposal = change[x].proposal
  BY <1>1, <1>3 DEF Row, Stages
<1>5. Validated(b) /\ Satisfies(b, change[x].proposal) /\ change[x].proposal \in Proposal
  BY <1>1, <1>2 DEF Inv, Pending, BaseKept
<1>6. change' = [change EXCEPT ![x] = row]
  BY <1>2 DEF RecordShadow, Inv, TypeOK
<1>7. /\ UNCHANGED <<current, draft>> /\ bundle' \in [Recorder -> Bundle \cup {NoBundle}]
      /\ \A s \in Recorder : bundle'[s] # NoBundle => bundle'[s] = bundle[s]
  BY DEF Inv, TypeOK, RecordShadow
<1> HIDE DEF row
<1>8. change' \in [Change -> Row] /\ StageIsEarned' /\ Pending' /\ BaseKept'
  BY <1>2, <1>4, <1>5, <1>6, <1>7, RowRewritten
<1> QED BY <1>7, <1>8 DEF Inv, TypeOK

LEMMA PromoteKeeps ==
    ASSUME Inv, NEW t \in Receipt, Promote(t)
    PROVE  Inv'
<1> DEFINE x == t.change
           d == change[x].proposal
           row == [change[x] EXCEPT !.stage = "promoted", !.reviewer = t.reviewer, !.previous = current[d.component]]
<1>1. x \in Change /\ t.reviewer \in Person /\ t.reviewer # None BY NoneIsNone
<1>2. /\ change[x].stage = "shadow-passed" /\ t.reviewer # d.proposer /\ current[d.component] = d.base
      /\ current' = [current EXCEPT ![d.component] = d.target]
      /\ UNCHANGED <<draft, bundle>>
  BY DEF Promote
<1>3. change[x] \in Row /\ d \in Proposal
  BY <1>1, <1>2 DEF Inv, TypeOK, BaseKept
<1>4. d.component \in Component /\ d.base \in Version /\ d.target \in Version
  BY <1>3, NoneIsNone
<1>5. /\ row \in Row /\ row.stage = "promoted" /\ row.reviewer = t.reviewer /\ row.previous = d.base
      /\ row.proposal = d /\ row.shadow = change[x].shadow
  BY <1>1, <1>2, <1>3, <1>4 DEF Row, Stages
<1>6. row.shadow.change = x /\ Validated(row.shadow) /\ Satisfies(row.shadow, d)
  BY <1>1, <1>2, <1>5 DEF Inv, StageIsEarned
<1>7. change' = [change EXCEPT ![x] = row]
  BY <1>1 DEF Promote, Inv, TypeOK
<1>8. current' \in [Component -> Version \cup {None}]
  BY <1>2, <1>4 DEF Inv, TypeOK
<1> HIDE DEF row
<1>9. change' \in [Change -> Row] /\ StageIsEarned' /\ Pending' /\ BaseKept'
  BY <1>1, <1>2, <1>3, <1>5, <1>6, <1>7, RowRewritten
<1> QED BY <1>2, <1>8, <1>9 DEF Inv, TypeOK

LEMMA RollbackKeeps ==
    ASSUME Inv, NEW t \in Receipt, Rollback(t)
    PROVE  Inv'
<1> DEFINE x == t.change
           d == change[x].proposal
           row == [change[x] EXCEPT !.stage = "rolled-back", !.reviewer = t.reviewer]
<1>1. x \in Change /\ t.reviewer \in Person /\ t.reviewer # None BY NoneIsNone
<1>2. /\ change[x].stage = "promoted" /\ t.reviewer # d.proposer
      /\ current' = [current EXCEPT ![d.component] = change[x].previous]
      /\ UNCHANGED <<draft, bundle>>
  BY DEF Rollback
<1>3. change[x] \in Row /\ d \in Proposal
  BY <1>1, <1>2 DEF Inv, TypeOK, BaseKept
<1>4. change[x].previous \in Version \cup {None}
  BY <1>3 DEF Row
<1>5. /\ row \in Row /\ row.stage = "rolled-back" /\ row.reviewer = t.reviewer
      /\ row.proposal = d /\ row.shadow = change[x].shadow
  BY <1>1, <1>3 DEF Row, Stages
<1>6. row.shadow.change = x /\ Validated(row.shadow) /\ Satisfies(row.shadow, d)
  BY <1>1, <1>2, <1>5 DEF Inv, StageIsEarned
<1>7. change' = [change EXCEPT ![x] = row]
  BY <1>1 DEF Rollback, Inv, TypeOK
<1>8. current' \in [Component -> Version \cup {None}]
  BY <1>2, <1>4 DEF Inv, TypeOK
<1> HIDE DEF row
<1>9. change' \in [Change -> Row] /\ StageIsEarned' /\ Pending' /\ BaseKept'
  BY <1>1, <1>2, <1>3, <1>5, <1>6, <1>7, RowRewritten
<1> QED BY <1>2, <1>8, <1>9 DEF Inv, TypeOK

LEMMA InvStep == Inv /\ [Next]_vars => Inv'
<1> SUFFICES ASSUME Inv, [Next]_vars PROVE Inv'
  OBVIOUS
<1>1. CASE UNCHANGED vars
  BY <1>1 DEF vars, Inv, TypeOK, StageIsEarned, Pending, BaseKept
<1> QED BY <1>1, RegisterKeeps, CheckBaseKeeps, ProposeKeeps, CheckShadowKeeps, RecordShadowKeeps,
           PromoteKeeps, RollbackKeeps DEF Next

-------------------------------------------------------------------------------
(* Every column of the registry holds values of its kind.                  *)
THEOREM TypeCorrect == Spec => []TypeOK
<1>1. Inv => TypeOK BY DEF Inv
<1> QED BY <1>1, InitInv, InvStep, PTL DEF Spec

(* A change past its proposal rests on a trusted evaluation of it without  *)
(* safety regression that reaches the bundle's and the proposal's minimum, *)
(* and on a reviewer who is not its proposer.                              *)
THEOREM Earned == Spec => []StageIsEarned
<1>1. Inv => StageIsEarned BY DEF Inv
<1> QED BY <1>1, InitInv, InvStep, PTL DEF Spec

(* A step that changes both a component and a change is a promotion from   *)
(* the evaluated base or a rollback to it: nothing is overwritten unseen.  *)
THEOREM Careful == Spec => NothingIsOverwritten
<1> DEFINE Along == change' # change =>
        \A c \in Component : current'[c] # current[c] => \E x \in Change : Forward(x, c) \/ Back(x, c)
<1>1. Inv /\ [Next]_vars => [Along]_vars
  <2> SUFFICES ASSUME Inv, Next, change' # change, NEW c \in Component, current'[c] # current[c]
               PROVE  \E x \in Change : Forward(x, c) \/ Back(x, c)
    OBVIOUS
  <2>1. ASSUME NEW t \in Receipt, Promote(t)
        PROVE  Forward(t.change, c)
    <3>1. t.change \in Change BY NoneIsNone
    <3>2. change[t.change].stage = "shadow-passed" BY <2>1 DEF Promote
    <3>3. change[t.change] \in Row /\ change[t.change].proposal \in Proposal
      BY <3>1, <3>2 DEF Inv, TypeOK, BaseKept
    <3>4. /\ change'[t.change].stage = "promoted"
          /\ change'[t.change].previous = current[change[t.change].proposal.component]
      BY <2>1, <3>1, <3>3 DEF Promote, Inv, TypeOK, Row
    <3> QED BY <2>1, <3>1, <3>2, <3>3, <3>4 DEF Promote, Forward, Inv, TypeOK
  <2>2. ASSUME NEW t \in Receipt, Rollback(t)
        PROVE  Back(t.change, c)
    <3>1. t.change \in Change BY NoneIsNone
    <3>2. change[t.change].stage = "promoted" BY <2>2 DEF Rollback
    <3>3. change[t.change] \in Row /\ change[t.change].previous = change[t.change].proposal.base
      BY <3>1, <3>2 DEF Inv, TypeOK, BaseKept
    <3>4. change'[t.change].stage = "rolled-back" /\ change'[t.change].reviewer = t.reviewer
      BY <2>2, <3>1, <3>3 DEF Rollback, Inv, TypeOK, Row
    <3> QED BY <2>2, <3>1, <3>2, <3>3, <3>4 DEF Rollback, Back, Inv, TypeOK
  <2>3. \A t \in Receipt : t.change \in Change BY NoneIsNone
  <2>4. CASE \E t \in Receipt : Promote(t) \/ Rollback(t)
    BY <2>1, <2>2, <2>3, <2>4
  <2>5. CASE UNCHANGED change \/ UNCHANGED current
    BY <2>5
  <2> QED BY <2>4, <2>5 DEF Next, Register, CheckBase, Propose, CheckShadow, RecordShadow
<1> QED BY <1>1, InitInv, InvStep, PTL DEF Spec, NothingIsOverwritten
===============================================================================
