--------------------------- MODULE AcceptanceProofs ---------------------------
(***************************************************************************)
(* What acceptance rests on, for any checks, plans, receipts, clocks and   *)
(* numbers of actions: evidence is filed under the workspace it is about,  *)
(* a failure stands until a later receipt lifts it, and an accepted run is *)
(* attested.  A receipt of this run names the action it was signed for     *)
(* (Signed), and what was read is a valid receipt for the action it was    *)
(* read about (Read), so its workspace is that action's; the clock orders  *)
(* receipts as it orders actions (Ordered, Signed).                        *)
(***************************************************************************)
EXTENDS Acceptance, SequenceTheorems, FiniteSetTheorems, WellFoundedInduction, TLAPS

-------------------------------------------------------------------------------
(* Induction on the natural numbers, over a set.                           *)
LEMMA NatSetInduction ==
    ASSUME NEW S, 0 \in S, \A n \in Nat : n \in S => n + 1 \in S
    PROVE  Nat \subseteq S
<1> DEFINE Rest == Nat \ S
           Less == {p \in Nat \X Nat : p[1] < p[2]}
<1>1. IsWellFoundedOn(Less, Nat) BY NatLessThanWellFounded DEF OpToRel
<1>2. ASSUME Rest # {} PROVE FALSE
  <2>1. PICK x \in Rest : \A y \in Rest : <<y, x>> \notin Less BY <1>1, <1>2, WFMin
  <2>2. x # 0 /\ x \in Nat OBVIOUS
  <2>3. x - 1 \in Nat /\ (x - 1) + 1 = x /\ x - 1 < x BY <2>2
  <2>4. x - 1 \in Rest BY <2>3
  <2>5. <<x - 1, x>> \in Less BY <2>2, <2>3
  <2> QED BY <2>1, <2>4, <2>5
<1> QED BY <1>2

(* A total order on numbers up to n has a last element.                    *)
LEMMA LastExists ==
    ASSUME NEW n \in Nat, NEW T \in SUBSET (1..n), T # {}, NEW R,
           \A i, j \in T : <<i, j>> \in R \/ <<j, i>> \in R,
           \A i, j, k \in T : <<i, j>> \in R /\ <<j, k>> \in R => <<i, k>> \in R
    PROVE  \E j \in T : \A i \in T : <<i, j>> \in R
<1> DEFINE Has(U) == \E j \in U : \A i \in U : <<i, j>> \in R
           S == {m \in Nat : \A U \in SUBSET T : U # {} /\ U \subseteq 1..m => Has(U)}
<1>1. 0 \in S
  <2>1. 1..0 = {} OBVIOUS
  <2> QED BY <2>1
<1>2. ASSUME NEW m \in Nat, m \in S PROVE m + 1 \in S
  <2> SUFFICES ASSUME NEW U \in SUBSET T, U # {}, U \subseteq 1..(m + 1) PROVE Has(U)
    BY <1>2
  <2> DEFINE V == U \ {m + 1}
  <2>1. V \subseteq 1..m BY <1>2
  <2>2. CASE V = {}
    <3>1. U = {m + 1} BY <2>2
    <3> QED BY <3>1
  <2>3. CASE V # {}
    <3>0. V \in SUBSET T OBVIOUS
    <3>1. PICK j \in V : \A i \in V : <<i, j>> \in R BY <1>2, <2>1, <2>3, <3>0
    <3>2. CASE m + 1 \notin U BY <3>1, <3>2
    <3>3. CASE m + 1 \in U /\ <<m + 1, j>> \in R
      <4>1. \A i \in U : <<i, j>> \in R BY <3>1, <3>3
      <4> QED BY <4>1
    <3>4. CASE m + 1 \in U /\ <<j, m + 1>> \in R
      <4>1. <<m + 1, m + 1>> \in R BY <3>4
      <4>2. \A i \in U : <<i, m + 1>> \in R BY <3>1, <3>4, <4>1
      <4> QED BY <3>4, <4>2
    <3> QED BY <3>1, <3>2, <3>3, <3>4
  <2> QED BY <2>2, <2>3
<1> HIDE DEF S
<1>3. n \in S BY <1>1, <1>2, NatSetInduction
<1> QED BY <1>3 DEF S

-------------------------------------------------------------------------------
(* The inductive invariant.                                                *)
Entries == [intent : Intent, workspace : Workspace, time : 0..MaxTime,
            source : Workspace \cup {"unknown"}, report : UNION {[S -> Statement] : S \in SUBSET Check}]

Typed == TypeOK /\ evidence \in Seq(Entries) /\ (at \in {"evaluate", "verify"} => Instance <= MaxActions)

\* The last action that was begun, and the receipts it may have got.
Begun == IF at \in {"evaluate", "verify"} THEN Instance ELSE Len(evidence)

SignedFor(r) ==
    /\ r.instance <= Begun
    /\ r.issued <= now + OffsetOf[r.check]
    /\ r.instance > 1 => evidence[r.instance - 1].time + OffsetOf[r.check] <= r.issued
    /\ IF r.instance <= Len(evidence)
       THEN /\ r.workspace = evidence[r.instance].workspace
            /\ r.issued <= evidence[r.instance].time + OffsetOf[r.check]
       ELSE r.workspace = action.workspace

Signed == \A r \in signed : r.run = "ours" => SignedFor(r)

Answered == \A c \in Check : answers[c] \in signed \cup {NoReceipt}

Ordered ==
    \A j \in DOMAIN evidence :
        evidence[j].time <= now /\ \A i \in 1..j : evidence[i].time <= evidence[j].time

\* What is on record for check c of action j.
ReadRight(j, c) ==
    LET s == evidence[j].report[c] IN
    IF s.receipt = NoReceipt THEN s.status # "pass"
    ELSE /\ Genuine(c, j, s.receipt) /\ s.status = s.receipt.result
         /\ evidence[j].time < revoked[c] /\ evidence[j].time < s.receipt.issued + TtlOf[c]
         /\ evidence[j].source = evidence[j].workspace

Read == \A j \in DOMAIN evidence : \A c \in DOMAIN evidence[j].report : ReadRight(j, c)

Ended == at = "end" => evidence # <<>> /\ FinalGoal(evidence) = "pass"

Inv == Typed /\ Signed /\ Answered /\ Ordered /\ Read /\ EvidenceIsFiledRight /\ Ended

-------------------------------------------------------------------------------
(* Types, and what a report of the action under way says.                  *)
LEMMA StatementTyped ==
    ASSUME NEW s \in Statement
    PROVE  s.status \in Results /\ s.receipt \in Receipts \cup {NoReceipt}
BY DEF Statement

LEMMA ReceiptTyped ==
    ASSUME NEW r \in Receipts
    PROVE  /\ r.check \in Check /\ r.run \in {"ours", "other"} /\ r.instance \in 1..MaxActions
           /\ r.workspace \in Workspace /\ r.result \in Results /\ r.issued \in Int
           /\ OffsetOf[r.check] \in Int
BY AcceptanceAssumption DEF Receipts

LEMMA EntryTyped ==
    ASSUME NEW e \in Entries
    PROVE  /\ e.workspace \in Workspace /\ e.time \in 0..MaxTime /\ e.source \in Workspace \cup {"unknown"}
           /\ DOMAIN e.report \subseteq Check
           /\ \A c \in DOMAIN e.report : e.report[c] \in Statement
<1>1. PICK S \in SUBSET Check : e.report \in [S -> Statement] BY DEF Entries
<1> QED BY <1>1 DEF Entries

LEMMA EvidenceTyped ==
    ASSUME Typed, NEW j \in DOMAIN evidence
    PROVE  evidence[j] \in Entries /\ j \in 1..Len(evidence) /\ Len(evidence) \in Nat
BY ElementOfSeq, LenProperties DEF Typed

LEMMA VerifiedTyped ==
    ASSUME Typed, NEW c \in Check
    PROVE  Verified(c) \in Statement
<1>1. answers[c] \in Receipts \cup {NoReceipt} BY DEF Typed, TypeOK
<1>2. Checked("inconclusive", NoReceipt) \in Statement /\ Checked("fail", NoReceipt) \in Statement
  BY DEF Checked, Statement, Results
<1>3. answers[c] # NoReceipt => Checked(answers[c].result, answers[c]) \in Statement
  BY <1>1, ReceiptTyped DEF Checked, Statement
<1> QED BY <1>2, <1>3 DEF Verified

LEMMA ReportTyped ==
    ASSUME Typed
    PROVE  /\ Report \in UNION {[S -> Statement] : S \in SUBSET Check}
           /\ DOMAIN Report \subseteq Check
           /\ \A c \in DOMAIN Report : Report[c] = Verified(c) \/ Report[c] = Checked("inconclusive", NoReceipt)
<1> DEFINE S == {Plans[k] : k \in {i \in DOMAIN Plans : Ran(i)}} \cup Required
           Says(c) == IF \E k \in DOMAIN Plans : Plans[k] = c /\ Ran(k) THEN Verified(c)
                      ELSE Checked("inconclusive", NoReceipt)
<1>1. S \in SUBSET Check
  <2>1. \A k \in DOMAIN Plans : Plans[k] \in Check BY AcceptanceAssumption, ElementOfSeq, LenProperties
  <2> QED BY <2>1, AcceptanceAssumption
<1>2. Report = [c \in S |-> Says(c)] BY DEF Report
<1>3. Checked("inconclusive", NoReceipt) \in Statement BY DEF Checked, Statement, Results
<1>4. ASSUME NEW c \in S PROVE Says(c) \in Statement
  <2>1. Verified(c) \in Statement BY <1>1, VerifiedTyped
  <2> QED BY <1>3, <2>1
<1>5. \A c \in S : Says(c) = Verified(c) \/ Says(c) = Checked("inconclusive", NoReceipt) OBVIOUS
<1> HIDE DEF S, Says
<1>6. Report \in [S -> Statement] BY <1>2, <1>4
<1>7. DOMAIN Report = S /\ \A c \in S : Report[c] = Says(c) BY <1>2
<1> QED BY <1>1, <1>5, <1>6, <1>7

LEMMA ReportRight ==
    ASSUME Typed, Signed, Answered, at = "verify", NEW c \in DOMAIN Report
    PROVE  LET s == Report[c] IN
           IF s.receipt = NoReceipt THEN s.status # "pass"
           ELSE /\ s.receipt \in signed /\ s.receipt.check = c /\ s.receipt.run = "ours"
                /\ s.receipt.instance = Instance /\ s.receipt.workspace = action.workspace
                /\ s.status = s.receipt.result
                /\ now < revoked[c] /\ now < s.receipt.issued + TtlOf[c]
<1>1. c \in Check BY ReportTyped
<1>2. CASE Report[c] = Checked("inconclusive", NoReceipt) BY <1>2 DEF Checked
<1>3. CASE Report[c] = Verified(c) /\ answers[c] = NoReceipt BY <1>3 DEF Verified, Checked
<1>4. CASE Report[c] = Verified(c) /\ answers[c] # NoReceipt /\ ~Valid(answers[c], c)
  BY <1>4 DEF Verified, Checked
<1>5. CASE Report[c] = Verified(c) /\ answers[c] # NoReceipt /\ Valid(answers[c], c)
  <2> DEFINE r == answers[c]
  <2>1. Report[c].receipt = r /\ Report[c].status = r.result BY <1>5 DEF Verified, Checked
  <2>2. r \in signed BY <1>1, <1>5 DEF Answered
  <2>3. r.check = c /\ r.run = "ours" /\ r.instance = Instance /\ now < revoked[c] /\ now < r.issued + TtlOf[c]
    BY <1>5 DEF Valid
  <2>4. SignedFor(r) BY <2>2, <2>3 DEF Signed
  <2>5. ~(Instance <= Len(evidence)) BY LenProperties DEF Typed, Instance
  <2>6. r.workspace = action.workspace BY <2>3, <2>4, <2>5 DEF SignedFor
  <2> QED BY <1>5, <2>1, <2>2, <2>3, <2>6
<1> QED BY <1>2, <1>3, <1>4, <1>5, ReportTyped

LEMMA SourceRight ==
    ASSUME Typed, Signed, Answered, at = "verify"
    PROVE  /\ Source(Report) \in {action.workspace, "unknown"}
           /\ (\E c \in DOMAIN Report : Report[c].receipt # NoReceipt) => Source(Report) = action.workspace
<1> DEFINE sources == {Report[c].receipt.workspace : c \in {d \in DOMAIN Report : Report[d].receipt # NoReceipt}}
<1>1. sources \subseteq {action.workspace} BY ReportRight
<1>2. Source(Report) = IF Cardinality(sources) = 1 THEN CHOOSE w \in sources : TRUE ELSE "unknown" BY DEF Source
<1>3. CASE sources = {}
  <2>1. ~ \E c \in DOMAIN Report : Report[c].receipt # NoReceipt BY <1>3
  <2>2. Cardinality(sources) = 0 BY <1>3, FS_EmptySet
  <2> QED BY <1>2, <2>1, <2>2
<1>4. CASE sources # {}
  <2>1. sources = {action.workspace} BY <1>1, <1>4
  <2>2. Cardinality(sources) = 1 BY <2>1, FS_Singleton
  <2>3. (CHOOSE w \in sources : TRUE) = action.workspace BY <2>1
  <2> QED BY <1>2, <2>2, <2>3
<1> QED BY <1>3, <1>4

-------------------------------------------------------------------------------
(* The invariant is kept.                                                  *)
LEMMA InitInv == Init => Inv
<1> SUFFICES ASSUME Init PROVE Inv OBVIOUS
<1>1. Typed
  <2>1. TypeOK
    <3>1. Never \in 0..Never /\ 0 \in 0..MaxTime BY AcceptanceAssumption DEF Never
    <3>2. signed \subseteq Receipts BY AcceptanceAssumption DEF Init
    <3>3. todo \in Seq(Check) /\ evidence = <<>> /\ Len(evidence) = 0 BY DEF Init
    <3>4. Range(evidence) = {} BY <3>3 DEF Range
    <3>5. Len(evidence) <= MaxActions BY <3>3, AcceptanceAssumption
    <3>6. answers \in [Check -> Receipts \cup {NoReceipt}] /\ revoked \in [Check -> 0..Never] BY <3>1 DEF Init, NoAnswers
    <3> QED BY <3>1, <3>2, <3>3, <3>4, <3>5, <3>6 DEF Init, TypeOK
  <2>2. evidence \in Seq(Entries) /\ at = "act" BY DEF Init
  <2> QED BY <2>1, <2>2 DEF Typed
<1>2. evidence = <<>> /\ DOMAIN evidence = {} /\ at = "act" BY DEF Init
<1>3. Signed BY AcceptanceAssumption DEF Init, Signed
<1>4. Answered BY DEF Init, Answered, NoAnswers
<1> QED BY <1>1, <1>2, <1>3, <1>4 DEF Inv, Ordered, Read, EvidenceIsFiledRight, Ended

(* As long as no evidence is added, what was read stays right.             *)
LEMMA EvidenceStays ==
    ASSUME Inv, evidence' = evidence, signed \subseteq signed', now' \in Int, now <= now',
           \A c \in Check, t \in 0..now : t < revoked[c] => t < revoked'[c],
           at' = "end" => at = "end"
    PROVE  Ordered' /\ Read' /\ EvidenceIsFiledRight' /\ Ended'
<1>1. Ordered'
  <2> SUFFICES ASSUME NEW j \in DOMAIN evidence PROVE evidence[j].time <= now'
    BY DEF Inv, Ordered
  <2>1. evidence[j].time \in 0..MaxTime BY EvidenceTyped, EntryTyped DEF Inv
  <2>2. now \in 0..MaxTime /\ evidence[j].time <= now BY DEF Inv, Ordered, Typed, TypeOK
  <2> QED BY <2>1, <2>2, AcceptanceAssumption
<1>2. Read'
  <2> SUFFICES ASSUME NEW j \in DOMAIN evidence, NEW c \in DOMAIN evidence[j].report PROVE ReadRight(j, c)'
    BY DEF Read
  <2>1. ReadRight(j, c) BY DEF Inv, Read
  <2>2. evidence[j] \in Entries BY EvidenceTyped DEF Inv
  <2>3. c \in Check /\ evidence[j].time \in 0..MaxTime BY <2>2, EntryTyped
  <2>4. evidence[j].time \in 0..now BY <2>3, AcceptanceAssumption DEF Inv, Ordered, Typed, TypeOK
  <2>5. evidence[j].time < revoked[c] => evidence[j].time < revoked'[c] BY <2>3, <2>4
  <2> QED BY <2>1, <2>5 DEF ReadRight, Genuine
<1> QED BY <1>1, <1>2 DEF Inv, EvidenceIsFiledRight, Ended

LEMMA TickInv == ASSUME Inv, Tick PROVE Inv'
<1>1. now \in Nat /\ now' \in 0..MaxTime /\ now' = now + 1
  BY AcceptanceAssumption DEF Inv, Typed, TypeOK, Tick
<1>2. UNCHANGED <<revoked, signed, at, action, todo, answers, evidence, decision>> BY DEF Tick, loop
<1>3. Typed' BY <1>1, <1>2 DEF Inv, Typed, TypeOK, Instance
<1>4. Signed'
  <2> SUFFICES ASSUME NEW r \in signed, r.run = "ours" PROVE SignedFor(r)' BY <1>2 DEF Signed
  <2>1. SignedFor(r) BY DEF Inv, Signed
  <2>2. r.issued \in Int /\ OffsetOf[r.check] \in Int BY ReceiptTyped DEF Inv, Typed, TypeOK
  <2>3. r.issued <= now' + OffsetOf[r.check] BY <1>1, <2>1, <2>2 DEF SignedFor
  <2> QED BY <1>2, <2>1, <2>3 DEF SignedFor, Begun, Instance
<1>5. Answered' BY <1>2 DEF Inv, Answered
<1>6. Ordered' /\ Read' /\ EvidenceIsFiledRight' /\ Ended' BY <1>1, <1>2, EvidenceStays
<1> QED BY <1>3, <1>4, <1>5, <1>6 DEF Inv

LEMMA RevokeInv == ASSUME Inv, NEW c \in Check, Revoke(c) PROVE Inv'
<1>1. UNCHANGED <<now, signed, at, action, todo, answers, evidence, decision>> BY DEF Revoke, loop
<1>2. now \in 0..MaxTime /\ revoked \in [Check -> 0..Never] BY DEF Inv, Typed, TypeOK
<1>3. revoked' = [revoked EXCEPT ![c] = now + 1] /\ revoked[c] = Never BY DEF Revoke
<1>4. now + 1 \in 0..Never BY <1>2, AcceptanceAssumption DEF Never
<1>5. revoked' \in [Check -> 0..Never] BY <1>2, <1>3, <1>4
<1>6. \A d \in Check, t \in 0..now : t < revoked[d] => t < revoked'[d]
  BY <1>2, <1>3, AcceptanceAssumption
<1>7. Typed' BY <1>1, <1>5 DEF Inv, Typed, TypeOK, Instance
<1>8. Signed' BY <1>1 DEF Inv, Signed, SignedFor, Begun, Instance
<1>9. Answered' BY <1>1 DEF Inv, Answered
<1>10. Ordered' /\ Read' /\ EvidenceIsFiledRight' /\ Ended'
  BY <1>1, <1>2, <1>6, EvidenceStays, AcceptanceAssumption
<1> QED BY <1>7, <1>8, <1>9, <1>10 DEF Inv

LEMMA ExecuteInv == ASSUME Inv, NEW i \in Intent, NEW w \in Workspace, Execute(i, w) PROVE Inv'
<1>1. UNCHANGED <<now, revoked, signed, evidence, decision>> BY DEF Execute
<1>2. at = "act" /\ at' = "evaluate" /\ Instance <= MaxActions /\ todo' = Plans /\ answers' = NoAnswers
      /\ action' = [intent |-> i, workspace |-> w]
  BY DEF Execute
<1>3. Typed'
  <2>1. Plans \in Seq(Check) BY AcceptanceAssumption
  <2>2. NoAnswers \in [Check -> Receipts \cup {NoReceipt}] BY DEF NoAnswers
  <2> QED BY <1>1, <1>2, <2>1, <2>2 DEF Inv, Typed, TypeOK, Instance
<1>4. Signed'
  <2> SUFFICES ASSUME NEW r \in signed, r.run = "ours" PROVE SignedFor(r)' BY <1>1 DEF Signed
  <2>1. SignedFor(r) BY DEF Inv, Signed
  <2>2. r.instance \in Int /\ Len(evidence) \in Nat BY ReceiptTyped, LenProperties DEF Inv, Typed, TypeOK
  <2>3. r.instance <= Len(evidence) BY <1>2, <2>1 DEF SignedFor, Begun
  <2>4. r.instance <= Begun' BY <1>1, <1>2, <2>2, <2>3 DEF Begun, Instance
  <2> QED BY <1>1, <2>1, <2>3, <2>4 DEF SignedFor
<1>5. Answered' BY <1>2 DEF Answered, NoAnswers
<1>6. now \in Int BY DEF Inv, Typed, TypeOK
<1>7. Ordered' /\ Read' /\ EvidenceIsFiledRight' /\ Ended' BY <1>1, <1>2, <1>6, EvidenceStays
<1> QED BY <1>3, <1>4, <1>5, <1>7 DEF Inv

(* What the evaluator that is asked signs is a receipt for the action      *)
(* under way.                                                              *)
LEMMA OwnReceiptRight ==
    ASSUME Inv, at = "evaluate", todo # <<>>, NEW result \in Results
    PROVE  /\ Head(todo) \in Check /\ OwnReceipt(Head(todo), result) \in Receipts
           /\ SignedFor(OwnReceipt(Head(todo), result))
<1> DEFINE c == Head(todo)  r == OwnReceipt(c, result)
<1>1. c \in Check BY HeadTailProperties DEF Inv, Typed, TypeOK
<1>2. Len(evidence) \in Nat /\ Instance \in 1..MaxActions
  BY LenProperties, AcceptanceAssumption DEF Inv, Typed, Instance
<1>3. action.intent \in Intent /\ action.workspace \in Workspace BY DEF Inv, Typed, TypeOK
<1>4. now \in Int /\ OffsetOf[c] \in Int BY <1>1, AcceptanceAssumption DEF Inv, Typed, TypeOK
<1>5. r \in Receipts BY <1>1, <1>2, <1>3, <1>4 DEF OwnReceipt, Receipts
<1>6. r.instance = Instance /\ r.check = c /\ r.issued = now + OffsetOf[c] /\ r.workspace = action.workspace
  BY DEF OwnReceipt
<1>7. Instance > 1 => evidence[Instance - 1].time <= now
  <2> SUFFICES ASSUME Instance > 1 PROVE evidence[Instance - 1].time <= now OBVIOUS
  <2>1. Instance - 1 \in DOMAIN evidence BY <1>2, LenProperties DEF Instance, Inv, Typed
  <2> QED BY <2>1 DEF Inv, Ordered
<1>8. Instance > 1 => evidence[Instance - 1].time + OffsetOf[c] <= now + OffsetOf[c]
  <2> SUFFICES ASSUME Instance > 1 PROVE evidence[Instance - 1].time + OffsetOf[c] <= now + OffsetOf[c] OBVIOUS
  <2>1. Instance - 1 \in DOMAIN evidence BY <1>2, LenProperties DEF Instance, Inv, Typed
  <2>2. evidence[Instance - 1].time \in 0..MaxTime BY <2>1, EvidenceTyped, EntryTyped DEF Inv
  <2> QED BY <1>4, <1>7, <2>2, AcceptanceAssumption
<1>9. ~(Instance <= Len(evidence)) /\ Begun = Instance /\ Instance <= Instance BY <1>2 DEF Instance, Begun
<1> HIDE DEF r
<1>10. SignedFor(r) BY <1>4, <1>6, <1>8, <1>9 DEF SignedFor
<1> QED BY <1>1, <1>5, <1>10 DEF r

(* Signing more, answering from what is signed.                            *)
LEMMA AskedInv ==
    ASSUME Inv, at = "evaluate", todo # <<>>, UNCHANGED <<now, revoked, action, evidence, decision>>,
           signed' = signed \/ \E result \in Results : signed' = signed \cup {OwnReceipt(Head(todo), result)},
           at' \in {"evaluate", "verify"}, todo' \in Seq(Check),
           answers' \in [Check -> Receipts \cup {NoReceipt}],
           \A c \in Check : answers'[c] \in signed' \cup {NoReceipt}
    PROVE  Inv'
<1>1. \A r \in signed' : r \in Receipts /\ (r \in signed \/ SignedFor(r))
  <2>1. CASE signed' = signed BY <2>1 DEF Inv, Typed, TypeOK
  <2>2. ASSUME NEW result \in Results, signed' = signed \cup {OwnReceipt(Head(todo), result)}
        PROVE  \A r \in signed' : r \in Receipts /\ (r \in signed \/ SignedFor(r))
    BY <2>2, OwnReceiptRight DEF Inv, Typed, TypeOK
  <2> QED BY <2>1, <2>2
<1>2. Typed' BY <1>1 DEF Inv, Typed, TypeOK, Instance
<1>3. Begun' = Begun BY DEF Begun, Instance
<1>4. Signed'
  <2> SUFFICES ASSUME NEW r \in signed', r.run = "ours" PROVE SignedFor(r)' BY DEF Signed
  <2>1. SignedFor(r) BY <1>1 DEF Inv, Signed
  <2> QED BY <1>3, <2>1 DEF SignedFor
<1>5. Answered' BY DEF Answered
<1>6. now \in Int /\ signed \subseteq signed' BY DEF Inv, Typed, TypeOK
<1>7. Ordered' /\ Read' /\ EvidenceIsFiledRight' /\ Ended' BY <1>6, EvidenceStays
<1> QED BY <1>2, <1>4, <1>5, <1>7 DEF Inv

LEMMA EvaluateInv == ASSUME Inv, NEW result \in Results, Evaluate(result) PROVE Inv'
<1>1. at = "evaluate" /\ todo # <<>> /\ todo' = Tail(todo) /\ at' \in {"evaluate", "verify"}
  BY DEF Evaluate
<1>2. UNCHANGED <<now, revoked, action, evidence, decision>> BY DEF Evaluate
<1>3. signed' = signed \cup {OwnReceipt(Head(todo), result)} BY DEF Evaluate
<1>4. Head(todo) \in Check /\ todo' \in Seq(Check) BY <1>1, HeadTailProperties DEF Inv, Typed, TypeOK
<1>5. PICK r \in signed' : answers' = [answers EXCEPT ![Head(todo)] = r] BY DEF Evaluate
<1>6. signed' \subseteq Receipts BY <1>1, <1>3, OwnReceiptRight DEF Inv, Typed, TypeOK
<1>7. answers \in [Check -> Receipts \cup {NoReceipt}] BY DEF Inv, Typed, TypeOK
<1>8. answers' \in [Check -> Receipts \cup {NoReceipt}] BY <1>5, <1>6, <1>7
<1>9. \A c \in Check : answers'[c] \in signed' \cup {NoReceipt} BY <1>3, <1>4, <1>5, <1>7 DEF Inv, Answered
<1> QED BY <1>1, <1>2, <1>3, <1>4, <1>8, <1>9, AskedInv

LEMMA UnavailableInv == ASSUME Inv, Unavailable PROVE Inv'
<1>1. at = "evaluate" /\ todo # <<>> /\ todo' = <<>> /\ at' = "verify" /\ answers' = NoAnswers
  BY DEF Unavailable
<1>2. UNCHANGED <<now, revoked, action, evidence, decision>> BY DEF Unavailable
<1>3. signed' = signed \/ \E result \in Results : signed' = signed \cup {OwnReceipt(Head(todo), result)}
  BY DEF Unavailable
<1>4. todo' \in Seq(Check) BY <1>1
<1>5. answers' \in [Check -> Receipts \cup {NoReceipt}] /\ \A c \in Check : answers'[c] = NoReceipt
  BY <1>1 DEF NoAnswers
<1> QED BY <1>1, <1>2, <1>3, <1>4, <1>5, AskedInv

LEMMA EntryRight ==
    ASSUME Inv, at = "verify"
    PROVE  /\ Entry(Report) \in Entries
           /\ Entry(Report).workspace = action.workspace /\ Entry(Report).time = now
           /\ Entry(Report).source = Source(Report) /\ Entry(Report).report = Report
<1>1. Source(Report) \in Workspace \cup {"unknown"} BY SourceRight DEF Inv, Typed, TypeOK
<1>2. Report \in UNION {[S -> Statement] : S \in SUBSET Check} BY ReportTyped DEF Inv
<1>3. action.intent \in Intent /\ action.workspace \in Workspace /\ now \in 0..MaxTime BY DEF Inv, Typed, TypeOK
<1> HIDE DEF Source, Report
<1> QED BY <1>1, <1>2, <1>3 DEF Entry, Entries

LEMMA VerifyInv == ASSUME Inv, Verify PROVE Inv'
<1> DEFINE n == Len(evidence) + 1  e == Entry(Report)
<1>1. UNCHANGED <<now, revoked, signed, action, todo>> /\ answers' = NoAnswers BY DEF Verify
<1>2. at = "verify" /\ evidence' = Append(evidence, e) BY DEF Verify
<1>3. e \in Entries /\ e.workspace = action.workspace /\ e.time = now /\ e.source = Source(Report) /\ e.report = Report
  BY <1>2, EntryRight
<1>4. evidence \in Seq(Entries) /\ Len(evidence) \in Nat BY LenProperties DEF Inv, Typed
<1>5. n \in Nat /\ n <= MaxActions /\ n = Instance BY <1>2, <1>4 DEF Inv, Typed, Instance
<1> HIDE DEF e
<1>6. /\ evidence' \in Seq(Entries) /\ Len(evidence') = n /\ evidence'[n] = e
      /\ \A j \in 1..Len(evidence) : evidence'[j] = evidence[j]
  BY <1>2, <1>3, <1>4, AppendProperties
<1>7. DOMAIN evidence' = 1..n /\ DOMAIN evidence = 1..Len(evidence) BY <1>4, <1>6, LenProperties
<1>8. at' \in {"act", "end"} /\ (at' = "end" => FinalGoal(evidence') = "pass")
      /\ decision' \in Results \cup {"none"}
  <2>1. at' = IF decision' = "pass" THEN "end" ELSE "act" BY DEF Verify
  <2>2. decision' = FinalGoal(evidence') \/ decision' = "none" BY DEF Verify
  <2>3. FinalGoal(evidence') \in Results BY DEF FinalGoal, Results
  <2> QED BY <2>1, <2>2, <2>3
<1>9. Typed'
  <2>1. \A x \in Range(evidence') : x \in Entries BY <1>6, <1>7, ElementOfSeq DEF Range
  <2>2. \A x \in Range(evidence') :
           /\ x.source \in Workspace \cup {"unknown"} /\ DOMAIN x.report \subseteq Check
           /\ \A c \in DOMAIN x.report : x.report[c] \in Statement
    BY <2>1, EntryTyped
  <2>3. answers' \in [Check -> Receipts \cup {NoReceipt}] BY <1>1 DEF NoAnswers
  <2>4. Len(evidence') <= MaxActions BY <1>5, <1>6
  <2>5. at' \notin {"evaluate", "verify"} /\ at' \in {"act", "evaluate", "verify", "end"} BY <1>8
  <2>6. TypeOK' BY <1>1, <1>8, <2>2, <2>3, <2>4, <2>5 DEF Inv, Typed, TypeOK
  <2> QED BY <1>6, <2>5, <2>6 DEF Typed
<1>10. Signed'
  <2> SUFFICES ASSUME NEW r \in signed, r.run = "ours" PROVE SignedFor(r)' BY <1>1 DEF Signed
  <2>1. SignedFor(r) BY DEF Inv, Signed
  <2>2. r.instance \in Nat /\ r.instance >= 1 BY ReceiptTyped, AcceptanceAssumption DEF Inv, Typed, TypeOK
  <2>3. Begun = n /\ Begun' = n BY <1>2, <1>5, <1>6, <1>8 DEF Begun
  <2>4. r.instance > 1 => evidence'[r.instance - 1] = evidence[r.instance - 1]
    <3> SUFFICES ASSUME r.instance > 1 PROVE r.instance - 1 \in 1..Len(evidence) BY <1>6
    <3> QED BY <1>4, <2>1, <2>2, <2>3 DEF SignedFor
  <2>5. CASE r.instance <= Len(evidence)
    <3>1. r.instance \in 1..Len(evidence) /\ r.instance <= n BY <1>4, <2>2, <2>5
    <3>2. evidence'[r.instance] = evidence[r.instance] BY <1>6, <3>1
    <3> QED BY <1>1, <1>6, <2>1, <2>3, <2>4, <2>5, <3>1, <3>2 DEF SignedFor
  <2>6. CASE ~(r.instance <= Len(evidence))
    <3>1. r.instance = n BY <1>4, <2>1, <2>2, <2>3, <2>6 DEF SignedFor
    <3>2. r.workspace = action.workspace BY <2>1, <2>6 DEF SignedFor
    <3> QED BY <1>1, <1>3, <1>6, <2>1, <2>3, <2>4, <3>1, <3>2 DEF SignedFor
  <2> QED BY <2>5, <2>6
<1>11. Answered' BY <1>1 DEF Answered, NoAnswers
<1>12. Ordered'
  <2>1. now \in Int BY DEF Inv, Typed, TypeOK
  <2> SUFFICES ASSUME NEW j \in 1..n
               PROVE  evidence'[j].time <= now /\ \A i \in 1..j : evidence'[i].time <= evidence'[j].time
    BY <1>1, <1>7 DEF Ordered
  <2>2. CASE j \in 1..Len(evidence)
    <3>1. evidence[j].time <= now /\ \A i \in 1..j : evidence[i].time <= evidence[j].time
      BY <1>7, <2>2 DEF Inv, Ordered
    <3>2. \A i \in 1..j : i \in 1..Len(evidence) BY <1>4, <2>2
    <3> QED BY <1>6, <2>2, <3>1, <3>2
  <2>3. CASE j = n
    <3>1. \A i \in 1..n : i = n \/ i \in 1..Len(evidence) BY <1>4
    <3>2. \A i \in 1..Len(evidence) : evidence'[i].time <= now BY <1>6, <1>7 DEF Inv, Ordered
    <3>3. evidence'[n].time = now /\ now <= now BY <1>3, <1>6, <2>1
    <3> QED BY <2>3, <3>1, <3>2, <3>3
  <2> QED BY <1>4, <2>2, <2>3
<1>13. Read'
  <2> SUFFICES ASSUME NEW j \in 1..n, NEW c \in DOMAIN evidence'[j].report PROVE ReadRight(j, c)'
    BY <1>7 DEF Read
  <2>1. CASE j \in 1..Len(evidence)
    <3>1. evidence'[j] = evidence[j] BY <1>6, <2>1
    <3>2. ReadRight(j, c) BY <1>7, <2>1, <3>1 DEF Inv, Read
    <3> QED BY <1>1, <3>1, <3>2 DEF ReadRight, Genuine
  <2>2. CASE j = n
    <3>1. evidence'[j] = e /\ c \in DOMAIN Report BY <1>3, <1>6, <2>2
    <3> DEFINE s == Report[c]
    <3>2. IF s.receipt = NoReceipt THEN s.status # "pass"
           ELSE /\ s.receipt \in signed /\ s.receipt.check = c /\ s.receipt.run = "ours"
                /\ s.receipt.instance = n /\ s.receipt.workspace = action.workspace
                /\ s.status = s.receipt.result
                /\ now < revoked[c] /\ now < s.receipt.issued + TtlOf[c]
      BY <1>2, <1>5, <3>1, ReportRight DEF Inv
    <3>3. s.receipt # NoReceipt => Source(Report) = action.workspace BY <1>2, <3>1, SourceRight DEF Inv
    <3>4. evidence'[j].report[c] = s /\ evidence'[j].workspace = action.workspace /\ evidence'[j].time = now
          /\ evidence'[j].source = Source(Report)
      BY <1>3, <3>1
    <3> HIDE DEF s
    <3> QED BY <1>1, <2>2, <3>2, <3>3, <3>4 DEF ReadRight, Genuine
  <2> QED BY <1>4, <2>1, <2>2
<1>14. EvidenceIsFiledRight'
  <2> SUFFICES ASSUME NEW j \in 1..n PROVE evidence'[j].source \in {evidence'[j].workspace, "unknown"}
    BY <1>7 DEF EvidenceIsFiledRight
  <2>1. CASE j \in 1..Len(evidence) BY <1>6, <1>7, <2>1 DEF Inv, EvidenceIsFiledRight
  <2>2. CASE j = n
    <3>1. Source(Report) \in {action.workspace, "unknown"} BY <1>2, SourceRight DEF Inv
    <3> QED BY <1>3, <1>6, <2>2, <3>1
  <2> QED BY <1>4, <2>1, <2>2
<1>15. Ended'
  <2>1. evidence' # <<>> BY <1>4, <1>6
  <2> QED BY <1>8, <2>1 DEF Ended
<1> QED BY <1>9, <1>10, <1>11, <1>12, <1>13, <1>14, <1>15 DEF Inv

LEMMA NextInv == Inv /\ [Next]_vars => Inv'
<1> SUFFICES ASSUME Inv, [Next]_vars PROVE Inv' OBVIOUS
<1>1. CASE \E i \in Intent, w \in Workspace : Execute(i, w) BY <1>1, ExecuteInv
<1>2. CASE \E result \in Results : Evaluate(result) BY <1>2, EvaluateInv
<1>3. CASE Unavailable BY <1>3, UnavailableInv
<1>4. CASE Verify BY <1>4, VerifyInv
<1>5. CASE Tick BY <1>5, TickInv
<1>6. CASE \E c \in Check : Revoke(c) BY <1>6, RevokeInv
<1>7. CASE UNCHANGED vars
  BY <1>7 DEF vars, Inv, Typed, TypeOK, Instance, Signed, SignedFor, Begun, Answered, Ordered, Read, ReadRight, Genuine,
              EvidenceIsFiledRight, Ended
<1> QED BY <1>1, <1>2, <1>3, <1>4, <1>5, <1>6, <1>7 DEF Next

LEMMA Invariance == Spec => []Inv
<1> QED BY InitInv, NextInv, PTL DEF Spec

(* The variables keep their kinds.                                         *)
THEOREM TypeCorrect == Spec => []TypeOK
<1>1. Inv => TypeOK BY DEF Inv, Typed
<1> QED BY <1>1, Invariance, PTL

(* Evidence is filed under the workspace its action left, or under none.   *)
THEOREM FiledRight == Spec => []EvidenceIsFiledRight
<1>1. Inv => EvidenceIsFiledRight BY DEF Inv
<1> QED BY <1>1, Invariance, PTL

-------------------------------------------------------------------------------
(* The entry that decides a check is one that no other comes after.        *)
LEMMA LatestDecides ==
    ASSUME NEW entries \in Seq(Entries), NEW c \in Check, Speaks(entries, c) # {}
    PROVE  \E l \in Speaks(entries, c) :
              /\ \A i \in Speaks(entries, c) : NotAfter(entries, c, i, l)
              /\ Fresh(entries, c) = entries[l].report[c].status
<1> DEFINE S == Speaks(entries, c)
           R == {p \in S \X S : NotAfter(entries, c, p[1], p[2])}
<1>1. Len(entries) \in Nat /\ DOMAIN entries = 1..Len(entries) BY LenProperties
<1>2. S \in SUBSET (1..Len(entries)) BY <1>1 DEF Speaks, Relevant
<1>3. \A i \in S : i \in Int /\ Receipt(entries, c, i) \in Receipts \cup {NoReceipt}
  <2> SUFFICES ASSUME NEW i \in S PROVE Receipt(entries, c, i) \in Receipts \cup {NoReceipt} BY <1>2
  <2>1. entries[i] \in Entries /\ c \in DOMAIN entries[i].report BY <1>1, <1>2, ElementOfSeq DEF Speaks
  <2>2. entries[i].report[c] \in Statement BY <2>1, EntryTyped
  <2> QED BY <2>2, StatementTyped DEF Receipt
<1>4. \A i \in S : Receipt(entries, c, i) # NoReceipt => Receipt(entries, c, i).issued \in Int
  BY <1>3, ReceiptTyped
<1> HIDE DEF S
<1>5. \A i, j \in S : NotAfter(entries, c, i, j) \/ NotAfter(entries, c, j, i)
  BY <1>3, <1>4 DEF NotAfter
<1>6. ASSUME NEW i \in S, NEW j \in S, NEW k \in S, NotAfter(entries, c, i, j), NotAfter(entries, c, j, k)
      PROVE  NotAfter(entries, c, i, k)
  <2>1. i \in Int /\ j \in Int /\ k \in Int BY <1>3
  <2>2. CASE Receipt(entries, c, i) = NoReceipt BY <1>6, <2>1, <2>2 DEF NotAfter
  <2>3. CASE Receipt(entries, c, i) # NoReceipt BY <1>4, <1>6, <2>1, <2>3 DEF NotAfter
  <2> QED BY <2>2, <2>3
<1>7. \A i, j \in S : <<i, j>> \in R <=> NotAfter(entries, c, i, j) OBVIOUS
<1> HIDE DEF R
<1>8. \E j \in S : \A i \in S : <<i, j>> \in R
  <2>1. \A i, j \in S : <<i, j>> \in R \/ <<j, i>> \in R BY <1>5, <1>7
  <2>2. \A i, j, k \in S : <<i, j>> \in R /\ <<j, k>> \in R => <<i, k>> \in R BY <1>6, <1>7
  <2>3. S # {} BY DEF S
  <2> QED BY <1>1, <1>2, <2>1, <2>2, <2>3, LastExists
<1>9. \E j \in S : \A i \in S : NotAfter(entries, c, i, j) BY <1>7, <1>8
<1> DEFINE l == CHOOSE j \in S : \A i \in S : NotAfter(entries, c, i, j)
<1>10. l \in S /\ \A i \in S : NotAfter(entries, c, i, l) BY <1>9
<1>11. Fresh(entries, c) = entries[l].report[c].status BY DEF Fresh, S
<1> HIDE DEF l
<1> QED BY <1>10, <1>11 DEF S

(* In a state the invariant allows, the entries that count for a check and *)
(* stand on a receipt are those about the workspace of the last action.    *)
LEMMA RelevantRight ==
    ASSUME Inv, NEW c \in Check, NEW j \in DOMAIN evidence, evidence # <<>>,
           c \in DOMAIN evidence[j].report, evidence[j].report[c].receipt # NoReceipt
    PROVE  /\ evidence[j].source = evidence[j].workspace /\ evidence[j].workspace # "unknown"
           /\ j \in Relevant(evidence) => evidence[j].workspace = Last(evidence).workspace
<1>1. Len(evidence) \in Nat /\ DOMAIN evidence = 1..Len(evidence) /\ Len(evidence) \in DOMAIN evidence
  BY LenProperties, EmptySeq DEF Inv, Typed
<1>2. ReadRight(j, c) BY DEF Inv, Read
<1>3. evidence[j].source = evidence[j].workspace BY <1>2 DEF ReadRight
<1>4. evidence[j].workspace # "unknown" BY EvidenceTyped, EntryTyped, AcceptanceAssumption DEF Inv
<1>5. ASSUME j \in Relevant(evidence) PROVE evidence[j].workspace = Last(evidence).workspace
  <2>1. Last(evidence) = evidence[Len(evidence)] BY DEF Last
  <2>2. CASE Last(evidence).source = "unknown" BY <1>5, <2>1, <2>2 DEF Relevant
  <2>3. CASE Last(evidence).source # "unknown"
    <3>1. evidence[j].source = Last(evidence).source BY <1>5, <2>3 DEF Relevant
    <3>2. Last(evidence).source = Last(evidence).workspace BY <1>1, <2>1, <2>3 DEF Inv, EvidenceIsFiledRight
    <3> QED BY <1>3, <3>1, <3>2
  <2> QED BY <2>2, <2>3
<1> QED BY <1>3, <1>4, <1>5

(* Acceptance stands, for every check that is bound, on the evaluator's    *)
(* own last word about the final workspace: valid when it was read, given  *)
(* for an action of this run that left that workspace, and a pass.         *)
THEOREM Attested == Spec => []AcceptedWorkIsAttested
<1>1. Inv => AcceptedWorkIsAttested
  <2> SUFFICES ASSUME Inv, at = "end", NEW c \in Bound
               PROVE  \E j \in AboutTheEnd(c) :
                         /\ Genuine(c, j, Word(c, j)) /\ Word(c, j).result = "pass"
                         /\ evidence[j].time < revoked[c] /\ evidence[j].time < Word(c, j).issued + TtlOf[c]
                         /\ \A k \in AboutTheEnd(c) \ {j} :
                                \/ Word(c, k).issued < Word(c, j).issued
                                \/ Word(c, k).issued = Word(c, j).issued /\ k < j
    BY DEF AcceptedWorkIsAttested
  <2>1. evidence # <<>> /\ FinalGoal(evidence) = "pass" /\ evidence \in Seq(Entries) BY DEF Inv, Ended, Typed
  <2>2. Fresh(evidence, c) = "pass" BY <2>1 DEF FinalGoal
  <2>3. c \in Check
    <3>1. CASE c \in GlobalGuards BY <3>1, AcceptanceAssumption
    <3>2. CASE c \notin GlobalGuards
      <4> DEFINE All == {Bindings[s] : s \in DOMAIN Bindings \cap Conditions}
      <4>0. c \in UNION All BY <3>2 DEF Bound
      <4>1. PICK s \in DOMAIN Bindings \cap Conditions : c \in Bindings[s]
        <5>1. PICK B \in All : c \in B BY <4>0
        <5> QED BY <5>1
      <4>2. Bindings[s] \subseteq Check BY <4>1, AcceptanceAssumption
      <4> QED BY <4>1, <4>2
    <3> QED BY <3>1, <3>2
  <2>4. Speaks(evidence, c) # {} BY <2>2 DEF Fresh
  <2>5. PICK j \in Speaks(evidence, c) :
            /\ \A i \in Speaks(evidence, c) : NotAfter(evidence, c, i, j)
            /\ evidence[j].report[c].status = "pass"
    BY <2>1, <2>2, <2>3, <2>4, LatestDecides
  <2>6. j \in DOMAIN evidence /\ j \in Relevant(evidence) /\ c \in DOMAIN evidence[j].report
    BY DEF Speaks, Relevant
  <2>7. ReadRight(j, c) BY <2>6 DEF Inv, Read
  <2>8. Word(c, j) = evidence[j].report[c].receipt /\ Word(c, j) # NoReceipt
    BY <2>5, <2>6, <2>7 DEF Word, ReadRight
  <2>9. evidence[j].source = evidence[j].workspace /\ evidence[j].workspace = Last(evidence).workspace
        /\ evidence[j].workspace # "unknown"
    BY <2>1, <2>3, <2>6, <2>8, RelevantRight
  <2>10. j \in AboutTheEnd(c) BY <2>6, <2>8, <2>9 DEF AboutTheEnd
  <2>11. /\ Genuine(c, j, Word(c, j)) /\ Word(c, j).result = "pass"
         /\ evidence[j].time < revoked[c] /\ evidence[j].time < Word(c, j).issued + TtlOf[c]
    BY <2>5, <2>7, <2>8 DEF ReadRight
  <2>12. ASSUME NEW k \in AboutTheEnd(c) \ {j}
         PROVE  \/ Word(c, k).issued < Word(c, j).issued
                \/ Word(c, k).issued = Word(c, j).issued /\ k < j
    <3>1. k \in DOMAIN evidence /\ evidence[k].workspace = Last(evidence).workspace
          /\ c \in DOMAIN evidence[k].report /\ Word(c, k) = evidence[k].report[c].receipt /\ Word(c, k) # NoReceipt
      BY DEF AboutTheEnd, Word
    <3>2. evidence[k].source = evidence[k].workspace BY <2>1, <2>3, <3>1, RelevantRight
    <3>3. Last(evidence).source # "unknown" => Last(evidence).source = Last(evidence).workspace
      <4>1. Len(evidence) \in DOMAIN evidence BY <2>1, LenProperties, EmptySeq
      <4> QED BY <4>1 DEF Inv, EvidenceIsFiledRight, Last
    <3>4. CASE Last(evidence).source = "unknown"
      <4>1. j = Len(evidence) BY <2>6, <3>4 DEF Relevant
      <4> QED BY <2>9, <3>4, <4>1 DEF Last
    <3>5. CASE Last(evidence).source # "unknown"
      <4>1. k \in Speaks(evidence, c) BY <3>1, <3>2, <3>3, <3>5 DEF Speaks, Relevant
      <4>2. NotAfter(evidence, c, k, j) BY <2>5, <4>1
      <4>3. k \in Int /\ j \in Int /\ k # j BY <2>1, <2>6, <3>1, LenProperties
      <4> QED BY <2>8, <3>1, <4>2, <4>3 DEF NotAfter, Receipt
    <3> QED BY <3>4, <3>5
  <2> QED BY <2>10, <2>11, <2>12
<1> QED BY <1>1, Invariance, PTL

(* The clock orders what evaluators sign: a receipt read about a later     *)
(* action was not issued before one read about an earlier action.          *)
LEMMA IssuedInOrder ==
    ASSUME Inv, NEW c \in Check, NEW j \in DOMAIN evidence, NEW l \in DOMAIN evidence, l < j,
           c \in DOMAIN evidence[j].report, evidence[j].report[c].receipt # NoReceipt,
           c \in DOMAIN evidence[l].report, evidence[l].report[c].receipt # NoReceipt
    PROVE  Receipt(evidence, c, l).issued <= Receipt(evidence, c, j).issued
<1> DEFINE r == Receipt(evidence, c, l)  q == Receipt(evidence, c, j)
<1>1. Genuine(c, l, r) /\ Genuine(c, j, q) BY DEF Inv, Read, ReadRight, Receipt
<1>2. r \in signed /\ r.check = c /\ r.run = "ours" /\ r.instance = l BY <1>1 DEF Genuine
<1>3. q \in signed /\ q.check = c /\ q.run = "ours" /\ q.instance = j BY <1>1 DEF Genuine
<1> HIDE DEF r, q
<1>4. SignedFor(r) /\ SignedFor(q) BY <1>2, <1>3 DEF Inv, Signed
<1>5. Len(evidence) \in Nat /\ DOMAIN evidence = 1..Len(evidence) BY LenProperties DEF Inv, Typed
<1>6. l \in Nat /\ j \in Nat /\ l >= 1 /\ l <= Len(evidence) /\ j > 1 /\ l \in 1..(j - 1) /\ j - 1 \in 1..Len(evidence)
  BY <1>5
<1>7. r.issued <= evidence[l].time + OffsetOf[c] BY <1>2, <1>4, <1>6 DEF SignedFor
<1>8. evidence[j - 1].time + OffsetOf[c] <= q.issued BY <1>3, <1>4, <1>6 DEF SignedFor
<1>9. evidence[l].time <= evidence[j - 1].time BY <1>5, <1>6 DEF Inv, Ordered
<1>10. evidence[l].time \in Int /\ evidence[j - 1].time \in Int
  <2>1. evidence[l] \in Entries /\ evidence[j - 1] \in Entries BY <1>5, <1>6, EvidenceTyped DEF Inv
  <2> QED BY <2>1, EntryTyped, AcceptanceAssumption
<1>11. r.issued \in Int /\ q.issued \in Int /\ OffsetOf[c] \in Int
  BY <1>2, <1>3, ReceiptTyped, AcceptanceAssumption DEF Inv, Typed, TypeOK
<1>12. r.issued <= q.issued BY <1>7, <1>8, <1>9, <1>10, <1>11
<1> QED BY <1>12 DEF r, q

(* A failure read about a workspace stays the verdict about it until a     *)
(* receipt was read later that says otherwise.                             *)
THEOREM FailuresStand == Spec => FailureStands
<1>1. Inv /\ Inv' /\ [Next]_vars => [
      \A c \in Check, j \in DOMAIN evidence :
        (/\ evidence' # evidence /\ Word(c, j) # NoReceipt /\ Word(c, j).result = "fail"
         /\ \A k \in DOMAIN evidence' : Word(c, k)' # NoReceipt => k <= j
         /\ Last(evidence').source = evidence[j].source)
            => Fresh(evidence', c) = "fail"]_vars
  <2> SUFFICES ASSUME Inv, Inv', Next, NEW c \in Check, NEW j \in DOMAIN evidence,
                      evidence' # evidence, Word(c, j) # NoReceipt, Word(c, j).result = "fail",
                      \A k \in DOMAIN evidence' : Word(c, k)' # NoReceipt => k <= j,
                      Last(evidence').source = evidence[j].source
               PROVE  Fresh(evidence', c) = "fail"
    OBVIOUS
  <2>1. Verify BY DEF Next, Execute, Evaluate, Unavailable, Tick, Revoke, loop
  <2>2. evidence \in Seq(Entries) /\ evidence' \in Seq(Entries) BY DEF Inv, Typed
  <2>17. \A k \in DOMAIN evidence : k \in DOMAIN evidence' /\ evidence'[k] = evidence[k]
    <3>1. at = "verify" /\ evidence' = Append(evidence, Entry(Report)) BY <2>1 DEF Verify
    <3>2. Entry(Report) \in Entries BY <3>1, EntryRight
    <3> HIDE DEF Entry
    <3>3. Len(evidence) \in Nat /\ DOMAIN evidence = 1..Len(evidence) BY <2>2, LenProperties
    <3>4. Len(evidence') = Len(evidence) + 1 /\ \A k \in 1..Len(evidence) : evidence'[k] = evidence[k]
      BY <2>2, <3>1, <3>2, AppendProperties
    <3>5. DOMAIN evidence' = 1..Len(evidence') BY <2>2, LenProperties
    <3> QED BY <3>3, <3>4, <3>5
  <2>3. j \in DOMAIN evidence' /\ evidence'[j] = evidence[j] BY <2>17
  <2>4. c \in DOMAIN evidence[j].report /\ Word(c, j) = evidence[j].report[c].receipt BY DEF Word
  <2>5. ReadRight(j, c) BY <2>4 DEF Inv, Read
  <2>6. evidence[j].report[c].status = "fail" /\ evidence[j].source = evidence[j].workspace
    BY <2>4, <2>5 DEF ReadRight
  <2>7. evidence[j].source # "unknown" BY <2>6, EvidenceTyped, EntryTyped, AcceptanceAssumption DEF Inv
  <2>8. j \in Speaks(evidence', c) BY <2>3, <2>4, <2>7 DEF Speaks, Relevant
  <2>9. PICK l \in Speaks(evidence', c) :
            /\ \A i \in Speaks(evidence', c) : NotAfter(evidence', c, i, l)
            /\ Fresh(evidence', c) = evidence'[l].report[c].status
    BY <2>2, <2>8, LatestDecides
  <2>10. NotAfter(evidence', c, j, l) BY <2>8, <2>9
  <2>11. l \in DOMAIN evidence' /\ c \in DOMAIN evidence'[l].report BY DEF Speaks, Relevant
  <2>12. Receipt(evidence', c, j) = Word(c, j) BY <2>3, <2>4 DEF Receipt
  <2>13. Receipt(evidence', c, l) # NoReceipt BY <2>10, <2>12 DEF NotAfter
  <2>14. l <= j
    <3>1. Word(c, l)' # NoReceipt BY <2>11, <2>13 DEF Word, Receipt
    <3> QED BY <2>11, <3>1
  <2>15. l \in Int /\ j \in Int BY <2>2, <2>3, <2>11, LenProperties
  <2>16. l = j
    <3> SUFFICES ASSUME l < j PROVE FALSE BY <2>14, <2>15
    <3>1. Receipt(evidence', c, l).issued <= Receipt(evidence', c, j).issued
      <4>1. l \in DOMAIN evidence /\ evidence'[l] = evidence[l]
        BY <2>1, <2>2, <2>11, <2>15, <2>17, LenProperties
      <4>2. evidence[l].report[c].receipt # NoReceipt /\ c \in DOMAIN evidence[l].report
        BY <2>11, <2>13, <4>1 DEF Receipt
      <4>3. Receipt(evidence, c, l).issued <= Receipt(evidence, c, j).issued
        BY <2>4, <4>1, <4>2, IssuedInOrder
      <4> QED BY <2>3, <4>1, <4>3 DEF Receipt
    <3>2. Receipt(evidence', c, l).issued \in Int /\ Receipt(evidence', c, j).issued \in Int
      <4>1. evidence'[l].report[c] \in Statement /\ evidence'[j].report[c] \in Statement
        BY <2>2, <2>3, <2>4, <2>11, ElementOfSeq, EntryTyped, LenProperties
      <4> QED BY <2>12, <2>13, <4>1, StatementTyped, ReceiptTyped DEF Receipt
    <3> QED BY <2>10, <2>12, <2>13, <2>15, <3>1, <3>2 DEF NotAfter
  <2> QED BY <2>3, <2>6, <2>9, <2>16
<1> QED BY <1>1, Invariance, PTL DEF Spec, FailureStands
===============================================================================
