------------------------- MODULE GraphSchedulerProofs -------------------------
(***************************************************************************)
(* The graph scheduler is safe for every manifest, every set of callers'   *)
(* payloads and every completion producers may sign: type correctness,     *)
(* agreement of the two halves of a state row, causal justification, the   *)
(* finality of facts, the event log's account of the state, that the       *)
(* scheduler implements CausalOrder, and that its log is certified.        *)
(***************************************************************************)
EXTENDS ExecutionCertificate, FiniteSetTheorems, TLAPS

-------------------------------------------------------------------------------
(* What the monitor found supported stays supported while other nodes      *)
(* complete, whatever payload a later caller brings: it checks a node's    *)
(* prerequisites once, and this is why once is enough.                     *)

(* No completed node can be mistaken for one that left no facts.           *)
LEMMA NoFactsIsNoPayload == NoFacts \notin Payload
<1>1. "success" \in Field BY ManifestAssumption
<1>2. \A p \in Payload : DOMAIN p = Field BY DEF Payload
<1>3. DOMAIN NoFacts = {} BY DEF NoFacts
<1> QED BY <1>1, <1>2, <1>3

(* A join that has fired stays satisfied when more of its predecessors     *)
(* become traversable, under each of the three policies.                   *)
LEMMA SatisfiedByMonotone ==
    ASSUME NEW j, IsFiniteSet(j.predecessors), j.threshold \in Nat,
           NEW A, NEW B, A \subseteq B, SatisfiedBy(j, A)
    PROVE  SatisfiedBy(j, B)
<1> DEFINE P == j.predecessors
           a == P \cap A
           b == P \cap B
<1>1. /\ IsFiniteSet(b) /\ Cardinality(b) <= Cardinality(P)
      /\ Cardinality(b) = Cardinality(P) => P = b
  BY FS_Subset, b \in SUBSET P
<1>2. /\ IsFiniteSet(a) /\ Cardinality(a) <= Cardinality(b)
  BY FS_Subset, a \in SUBSET b, <1>1
<1>3. Cardinality(a) \in Nat /\ Cardinality(b) \in Nat /\ Cardinality(P) \in Nat
  BY <1>1, <1>2, FS_CardinalityType
<1> HIDE DEF a, b, P
<1>4. SatisfiedBy(j, A) <=> CASE j.policy = "all" -> Cardinality(a) = Cardinality(P)
                              [] j.policy = "any" -> Cardinality(a) >= 1
                              [] OTHER            -> Cardinality(a) >= j.threshold
  BY DEF SatisfiedBy, a, P
<1>5. SatisfiedBy(j, B) <=> CASE j.policy = "all" -> Cardinality(b) = Cardinality(P)
                              [] j.policy = "any" -> Cardinality(b) >= 1
                              [] OTHER            -> Cardinality(b) >= j.threshold
  BY DEF SatisfiedBy, b, P
<1> QED BY <1>1, <1>2, <1>3, <1>4, <1>5

LEMMA JoinsAreFinite ==
    ASSUME NEW n \in DOMAIN Join
    PROVE  IsFiniteSet(Join[n].predecessors) /\ Join[n].threshold \in Nat
<1>1. Join[n] \in JoinType /\ IsFiniteSet(Node) BY ManifestAssumption
<1>2. Join[n].predecessors \in SUBSET Node /\ Join[n].threshold \in Nat BY <1>1 DEF JoinType
<1> QED BY <1>1, <1>2, FS_Subset

(* What supports a node goes on supporting it: more completed nodes, facts *)
(* of the earlier ones unchanged, and any payload q in place of p.         *)
THEOREM SupportedMonotone ==
    ASSUME NEW n, NEW done, NEW done2, NEW facts, NEW facts2, NEW p, NEW q,
           done \subseteq done2,
           \A m \in done : facts[m] # NoFacts /\ facts2[m] = facts[m],
           Supported(n, done, facts, p)
    PROVE  Supported(n, done2, facts2, q)
<1>1. ASSUME NEW e, e.source \in done, ConditionMatches(e, facts, p)
      PROVE  e.source \in done2 /\ ConditionMatches(e, facts2, q)
  BY <1>1 DEF ConditionMatches, SourceFacts
<1>2. CASE n \in DOMAIN Join
  <2>1. Traversable(n, done, facts, p) \subseteq Traversable(n, done2, facts2, q)
    BY <1>1 DEF Traversable
  <2> QED BY <1>2, <2>1, JoinsAreFinite, SatisfiedByMonotone DEF Supported
<1>3. CASE n \notin DOMAIN Join
  BY <1>1, <1>3 DEF Supported
<1> QED BY <1>2, <1>3

-------------------------------------------------------------------------------
(* What a completion leaves in the state is a payload.                     *)
LEMMA MergedIsPayload ==
    ASSUME NEW c \in Completion, NEW over \in Override
    PROVE  Merged(c, over) \in Payload
<1>1. c.result \in Value /\ c.facts \in Payload
  BY SchedulerAssumption DEF CompletionType
<1>2. ASSUME NEW f \in Field
      PROVE  Attested(c)[f] \in Value
  <2>1. {"True", "False"} \subseteq Value BY ManifestAssumption
  <2>2. c.facts[f] \in Value /\ Decoded(c.facts[f]) \in Value
    BY <1>1, <2>1 DEF Payload, Decoded
  <2>3. CASE f = "success" BY <2>1, <2>3 DEF Attested
  <2>4. CASE f = "result" BY <1>1, <2>4 DEF Attested
  <2>5. CASE f = "passed" BY <2>2, <2>5 DEF Attested
  <2>6. CASE f \notin {"success", "result", "passed"} BY <2>2, <2>6 DEF Attested
  <2> QED BY <2>3, <2>4, <2>5, <2>6
<1>3. \A f \in DOMAIN over : over[f] \in Value
  BY SchedulerAssumption
<1> QED BY <1>2, <1>3 DEF Merged, Payload

LEMMA CallersBringPayloads == CallerPayload \subseteq Payload
BY SchedulerAssumption

(* Type correctness.                                                       *)
THEOREM TypeCorrect == Spec => []TypeOK
<1>1. Init => TypeOK
  BY DEF Init, TypeOK
<1>2. TypeOK /\ [Next]_vars => TypeOK'
  <2> SUFFICES ASSUME TypeOK, [Next]_vars
               PROVE  TypeOK'
    OBVIOUS
  <2> USE DEF TypeOK
  <2>1. ASSUME NEW i \in Instance, NEW n \in Node, NEW p \in CallerPayload, Advance(i, n, p)
        PROVE  TypeOK'
    BY <2>1, CallersBringPayloads DEF Advance, MarkCompleted, Row, wire
  <2>2. ASSUME NEW i \in Instance, NEW n \in Node, NEW p \in CallerPayload, Reserve(i, n, p)
        PROVE  TypeOK'
    BY <2>2, CallersBringPayloads DEF Reserve, Row, wire
  <2>3. ASSUME NEW c \in Completion, Issue(c)
        PROVE  TypeOK'
    BY <2>3 DEF Issue, state
  <2>4. ASSUME NEW c \in Completion, Lapse(c)
        PROVE  TypeOK'
    BY <2>4 DEF Lapse, state
  <2>5. ASSUME NEW i \in Instance, NEW n \in Node, NEW c \in Completion, NEW over \in Override,
               CompleteDirect(i, n, c, over)
        PROVE  TypeOK'
    <3>1. Merged(c, over) \in Payload BY MergedIsPayload
    <3> QED BY <2>5, <3>1 DEF CompleteDirect, MarkCompleted, Row, wire
  <2>6. CASE UNCHANGED vars
    BY <2>6 DEF vars
  <2> QED BY <2>1, <2>2, <2>3, <2>4, <2>5, <2>6 DEF Next
<1> QED BY <1>1, <1>2, PTL DEF Spec

-------------------------------------------------------------------------------
(* The two halves of a state row agree.                                    *)
LEMMA CoherentStep == TypeOK /\ StateCoherent /\ [Next]_vars => StateCoherent'
<1> SUFFICES ASSUME TypeOK, StateCoherent, [Next]_vars
             PROVE  StateCoherent'
  OBVIOUS
<1> USE DEF TypeOK, StateCoherent, Started
<1>1. ASSUME NEW i \in Instance, NEW n \in Node, NEW p \in CallerPayload, Advance(i, n, p)
      PROVE  StateCoherent'
  <2>1. p # NoFacts /\ n \notin completed[i] /\ reserved[i][n] = 0 /\ attempts[i][n] = 0
    BY <1>1, CallersBringPayloads, NoFactsIsNoPayload DEF Advance, Enabled
  <2> QED BY <1>1, <2>1 DEF Advance, MarkCompleted
<1>2. ASSUME NEW i \in Instance, NEW n \in Node, NEW p \in CallerPayload, Reserve(i, n, p)
      PROVE  StateCoherent'
  <2>1. n \notin completed[i] /\ reserved[i][n] = 0 /\ attempts[i][n] = 0
    BY <1>2 DEF Reserve, Enabled
  <2> QED BY <1>2, <2>1 DEF Reserve
<1>3. ASSUME NEW i \in Instance, NEW n \in Node, NEW c \in Completion, NEW over \in Override,
             CompleteDirect(i, n, c, over)
      PROVE  StateCoherent'
  <2>1. Merged(c, over) # NoFacts
    BY MergedIsPayload, NoFactsIsNoPayload
  <2>2. n \in Started(i) /\ n \notin completed[i] /\ attempts[i][n] = 1
    BY <1>3 DEF CompleteDirect
  <2> QED BY <1>3, <2>1, <2>2 DEF CompleteDirect, MarkCompleted
<1>4. CASE UNCHANGED state
  BY <1>4 DEF state
<1> QED BY <1>1, <1>2, <1>3, <1>4 DEF Next, Issue, Lapse, vars, state

THEOREM Coherence == Spec => []StateCoherent
<1>1. Init => StateCoherent
  BY DEF Init, StateCoherent, Started
<1> QED BY <1>1, CoherentStep, TypeCorrect, PTL DEF Spec

-------------------------------------------------------------------------------
(* Causal justification.  The invariant proved is for every payload, not   *)
(* only for those callers bring: with coherent halves no open or completed *)
(* node looks at the caller's payload any more.                            *)
Justified ==
    \A i \in Instance : \A n \in Started(i) \cup completed[i] :
        \A q \in Payload : Supported(n, completed[i], events[i], q)

(* One row grows by a node that left facts p; every node it supported, and *)
(* every payload, are supported afterwards.                                *)
LEMMA SupportSurvives ==
    ASSUME TypeOK, StateCoherent,
           NEW i \in Instance, NEW n \in Node, NEW p, MarkCompleted(i, n, p),
           n \notin completed[i],
           NEW j \in Instance, NEW m, NEW r, NEW q,
           Supported(m, completed[j], events[j], r)
    PROVE  Supported(m, completed'[j], events'[j], q)
<1>1. completed[j] \subseteq completed'[j]
  BY DEF MarkCompleted, TypeOK
<1>2. \A k \in completed[j] : events[j][k] # NoFacts /\ events'[j][k] = events[j][k]
  BY DEF MarkCompleted, TypeOK, StateCoherent
<1> QED BY <1>1, <1>2, SupportedMonotone

(* Nothing completes: what supported a node supports it for any payload.   *)
LEMMA SupportForAnyPayload ==
    ASSUME StateCoherent, NEW j \in Instance, NEW m, NEW r, NEW q,
           Supported(m, completed[j], events[j], r)
    PROVE  Supported(m, completed[j], events[j], q)
<1>1. \A k \in completed[j] : events[j][k] # NoFacts
  BY DEF StateCoherent
<1> QED BY <1>1, SupportedMonotone

LEMMA JustifiedStep ==
    TypeOK /\ StateCoherent /\ Justified /\ [Next]_vars => Justified'
<1> SUFFICES ASSUME TypeOK, StateCoherent, Justified, [Next]_vars,
                    NEW j \in Instance, NEW m \in Started(j)' \cup completed'[j], NEW q \in Payload
             PROVE  Supported(m, completed'[j], events'[j], q)
  BY DEF Justified
<1>1. ASSUME NEW i \in Instance, NEW n \in Node, NEW p \in CallerPayload, Advance(i, n, p)
      PROVE  Supported(m, completed'[j], events'[j], q)
  <2>1. Supported(n, completed[i], events[i], p) /\ n \notin completed[i] /\ MarkCompleted(i, n, p)
    BY <1>1 DEF Advance, Enabled
  <2>2. CASE i = j /\ m = n
    BY <2>1, <2>2, SupportSurvives
  <2>3. CASE m \in Started(j) \cup completed[j]
    BY <2>1, <2>3, SupportSurvives DEF Justified
  <2>4. m \in Started(j) \cup completed[j] \/ (i = j /\ m = n)
    BY <1>1 DEF Advance, MarkCompleted, Started, TypeOK
  <2> QED BY <2>2, <2>3, <2>4
<1>2. ASSUME NEW i \in Instance, NEW n \in Node, NEW p \in CallerPayload, Reserve(i, n, p)
      PROVE  Supported(m, completed'[j], events'[j], q)
  <2>1. Supported(n, completed[i], events[i], p) /\ UNCHANGED <<completed, events>>
    BY <1>2 DEF Reserve, Enabled
  <2>2. m \in Started(j) \cup completed[j] \/ (i = j /\ m = n)
    BY <1>2 DEF Reserve, Started, TypeOK
  <2> QED BY <2>1, <2>2, SupportForAnyPayload DEF Justified
<1>3. ASSUME NEW i \in Instance, NEW n \in Node, NEW c \in Completion, NEW over \in Override,
             CompleteDirect(i, n, c, over)
      PROVE  Supported(m, completed'[j], events'[j], q)
  <2>1. n \in Started(i) /\ n \notin completed[i] /\ MarkCompleted(i, n, Merged(c, over))
    BY <1>3 DEF CompleteDirect, StateCoherent, Started
  <2>2. m \in Started(j) \cup completed[j]
    BY <1>3, <2>1 DEF CompleteDirect, MarkCompleted, Started, TypeOK
  <2> QED BY <2>1, <2>2, SupportSurvives DEF Justified
<1>4. CASE UNCHANGED state
  BY <1>4 DEF state, Justified, Started
<1> QED BY <1>1, <1>2, <1>3, <1>4 DEF Next, Issue, Lapse, vars, state

(* Every open or completed node rests on facts that are in the state now,  *)
(* whatever other callers and producers did since it was enabled.          *)
THEOREM Justification == Spec => []CausallyJustified
<1>1. Init => Justified
  BY DEF Init, Justified, Started
<1>2. Justified => CausallyJustified
  BY CallersBringPayloads DEF Justified, CausallyJustified
<1> QED BY <1>1, <1>2, JustifiedStep, TypeCorrect, Coherence, PTL DEF Spec

-------------------------------------------------------------------------------
(* No later call, duplicate completion or second reservation changes what  *)
(* a completed node left or takes it back.                                 *)
THEOREM Finality == Spec => FactsAreFinal
<1> DEFINE Keeps == \A i \in Instance : \A n \in completed[i] :
                       n \in completed'[i] /\ events'[i][n] = events[i][n]
<1>1. TypeOK /\ StateCoherent /\ [Next]_vars => [Keeps]_vars
  <2> SUFFICES ASSUME TypeOK, StateCoherent, Next PROVE Keeps
    OBVIOUS
  <2>1. ASSUME NEW i \in Instance, NEW n \in Node, NEW p \in CallerPayload, Advance(i, n, p)
        PROVE  Keeps
    BY <2>1 DEF Advance, Enabled, MarkCompleted, TypeOK
  <2>2. ASSUME NEW i \in Instance, NEW n \in Node, NEW c \in Completion, NEW over \in Override,
               CompleteDirect(i, n, c, over)
        PROVE  Keeps
    BY <2>2 DEF CompleteDirect, MarkCompleted, TypeOK, StateCoherent, Started
  <2>3. CASE UNCHANGED <<completed, events>>
    BY <2>3
  <2> QED BY <2>1, <2>2, <2>3 DEF Next, Reserve, Issue, Lapse, state
<1> QED BY <1>1, TypeCorrect, Coherence, PTL DEF Spec, FactsAreFinal

-------------------------------------------------------------------------------
(* The event log accounts for the state.  The strengthening says where the *)
(* row that opened a reservation is: in the log, under the same attempt.   *)
Reserving ==
    \A i \in Instance, n \in Node :
        reserved[i][n] # 0 => \E s \in Starting(i, n) : s.attempt = reserved[i][n]

(* One row appended touches the rows of its own node and kind only.        *)
LEMMA Appended ==
    ASSUME NEW i \in Instance, NEW n \in Node, NEW a, NEW kind, NEW p,
           trace' = trace \cup {Row(i, n, a, kind, p)},
           NEW j \in Instance, NEW m \in Node
    PROVE  /\ (j = i /\ m = n) /\ kind # "started"
                => /\ Completing(j, m)' = Completing(j, m) \cup {Row(i, n, a, kind, p)}
                   /\ Starting(j, m)' = Starting(j, m)
           /\ (j = i /\ m = n) /\ kind = "started"
                => /\ Completing(j, m)' = Completing(j, m)
                   /\ Starting(j, m)' = Starting(j, m) \cup {Row(i, n, a, kind, p)}
           /\ ~(j = i /\ m = n)
                => /\ Completing(j, m)' = Completing(j, m)
                   /\ Starting(j, m)' = Starting(j, m)
BY DEF Row, Completing, Starting

(* A node whose completing rows and facts are left alone stays accounted   *)
(* for, and so is one that completed with its first completing row.        *)
LEMMA StillAccounted ==
    ASSUME NEW j, NEW m, Accounted(j, m),
           Completing(j, m)' = Completing(j, m), Starting(j, m) \subseteq Starting(j, m)',
           m \in completed'[j] <=> m \in completed[j], events'[j][m] = events[j][m]
    PROVE  Accounted(j, m)'
BY DEF Accounted

LEMMA NewlyAccounted ==
    ASSUME NEW j, NEW m, NEW row, Completing(j, m)' = {row}, m \in completed'[j],
           row.payload = events'[j][m],
           row.kind = "completed" => \E s \in Starting(j, m)' : s.attempt = row.attempt
    PROVE  Accounted(j, m)'
BY DEF Accounted

LEMMA LogStep ==
    TypeOK /\ StateCoherent /\ TraceAccountsForState /\ Reserving /\ [Next]_vars
        => TraceAccountsForState' /\ Reserving'
<1> SUFFICES ASSUME TypeOK, StateCoherent, TraceAccountsForState, Reserving, [Next]_vars
             PROVE  TraceAccountsForState' /\ Reserving'
  OBVIOUS
<1>a. \A j \in Instance, m \in Node : Accounted(j, m)
  BY DEF TraceAccountsForState
<1>b. \A j \in Instance, m \in Node : m \notin completed[j] => Completing(j, m) = {}
  BY <1>a DEF Accounted
<1>1. ASSUME NEW i \in Instance, NEW n \in Node, NEW p \in CallerPayload, Advance(i, n, p)
      PROVE  TraceAccountsForState' /\ Reserving'
  <2> DEFINE row == Row(i, n, attempts[i][n] + 1, "advanced", p)
  <2>1. /\ n \notin completed[i] /\ trace' = trace \cup {row} /\ reserved' = reserved
        /\ completed' = [completed EXCEPT ![i] = @ \cup {n}]
        /\ events' = [events EXCEPT ![i][n] = p]
    BY <1>1 DEF Advance, Enabled, MarkCompleted
  <2>2. row.payload = p /\ row.kind = "advanced" BY DEF Row
  <2> HIDE DEF row
  <2>3. ASSUME NEW j \in Instance, NEW m \in Node PROVE Accounted(j, m)'
    <3>1. CASE j = i /\ m = n
      <4>1. Completing(j, m)' = {row} BY <1>b, <2>1, <3>1, Appended DEF row
      <4>2. m \in completed'[j] /\ events'[j][m] = p BY <2>1, <3>1 DEF TypeOK
      <4> QED BY <2>2, <4>1, <4>2, NewlyAccounted
    <3>2. CASE ~(j = i /\ m = n)
      <4>1. Completing(j, m)' = Completing(j, m) /\ Starting(j, m)' = Starting(j, m)
        BY <2>1, <3>2, Appended DEF row
      <4>2. (m \in completed'[j] <=> m \in completed[j]) /\ events'[j][m] = events[j][m]
        BY <2>1, <3>2 DEF TypeOK
      <4> QED BY <1>a, <4>1, <4>2, StillAccounted
    <3> QED BY <3>1, <3>2
  <2>4. \A j \in Instance, m \in Node : Starting(j, m)' = Starting(j, m)
    BY <2>1, Appended DEF row
  <2>5. Reserving' BY <2>1, <2>4 DEF Reserving
  <2> QED BY <2>3, <2>5 DEF TraceAccountsForState
<1>2. ASSUME NEW i \in Instance, NEW n \in Node, NEW p \in CallerPayload, Reserve(i, n, p)
      PROVE  TraceAccountsForState' /\ Reserving'
  <2> DEFINE row == Row(i, n, attempts[i][n] + 1, "started", p)
  <2>1. /\ trace' = trace \cup {row} /\ UNCHANGED <<completed, events>>
        /\ reserved' = [reserved EXCEPT ![i][n] = attempts[i][n] + 1]
    BY <1>2 DEF Reserve
  <2>2. row.attempt = attempts[i][n] + 1 BY DEF Row
  <2> HIDE DEF row
  <2>3. \A j \in Instance, m \in Node :
           Completing(j, m)' = Completing(j, m) /\ Starting(j, m) \subseteq Starting(j, m)'
    BY <2>1, Appended DEF row
  <2>4. row \in Starting(i, n)'
    BY <2>1, Appended DEF row
  <2>5. TraceAccountsForState'
    BY <1>a, <2>1, <2>3, StillAccounted DEF TraceAccountsForState
  <2>6. Reserving'
    BY <2>1, <2>2, <2>3, <2>4 DEF Reserving, TypeOK
  <2> QED BY <2>5, <2>6
<1>3. ASSUME NEW i \in Instance, NEW n \in Node, NEW c \in Completion, NEW over \in Override,
             CompleteDirect(i, n, c, over)
      PROVE  TraceAccountsForState' /\ Reserving'
  <2> DEFINE p == Merged(c, over)
             row == Row(i, n, reserved[i][n], "completed", p)
  <2>1. /\ reserved[i][n] # 0 /\ trace' = trace \cup {row}
        /\ reserved' = [reserved EXCEPT ![i][n] = 0]
        /\ completed' = [completed EXCEPT ![i] = @ \cup {n}]
        /\ events' = [events EXCEPT ![i][n] = p]
    BY <1>3 DEF CompleteDirect, MarkCompleted
  <2>2. row.payload = p /\ row.attempt = reserved[i][n] BY DEF Row
  <2>3. n \notin completed[i] BY <2>1 DEF StateCoherent, Started
  <2> HIDE DEF row, p
  <2>4. \A j \in Instance, m \in Node : Starting(j, m)' = Starting(j, m)
    BY <2>1, Appended DEF row
  <2>5. \E s \in Starting(i, n) : s.attempt = reserved[i][n]
    BY <2>1 DEF Reserving
  <2>6. ASSUME NEW j \in Instance, NEW m \in Node PROVE Accounted(j, m)'
    <3>1. CASE j = i /\ m = n
      <4>1. Completing(j, m)' = {row} BY <1>b, <2>1, <2>3, <3>1, Appended DEF row
      <4>2. m \in completed'[j] /\ events'[j][m] = p BY <2>1, <3>1 DEF TypeOK
      <4>3. \E s \in Starting(j, m)' : s.attempt = row.attempt BY <2>2, <2>4, <2>5, <3>1
      <4> QED BY <2>2, <4>1, <4>2, <4>3, NewlyAccounted
    <3>2. CASE ~(j = i /\ m = n)
      <4>1. Completing(j, m)' = Completing(j, m) /\ Starting(j, m)' = Starting(j, m)
        BY <2>1, <3>2, Appended DEF row
      <4>2. (m \in completed'[j] <=> m \in completed[j]) /\ events'[j][m] = events[j][m]
        BY <2>1, <3>2 DEF TypeOK
      <4> QED BY <1>a, <4>1, <4>2, StillAccounted
    <3> QED BY <3>1, <3>2
  <2>7. Reserving' BY <2>1, <2>4 DEF Reserving, TypeOK
  <2> QED BY <2>6, <2>7 DEF TraceAccountsForState
<1>4. CASE UNCHANGED <<state, trace>>
  BY <1>4 DEF state, TraceAccountsForState, Accounted, Reserving, Completing, Starting
<1> QED BY <1>1, <1>2, <1>3, <1>4 DEF Next, Issue, Lapse, vars, state

(* The facts of every completed node are those of exactly one completing   *)
(* row, and a row completed on a producer's word follows the row that      *)
(* reserved that very instance.                                            *)
THEOREM TraceAccounts == Spec => []TraceAccountsForState
<1>1. Init => TraceAccountsForState /\ Reserving
  BY DEF Init, TraceAccountsForState, Accounted, Reserving, Completing
<1> QED BY <1>1, LogStep, TypeCorrect, Coherence, PTL DEF Spec

-------------------------------------------------------------------------------
(* As long as advance() is never handed a payload together with a          *)
(* completion, externally owned nodes carry what their owners signed.      *)
THEOREM Attestation ==
    ASSUME \A over \in Override : DOMAIN over = {}
    PROVE  Spec => []FactsAreAttested
<1>1. Init => FactsAreAttested
  BY DEF Init, FactsAreAttested
<1>2. TypeOK /\ StateCoherent /\ FactsAreAttested /\ [Next]_vars => FactsAreAttested'
  <2> SUFFICES ASSUME TypeOK, StateCoherent, FactsAreAttested, [Next]_vars, VerifierConfigured
               PROVE  FactsAreAttested'
    BY DEF FactsAreAttested
  <2> USE DEF TypeOK, FactsAreAttested
  <2>1. ASSUME NEW i \in Instance, NEW n \in Node, NEW p \in CallerPayload, Advance(i, n, p)
        PROVE  FactsAreAttested'
    BY <2>1 DEF Advance, MarkCompleted, wire
  <2>2. ASSUME NEW i \in Instance, NEW n \in Node, NEW c \in Completion, NEW over \in Override,
               CompleteDirect(i, n, c, over)
        PROVE  FactsAreAttested'
    <3>1. Merged(c, over) = Attested(c)
      BY DEF Merged, Attested
    <3>2. /\ c \in issued
          /\ <<c.instance, c.node, c.role>> = <<i, n, Role[n]>>
      BY <2>2 DEF CompleteDirect, Valid
    <3>3. /\ completed' = [completed EXCEPT ![i] = @ \cup {n}]
          /\ events' = [events EXCEPT ![i][n] = Attested(c)]
          /\ issued' = issued
      BY <2>2, <3>1 DEF CompleteDirect, MarkCompleted, wire
    <3>4. ASSUME NEW j \in Instance, NEW m \in completed'[j], Role[m] \notin Internal
          PROVE  \E d \in issued' : /\ <<d.instance, d.node, d.role>> = <<j, m, Role[m]>>
                                    /\ events'[j][m] = Attested(d)
      <4>1. CASE j = i /\ m = n
        BY <3>2, <3>3, <4>1
      <4>2. CASE ~(j = i /\ m = n)
        <5>1. m \in completed[j] /\ events'[j][m] = events[j][m] /\ m \in Node
          BY <3>3, <4>2
        <5>2. PICK d \in issued : /\ <<d.instance, d.node, d.role>> = <<j, m, Role[m]>>
                                  /\ events[j][m] = Attested(d)
          BY <3>4, <5>1
        <5> QED BY <3>3, <5>1, <5>2
      <4> QED BY <4>1, <4>2
    <3> HIDE DEF TypeOK
    <3>5. ASSUME NEW d PROVE Attested(d)' = Attested(d)
      BY DEF Attested, Decoded
    <3> QED BY <3>4, <3>5
  <2>3. CASE UNCHANGED <<completed, events>> /\ issued \subseteq issued'
    BY <2>3
  <2> QED BY <2>1, <2>2, <2>3 DEF Next, Reserve, Issue, Lapse, vars, state, wire
<1> QED BY <1>1, <1>2, TypeCorrect, Coherence, PTL DEF Spec

-------------------------------------------------------------------------------
(* The scheduler implements CausalOrder.  Reserving, signing and lapsing   *)
(* are stutters; a completion is an occurrence because the node it closes  *)
(* is still supported when it closes.                                      *)
THEOREM Implementation == Spec => ImplementsCausalOrder
<1>1. Init => Promise!Init
  BY DEF Init, Promise!Init, NoFacts, Promise!NoFacts
<1>2. TypeOK /\ StateCoherent /\ Justified /\ [Next]_vars => [Promise!Next]_events
  <2> SUFFICES ASSUME TypeOK, StateCoherent, Justified, Next
               PROVE  [Promise!Next]_events
    BY DEF vars
  <2>1. \A i \in Instance : Promise!Occurred(i) = completed[i]
    BY DEF Promise!Occurred, StateCoherent, NoFacts, Promise!NoFacts
  <2>a. ASSUME NEW S PROVE Promise!Cardinality(S) = Cardinality(S)
    BY Zenon DEF Cardinality, Promise!Cardinality
  <2>b. ASSUME NEW j, NEW done PROVE Promise!SatisfiedBy(j, done) = SatisfiedBy(j, done)
    BY <2>a DEF SatisfiedBy, Promise!SatisfiedBy
  <2>c. ASSUME NEW e, NEW facts, NEW p
        PROVE  Promise!ConditionMatches(e, facts, p) = ConditionMatches(e, facts, p)
    BY DEF ConditionMatches, SourceFacts, ConditionHolds, PredicateHolds, Falsy, NoFacts,
           Promise!ConditionMatches, Promise!SourceFacts, Promise!ConditionHolds,
           Promise!PredicateHolds, Promise!Falsy, Promise!NoFacts
  <2>d. ASSUME NEW n, NEW done, NEW facts, NEW p
        PROVE  Promise!Traversable(n, done, facts, p) = Traversable(n, done, facts, p)
    BY <2>c DEF Traversable, Incoming, Promise!Traversable, Promise!Incoming
  <2>2. ASSUME NEW n, NEW done, NEW facts, NEW p
        PROVE  Promise!Supported(n, done, facts, p) = Supported(n, done, facts, p)
    BY <2>b, <2>c, <2>d DEF Supported, Incoming, Promise!Supported, Promise!Incoming
  <2>3. ASSUME NEW i \in Instance, NEW n \in Node, NEW p \in CallerPayload, Advance(i, n, p)
        PROVE  Promise!Next
    <3>1. Promise!Occur(i, n, p)
      BY <2>1, <2>2, <2>3 DEF Promise!Occur, Advance, Enabled, MarkCompleted
    <3>2. p \in Outcome[n] BY DEF Outcome
    <3> QED BY <3>1, <3>2 DEF Promise!Next
  <2>4. ASSUME NEW i \in Instance, NEW n \in Node, NEW c \in Completion, NEW over \in Override,
               CompleteDirect(i, n, c, over)
        PROVE  Promise!Next
    <3>1. n \notin completed[i] /\ n \in Started(i)
      BY <2>4 DEF CompleteDirect, StateCoherent, Started
    <3>2. Supported(n, completed[i], events[i], Merged(c, over))
      BY <3>1, MergedIsPayload DEF Justified
    <3>3. Promise!Occur(i, n, Merged(c, over))
      BY <2>1, <2>2, <2>4, <3>1, <3>2 DEF Promise!Occur, CompleteDirect, MarkCompleted
    <3>4. Merged(c, over) \in Outcome[n] BY DEF Outcome
    <3> QED BY <3>3, <3>4 DEF Promise!Next
  <2> QED BY <2>3, <2>4 DEF Next, Reserve, Issue, Lapse, state
<1>3. Init => Justified
  BY DEF Init, Justified, Started
<1> QED BY <1>1, <1>2, <1>3, JustifiedStep, TypeCorrect, Coherence, PTL DEF Spec, ImplementsCausalOrder, Promise!Spec

-------------------------------------------------------------------------------
(* The certificate.  A row is new when it is logged: a node that is        *)
(* neither open nor completed has not been reserved before.                *)
Unopened ==
    \A i \in Instance, n \in Node :
        n \notin Started(i) \cup completed[i] => Starting(i, n) = {}

CertificateInv ==
    /\ TypeOK /\ StateCoherent /\ TraceAccountsForState /\ Reserving
    /\ Unopened /\ LogCertifiesState

(* One new row is what the validator is fed.                               *)
LEMMA FedOneRow ==
    ASSUME NEW i \in Instance, NEW n, NEW a, NEW kind, NEW p, Certify,
           Row(i, n, a, kind, p) \notin trace, trace' = trace \cup {Row(i, n, a, kind, p)}
    PROVE  replay' = [j \in Instance |-> IF j = i THEN Replayed(replay[i], Row(i, n, a, kind, p)) ELSE replay[j]]
<1> DEFINE row == Row(i, n, a, kind, p)
<1>1. trace' \ trace = {row} OBVIOUS
<1>2. row.instance = i BY DEF Row
<1>3. ASSUME NEW j \in Instance
      PROVE  (\E r \in trace' \ trace : r.instance = j) <=> j = i
  BY <1>1, <1>2
<1>4. (CHOOSE r \in trace' \ trace : r.instance = i) = row
  BY <1>1, <1>2
<1> HIDE DEF row
<1>5. \A j \in Instance :
        (IF \E r \in trace' \ trace : r.instance = j
         THEN Replayed(replay[j], CHOOSE r \in trace' \ trace : r.instance = j) ELSE replay[j])
        = IF j = i THEN Replayed(replay[i], row) ELSE replay[j]
  BY <1>3, <1>4
<1> QED BY <1>5 DEF Certify, row

(* What the validator makes of a row, and of the state it held.            *)
LEMMA ReplaysAs ==
    ASSUME NEW s, NEW i, NEW n, NEW a, NEW kind, NEW p
    PROVE  /\ kind = "started" /\ Enabled(n, s.completed, s.started, s.events, p)
                => Replayed(s, Row(i, n, a, kind, p)) = Reserved(s, n)
           /\ kind # "started" /\ (n \in s.started \/ Enabled(n, s.completed, s.started, s.events, p))
                => Replayed(s, Row(i, n, a, kind, p)) = Finished(s, n, p)
<1> DEFINE r == Row(i, n, a, kind, p)
<1>1. r.node = n /\ r.kind = kind /\ r.payload = p
  BY DEF Row
<1> HIDE DEF r
<1>2. MayStart(s, r) <=> Enabled(n, s.completed, s.started, s.events, p)
  BY <1>1 DEF MayStart
<1>3. /\ kind = "started" /\ MayStart(s, r) => Replayed(s, r) = Reserved(s, n)
      /\ kind # "started" /\ (n \in s.started \/ MayStart(s, r)) => Replayed(s, r) = Finished(s, n, p)
  BY <1>1 DEF Replayed
<1> QED BY <1>2, <1>3 DEF r

Held(done, facts, open) == [completed |-> done, events |-> facts, started |-> open, certified |-> TRUE]

LEMMA HoldsState == LogCertifiesState <=> \A i \in Instance : replay[i] = Held(completed[i], events[i], Started(i))
BY DEF LogCertifiesState, Held

LEMMA HeldFields ==
    ASSUME NEW done, NEW facts, NEW open
    PROVE  /\ Held(done, facts, open).completed = done
           /\ Held(done, facts, open).events = facts
           /\ Held(done, facts, open).started = open
BY DEF Held

LEMMA CertificateStep ==
    CertificateInv /\ [CertificateNext]_<<vars, replay>> => LogCertifiesState' /\ Unopened'
<1> SUFFICES ASSUME CertificateInv, [CertificateNext]_<<vars, replay>>
             PROVE  LogCertifiesState' /\ Unopened'
  OBVIOUS
<1> USE DEF CertificateInv
<1>1. ASSUME NEW i \in Instance, NEW n \in Node, NEW p \in CallerPayload, Advance(i, n, p), Certify
      PROVE  LogCertifiesState' /\ Unopened'
  <2> DEFINE row == Row(i, n, attempts[i][n] + 1, "advanced", p)
  <2>0. \A j \in Instance : replay[j] = Held(completed[j], events[j], Started(j))
    BY HoldsState
  <2>1. /\ Enabled(n, completed[i], Started(i), events[i], p) /\ MarkCompleted(i, n, p)
        /\ trace' = trace \cup {row} /\ reserved' = reserved
    BY <1>1 DEF Advance
  <2>2. row \notin trace
    BY <2>1 DEF Enabled, TraceAccountsForState, Accounted, Completing, Row
  <2>3. replay' = [j \in Instance |-> IF j = i THEN Replayed(replay[i], row) ELSE replay[j]]
    BY <1>1, <2>1, <2>2, FedOneRow
  <2>4. Replayed(replay[i], row) = Finished(replay[i], n, p)
    BY <2>0, <2>1, HeldFields, ReplaysAs
  <2>5. Started(i)' = Started(i) \ {n} /\ \A j \in Instance : j # i => Started(j)' = Started(j)
    BY <2>1 DEF Started, Enabled
  <2>6. LogCertifiesState'
    <3>1. completed'[i] = completed[i] \cup {n} /\ events'[i] = [events[i] EXCEPT ![n] = p]
      BY <2>1 DEF MarkCompleted, TypeOK
    <3>2. replay'[i] = Finished(Held(completed[i], events[i], Started(i)), n, p)
      BY <2>0, <2>3, <2>4
    <3>3. replay'[i] = Held(completed'[i], events'[i], Started(i)')
      BY <3>1, <3>2, <2>5 DEF Held, Finished
    <3>4. ASSUME NEW j \in Instance, j # i
          PROVE  replay'[j] = Held(completed'[j], events'[j], Started(j)')
      BY <2>0, <2>1, <2>3, <2>5, <3>4 DEF MarkCompleted, TypeOK
    <3> QED BY <3>3, <3>4 DEF LogCertifiesState, Held
  <2>7. Unopened'
    BY <2>1, <2>5 DEF Unopened, Starting, MarkCompleted, TypeOK, Row, Started
  <2> QED BY <2>6, <2>7
<1>2. ASSUME NEW i \in Instance, NEW n \in Node, NEW p \in CallerPayload, Reserve(i, n, p), Certify
      PROVE  LogCertifiesState' /\ Unopened'
  <2> DEFINE row == Row(i, n, attempts[i][n] + 1, "started", p)
  <2>0. \A j \in Instance : replay[j] = Held(completed[j], events[j], Started(j))
    BY HoldsState
  <2>1. /\ Enabled(n, completed[i], Started(i), events[i], p)
        /\ trace' = trace \cup {row} /\ UNCHANGED <<completed, events>>
        /\ reserved' = [reserved EXCEPT ![i][n] = attempts[i][n] + 1]
    BY <1>2 DEF Reserve
  <2>2. row \notin trace
    BY <2>1 DEF Enabled, Unopened, Starting, Row
  <2>3. replay' = [j \in Instance |-> IF j = i THEN Replayed(replay[i], row) ELSE replay[j]]
    BY <1>2, <2>1, <2>2, FedOneRow
  <2>4. Replayed(replay[i], row) = Reserved(replay[i], n)
    BY <2>0, <2>1, HeldFields, ReplaysAs
  <2>5. attempts[i][n] + 1 # 0 BY DEF TypeOK
  <2>6. Started(i)' = Started(i) \cup {n} /\ \A j \in Instance : j # i => Started(j)' = Started(j)
    BY <2>1, <2>5 DEF Started, TypeOK
  <2>7. LogCertifiesState'
    <3>1. replay'[i] = Reserved(Held(completed[i], events[i], Started(i)), n)
      BY <2>0, <2>3, <2>4
    <3>2. replay'[i] = Held(completed'[i], events'[i], Started(i)')
      BY <3>1, <2>1, <2>6 DEF Held, Reserved
    <3>3. ASSUME NEW j \in Instance, j # i
          PROVE  replay'[j] = Held(completed'[j], events'[j], Started(j)')
      BY <2>0, <2>1, <2>3, <2>6, <3>3
    <3> QED BY <3>2, <3>3 DEF LogCertifiesState, Held
  <2>8. Unopened'
    BY <2>1, <2>6 DEF Unopened, Starting, Row
  <2> QED BY <2>7, <2>8
<1>3. ASSUME NEW i \in Instance, NEW n \in Node, NEW c \in Completion, NEW over \in Override,
             CompleteDirect(i, n, c, over), Certify
      PROVE  LogCertifiesState' /\ Unopened'
  <2> DEFINE p == Merged(c, over)
             row == Row(i, n, reserved[i][n], "completed", p)
  <2>0. \A j \in Instance : replay[j] = Held(completed[j], events[j], Started(j))
    BY HoldsState
  <2>1. /\ reserved[i][n] # 0 /\ MarkCompleted(i, n, p)
        /\ trace' = trace \cup {row} /\ reserved' = [reserved EXCEPT ![i][n] = 0]
    BY <1>3 DEF CompleteDirect
  <2>2. n \in Started(i) /\ n \notin completed[i]
    BY <2>1 DEF Started, StateCoherent
  <2> HIDE DEF p
  <2>3. row \notin trace
    BY <2>2 DEF TraceAccountsForState, Accounted, Completing, Row
  <2>4. replay' = [j \in Instance |-> IF j = i THEN Replayed(replay[i], row) ELSE replay[j]]
    BY <1>3, <2>1, <2>3, FedOneRow
  <2>5. Replayed(replay[i], row) = Finished(replay[i], n, p)
    BY <2>0, <2>2, HeldFields, ReplaysAs
  <2>6. Started(i)' = Started(i) \ {n} /\ \A j \in Instance : j # i => Started(j)' = Started(j)
    BY <2>1 DEF Started, TypeOK
  <2>7. LogCertifiesState'
    <3>1. completed'[i] = completed[i] \cup {n} /\ events'[i] = [events[i] EXCEPT ![n] = p]
      BY <2>1 DEF MarkCompleted, TypeOK
    <3>2. replay'[i] = Finished(Held(completed[i], events[i], Started(i)), n, p)
      BY <2>0, <2>4, <2>5
    <3>3. replay'[i] = Held(completed'[i], events'[i], Started(i)')
      BY <3>1, <3>2, <2>6 DEF Held, Finished
    <3>4. ASSUME NEW j \in Instance, j # i
          PROVE  replay'[j] = Held(completed'[j], events'[j], Started(j)')
      BY <2>0, <2>1, <2>4, <2>6, <3>4 DEF MarkCompleted, TypeOK
    <3> QED BY <3>3, <3>4 DEF LogCertifiesState, Held
  <2>8. Unopened'
    BY <2>1, <2>6 DEF Unopened, Starting, MarkCompleted, TypeOK, Row, Started
  <2> QED BY <2>7, <2>8
<1>4. CASE UNCHANGED <<state, trace, replay>>
  BY <1>4 DEF state, LogCertifiesState, Unopened, Starting, Started
<1>5. CASE UNCHANGED <<state, trace>> /\ Certify
  <2>1. \A j \in Instance : replay'[j] = replay[j]
    BY <1>5 DEF Certify
  <2> QED BY <1>5, <2>1 DEF state, LogCertifiesState, Unopened, Starting, Started
<1> QED BY <1>1, <1>2, <1>3, <1>4, <1>5 DEF CertificateNext, Next, Issue, Lapse, vars, state

(* Whatever the scheduler admitted, the certificate validator certifies,   *)
(* ending in the state the scheduler holds.                                *)
THEOREM Certification == CertificateSpec => []LogCertifiesState
<1>1. CertificateInit => CertificateInv
  <2> SUFFICES ASSUME CertificateInit PROVE CertificateInv
    OBVIOUS
  <2> USE DEF CertificateInit, Init
  <2>1. TypeOK /\ \A i \in Instance : Started(i) = {} BY DEF TypeOK, Started
  <2>2. StateCoherent BY <2>1 DEF StateCoherent
  <2>3. TraceAccountsForState /\ Reserving
    BY DEF TraceAccountsForState, Accounted, Reserving, Completing
  <2>4. Unopened BY DEF Unopened, Starting
  <2>5. LogCertifiesState BY <2>1 DEF LogCertifiesState, Start
  <2> QED BY <2>1, <2>2, <2>3, <2>4, <2>5 DEF CertificateInv
<1>2. CertificateSpec => Spec
  <2>1. CertificateInit => Init BY DEF CertificateInit
  <2>2. [CertificateNext]_<<vars, replay>> => [Next]_vars BY DEF CertificateNext, vars
  <2> QED BY <2>1, <2>2, PTL DEF CertificateSpec, Spec
<1>3. Init => TraceAccountsForState /\ Reserving
  BY DEF Init, TraceAccountsForState, Accounted, Reserving, Completing
<1>4. [CertificateNext]_<<vars, replay>> => [Next]_vars BY DEF CertificateNext, vars
<1>5. CertificateInv <=> /\ TypeOK /\ StateCoherent /\ TraceAccountsForState /\ Reserving
                         /\ Unopened /\ LogCertifiesState
  BY DEF CertificateInv
<1>6. CertificateInit => Init BY DEF CertificateInit
<1> QED BY <1>1, <1>2, <1>3, <1>4, <1>5, <1>6, LogStep, CertificateStep, TypeCorrect, Coherence, PTL
        DEF CertificateSpec, Spec
===============================================================================
