---------------------------- MODULE EffectExecutor ----------------------------
(***************************************************************************)
(* CapabilityEnforcingExecutor (executor.py) with SQLiteIdempotencyStore   *)
(* and the capability verifier and nonce store of authorization.py, behind *)
(* the policy gate whose capabilities it is handed.  Any number of callers *)
(* (threads or processes of the executor service) are inside execute() at  *)
(* once; each store transaction is one step of a caller, the effect of the *)
(* raw executor is a step of its own, and a caller may die between any two *)
(* of them.  Time shows only as the end of a lease or of a capability.     *)
(*                                                                         *)
(* One contract and one executor: the store's key (executor, contract,     *)
(* idempotency key) is the idempotency key.                                *)
(***************************************************************************)
EXTENDS PolicyGate

CONSTANTS
    Caller,
    Key,        \* idempotency keys
    KeyOf       \* intent -> its idempotency key

ASSUME ExecutorAssumption == KeyOf \in [Intent -> Key]

VARIABLES
    rows,       \* executor_idempotency_v3: key -> state, intent and observation
    leased,     \* keys whose lease_expires_at has not been reached
    nonces,     \* consumed_capability_nonces
    lapsed,     \* capabilities past their expiry
    call,       \* caller -> the execute() call it is in
    effects,    \* (intent, capability) -> how often the raw executor acted on it
    answers     \* key -> verdicts that callers were given

executorVars == <<rows, leased, nonces, lapsed, call, effects, answers>>
vars == <<gateVars, executorVars>>

NoRow  == [state |-> "absent", intent |-> None, outcome |-> "none"]
Idle   == [at |-> "idle", intent |-> None, cap |-> None]
Effect == Intent \X Capability

Init ==
    /\ GateInit
    /\ rows    = [k \in Key |-> NoRow]
    /\ leased  = {}
    /\ nonces  = {}
    /\ lapsed  = {}
    /\ call    = [w \in Caller |-> Idle]
    /\ effects = [e \in Effect |-> 0]
    /\ answers = [k \in Key |-> {}]

KeyIn(w) == KeyOf[call[w].intent]

Move(w, at) == call' = [call EXCEPT ![w].at = at]

(* execute() returns.  Refusals that leave no row ("already executing",    *)
(* "bound to a different intent") say nothing of the key, so only what     *)
(* answers for the effect is noted.                                        *)
Answer(w, verdict) ==
    /\ call' = [call EXCEPT ![w] = Idle]
    /\ answers' = [answers EXCEPT ![KeyIn(w)] = @ \cup {verdict}]

ReturnOnly(w) ==
    /\ call' = [call EXCEPT ![w] = Idle]
    /\ UNCHANGED answers

\* complete() and mark_indeterminate(): only a pending row may be settled.
CanSettle(k) == rows[k].state = "pending"

\* Mutant of Write: the observation is stored and the lease forgotten.
WriteLeased(k, state, outcome) ==
    /\ rows' = [rows EXCEPT ![k].state = state, ![k].outcome = outcome]
    /\ UNCHANGED leased

Write(k, state, outcome) ==
    /\ rows' = [rows EXCEPT ![k].state = state, ![k].outcome = outcome]
    /\ leased' = leased \ {k}

-----------------------------------------------------------------------------
\* Mutant of Bound: the capability is checked to be issued, not to be bound to the intent.
BoundToAny(i, c) == granted[c] # None

\* CapabilityVerifier.validate: audience, expiry, exact intent, signature.
Bound(i, c) == granted[c] = i

Present(w, i, c) ==
    /\ call[w].at = "idle"
    /\ granted[c] # None
    /\ Bound(i, c) /\ c \notin lapsed
    /\ call' = [call EXCEPT ![w] = [at |-> "validated", intent |-> i, cap |-> c]]
    /\ UNCHANGED <<rows, leased, nonces, lapsed, effects, answers, gateVars>>

(* reserve(), by what the row says.                                        *)
ClaimRow(w) ==
    LET k == KeyIn(w) IN
    /\ rows[k].state = "absent"
    /\ rows' = [rows EXCEPT ![k] = [state |-> "pending", intent |-> call[w].intent, outcome |-> "none"]]
    /\ leased' = leased \cup {k}
    /\ Move(w, "reserved")
    /\ UNCHANGED answers

Conflict(w) ==
    /\ rows[KeyIn(w)].state # "absent" /\ rows[KeyIn(w)].intent # call[w].intent
    /\ ReturnOnly(w)
    /\ UNCHANGED <<rows, leased>>

SameIntent(w, state) == rows[KeyIn(w)].state = state /\ rows[KeyIn(w)].intent = call[w].intent

Replay(w) ==
    /\ SameIntent(w, "completed") \/ SameIntent(w, "indeterminate")
    /\ Answer(w, rows[KeyIn(w)].outcome)
    /\ UNCHANGED <<rows, leased>>

AlreadyExecuting(w) ==
    /\ SameIntent(w, "pending")
    /\ KeyIn(w) \in leased
    /\ ReturnOnly(w)
    /\ UNCHANGED <<rows, leased>>

\* Mutant of TakeOver: an expired reservation is taken to be dead and its effect started again.
TakeOverAndRetry(w) ==
    /\ SameIntent(w, "pending")
    /\ KeyIn(w) \notin leased
    /\ leased' = leased \cup {KeyIn(w)}
    /\ Move(w, "reserved")
    /\ UNCHANGED <<rows, answers>>

\* The lease of the first holder has ended: it may be dead, or merely slow.
TakeOver(w) ==
    /\ SameIntent(w, "pending")
    /\ KeyIn(w) \notin leased
    /\ Write(KeyIn(w), "indeterminate", "unknown")
    /\ Answer(w, "unknown")

ReserveKey(w) ==
    /\ call[w].at = "validated"
    /\ ClaimRow(w) \/ Conflict(w) \/ Replay(w) \/ AlreadyExecuting(w) \/ TakeOver(w)
    /\ UNCHANGED <<nonces, lapsed, effects, gateVars>>

-----------------------------------------------------------------------------
\* validate_and_consume: the second look at the expiry, and the nonce.
ConsumeNonce(w) ==
    /\ call[w].at = "reserved"
    /\ call[w].cap \notin lapsed \cup nonces
    /\ nonces' = nonces \cup {call[w].cap}
    /\ Move(w, "cleared")
    /\ UNCHANGED <<rows, leased, lapsed, effects, answers, gateVars>>

(* CapabilityRejected after the reservation: the refusal becomes the       *)
(* key's observation for good.  If the row was taken over meanwhile,       *)
(* complete() raises out of execute().                                     *)
RefuseKey(w) ==
    /\ call[w].at = "reserved"
    /\ call[w].cap \in lapsed \cup nonces
    /\ IF CanSettle(KeyIn(w))
         THEN Write(KeyIn(w), "completed", "refused") /\ Answer(w, "refused")
         ELSE ReturnOnly(w) /\ UNCHANGED <<rows, leased>>
    /\ UNCHANGED <<nonces, lapsed, effects, gateVars>>

\* The raw executor acts and returns, or raises before or after it acted.
RunRaw(w) ==
    LET e == <<call[w].intent, call[w].cap>> IN
    /\ call[w].at = "cleared"
    /\ \/ effects' = [effects EXCEPT ![e] = @ + 1] /\ (Move(w, "returned") \/ Move(w, "raised"))
       \/ Move(w, "raised") /\ UNCHANGED effects
    /\ UNCHANGED <<rows, leased, nonces, lapsed, answers, gateVars>>

\* Mutant of SettleRaised: a raised exception is recorded as a failure: nothing happened.
SettleRaisedAsRefused(w) ==
    /\ call[w].at = "raised"
    /\ IF CanSettle(KeyIn(w))
         THEN Write(KeyIn(w), "completed", "refused") /\ Answer(w, "refused")
         ELSE ReturnOnly(w) /\ UNCHANGED <<rows, leased>>
    /\ UNCHANGED <<nonces, lapsed, effects, gateVars>>

\* The raw executor raised: mark_indeterminate, which raises if the row was taken over.
SettleRaised(w) ==
    /\ call[w].at = "raised"
    /\ IF CanSettle(KeyIn(w))
         THEN Write(KeyIn(w), "indeterminate", "unknown") /\ Answer(w, "unknown")
         ELSE ReturnOnly(w) /\ UNCHANGED <<rows, leased>>
    /\ UNCHANGED <<nonces, lapsed, effects, gateVars>>

\* The raw executor returned: complete().
SettleReturned(w) ==
    /\ call[w].at = "returned"
    /\ CanSettle(KeyIn(w))
    /\ Write(KeyIn(w), "completed", "effected")
    /\ Answer(w, "effected")
    /\ UNCHANGED <<nonces, lapsed, effects, gateVars>>

\* Mutant of ReceiptLost: a lost receipt is swallowed and the success reported.
ReceiptIgnored(w) ==
    /\ call[w].at = "returned"
    /\ \/ CanSettle(KeyIn(w)) /\ Write(KeyIn(w), "indeterminate", "unknown")
       \/ UNCHANGED <<rows, leased>>
    /\ Answer(w, "effected")
    /\ UNCHANGED <<nonces, lapsed, effects, gateVars>>

(* complete() failed, because the row was taken over or because the store  *)
(* did; mark_indeterminate is tried and its failure swallowed.             *)
ReceiptLost(w) ==
    /\ call[w].at = "returned"
    /\ \/ CanSettle(KeyIn(w)) /\ Write(KeyIn(w), "indeterminate", "unknown")
       \/ UNCHANGED <<rows, leased>>
    /\ Answer(w, "unknown")
    /\ UNCHANGED <<nonces, lapsed, effects, gateVars>>

-----------------------------------------------------------------------------
\* The caller's process dies; its reservation stays.
Die(w) ==
    /\ call[w].at # "idle"
    /\ call' = [call EXCEPT ![w] = Idle]
    /\ UNCHANGED <<rows, leased, nonces, lapsed, effects, answers, gateVars>>

LeaseEnds(k) ==
    /\ k \in leased
    /\ leased' = leased \ {k}
    /\ UNCHANGED <<rows, nonces, lapsed, call, effects, answers, gateVars>>

CapabilityLapses(c) ==
    /\ granted[c] # None
    /\ c \notin lapsed
    /\ lapsed' = lapsed \cup {c}
    /\ UNCHANGED <<rows, leased, nonces, call, effects, answers, gateVars>>

CallerStep(w) ==
    \/ \E i \in Intent, c \in Capability : Present(w, i, c)
    \/ ReserveKey(w)
    \/ ConsumeNonce(w)
    \/ RefuseKey(w)
    \/ RunRaw(w)
    \/ SettleRaised(w)
    \/ SettleReturned(w)
    \/ ReceiptLost(w)
    \/ Die(w)

ExecutorNext ==
    \/ \E w \in Caller : CallerStep(w)
    \/ \E k \in Key : LeaseEnds(k)
    \/ \E c \in Capability : CapabilityLapses(c)

Next ==
    \/ GateNext /\ UNCHANGED executorVars
    \/ ExecutorNext

Spec == Init /\ [][Next]_vars

-----------------------------------------------------------------------------
RowType ==
    [state : {"absent", "pending", "completed", "indeterminate"}, intent : Intent \cup {None},
     outcome : {"none", "effected", "refused", "unknown"}]

Positions == {"idle", "validated", "reserved", "cleared", "raised", "returned"}

\* Shape of the gate's and the executor's stores and of the calls in progress.
TypeOK ==
    /\ GateTypeOK
    /\ rows \in [Key -> RowType]
    /\ leased \subseteq {k \in Key : rows[k].state = "pending"}
    /\ nonces \subseteq Capability /\ lapsed \subseteq Capability
    /\ call \in [Caller -> [at : Positions, intent : Intent \cup {None}, cap : Capability \cup {None}]]
    /\ \A w \in Caller : call[w].at # "idle" => call[w].intent \in Intent /\ call[w].cap \in Capability
    /\ effects \in [Effect -> Nat]
    /\ answers \in [Key -> SUBSET {"effected", "refused", "unknown"}]

Done == {e \in Effect : effects[e] > 0}

Happened == {KeyOf[e[1]] : e \in Done}

(* One effect per idempotency key, whichever of its intents, capabilities, *)
(* callers, retries, deaths and expired leases are involved: "A process    *)
(* dying after a side effect cannot safely retry" (executor.py:79-84).     *)
EffectOnce ==
    /\ \A e \in Effect : effects[e] <= 1
    /\ \A d, e \in Done : KeyOf[d[1]] = KeyOf[e[1]] => d = e

(* Every effect was paid for: by an unshared capability issued for exactly *)
(* that intent, by the approval it needs, and within every rule's budget   *)
(* (authorization.py:180-208, policy.py:454-503).                          *)
EffectsArePaidFor ==
    /\ \A e \in Done :
          /\ granted[e[2]] = e[1] /\ e[2] \in nonces
          /\ e[1] \in NeedsApproval => basis[e[2]] \in consumed /\ Approves[basis[e[2]]] = e[1]
    /\ \A r \in DOMAIN Limit : Cardinality({e \in Done : r \in Matching[e[1]]}) <= Limit[r]

(* What callers were told of a key is true and stays true: at most one     *)
(* verdict per key, "effected" only once the effect and its receipt are    *)
(* there, and nothing ever happens under a key that was refused            *)
(* (executor.py:367-430).                                                  *)
AnswersAreTrue ==
    \A k \in Key :
        /\ Cardinality(answers[k]) <= 1
        /\ "effected" \in answers[k] => k \in Happened /\ rows[k].outcome = "effected"
        /\ "refused" \in answers[k] => k \notin Happened

(* A settled row is never written again: not by the first holder of an     *)
(* expired lease that comes back, nor by a store failure (executor.py:179, *)
(* 198).                                                                   *)
SettledIsFinal ==
    [][\A k \in Key : rows[k].state \in {"completed", "indeterminate"} => rows'[k] = rows[k]]_vars

-----------------------------------------------------------------------------
FateOf(row) ==
    CASE row.state = "absent"        -> "open"
      [] row.state = "pending"       -> "claimed"
      [] row.state = "completed"     -> row.outcome
      [] row.state = "indeterminate" -> "unknown"

Promise == INSTANCE OnceOnly WITH fate <- [k \in Key |-> FateOf(rows[k])], happened <- Happened

(* Leases, callers, capabilities and nonces add up to one settlement per   *)
(* key.                                                                    *)
ImplementsOnceOnly == Promise!Spec
=============================================================================
