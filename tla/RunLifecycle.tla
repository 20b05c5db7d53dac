----------------------------- MODULE RunLifecycle -----------------------------
(***************************************************************************)
(* What a durable run promises whoever watches its checkpoint: the phases  *)
(* of RunPhase and the order they come in, with the intent and the budget  *)
(* each carries.  There are no controllers, graph, executor or crashes     *)
(* here; whatever those do, the run moves like this.                       *)
(***************************************************************************)
EXTENDS Naturals

CONSTANTS Intent, NoIntent, MaxIterations, MaxToolCalls

VARIABLES
    phase,     \* RunPhase of the checkpoint, "none" before the first
    round,     \* next_iteration
    calls,     \* tool_calls
    pending,   \* the intent the run is committed to, or NoIntent
    decision   \* the terminal decision, or "none"

vars == <<phase, round, calls, pending, decision>>

Init == phase = "none" /\ round = 1 /\ calls = 0 /\ pending = NoIntent /\ decision = "none"

Goes(from, to) == phase \in from /\ phase' = to

Begin == Goes({"none"}, "ready") /\ UNCHANGED <<round, calls, pending, decision>>

Commit ==        \* an intent is persisted before anyone may authorise it
    /\ Goes({"ready"}, "pending-authorization")
    /\ round <= MaxIterations /\ calls < MaxToolCalls
    /\ pending' \in Intent
    /\ UNCHANGED <<round, calls, decision>>

Wait ==          \* for an approval, with the very same intent
    /\ Goes({"pending-authorization", "awaiting-approval"}, "awaiting-approval")
    /\ UNCHANGED <<round, calls, pending, decision>>

Act ==           \* the effect of that intent may happen from here on
    /\ Goes({"pending-authorization", "awaiting-approval"}, "pending-effect")
    /\ calls' = calls + 1
    /\ UNCHANGED <<round, pending, decision>>

Doubt ==         \* somebody else found the effect under way
    /\ Goes({"pending-effect"}, "reconciliation-required")
    /\ UNCHANGED <<round, calls, pending, decision>>

Reconcile ==
    /\ Goes({"reconciliation-required"}, "reconciled-effect")
    /\ UNCHANGED <<round, calls, pending, decision>>

Advance ==       \* the effect's outcome is known and judged: next round
    /\ Goes({"pending-effect", "reconciled-effect"}, "ready")
    /\ round' = round + 1
    /\ pending' = NoIntent
    /\ UNCHANGED <<calls, decision>>

End(d) ==
    /\ phase' = "terminal" /\ phase # "none"
    /\ decision' = d
    /\ d = "accept" => phase \in {"pending-effect", "reconciled-effect"}
    /\ phase # "terminal"
    /\ pending' = NoIntent
    /\ UNCHANGED <<round, calls>>

Next == Begin \/ Commit \/ Wait \/ Act \/ Doubt \/ Reconcile \/ Advance
            \/ \E d \in {"accept", "stop", "escalate"} : End(d)

Spec == Init /\ [][Next]_vars

=============================================================================
