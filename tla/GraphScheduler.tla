---------------------------- MODULE GraphScheduler ----------------------------
(***************************************************************************)
(* DurableGraphScheduler (graph_runtime.py) with its event store           *)
(* (graph_events.py) and the signed completions it accepts                 *)
(* (attestations.py).  Each operation of the scheduler is one SQLite       *)
(* BEGIN IMMEDIATE ... COMMIT: it reads the state row, asks the monitor,   *)
(* appends one causal event and writes the row back, or rolls all of it    *)
(* back.  So every operation is one atomic step here, a rejected call is   *)
(* no step, and a crash between two operations loses nothing but the       *)
(* caller's intention to make the next one.                                *)
(*                                                                         *)
(* An Instance is a (run_id, iteration) pair: the key of a state row for   *)
(* one manifest.  node_instance_id is a digest of run, graph, node,        *)
(* iteration and attempt; it is the triple <<instance, node, attempt>>.    *)
(***************************************************************************)
EXTENDS TransitionMonitor

CONSTANTS
    Instance,            \* (run, iteration) pairs
    Role,                \* node -> the producer role that owns it
    VerifierConfigured,  \* completion_verifier is not None
    CallerPayload,       \* payloads callers bring to advance and reserve
    Override,            \* payloads handed to advance together with a completion
    Completion           \* completions the producers may come to sign

Internal == {"controller", "scheduler"}
Results  == {"succeeded", "failed", "indeterminate"}

CompletionType ==
    [instance : Instance, node : Node, attempt : Nat, role : {Role[n] : n \in Node},
     result : Results, facts : Payload]

ASSUME SchedulerAssumption ==
    /\ DOMAIN Role = Node
    /\ VerifierConfigured \in BOOLEAN
    /\ CallerPayload \subseteq Payload
    /\ \A over \in Override : DOMAIN over \subseteq Field /\ \A f \in DOMAIN over : over[f] \in Value
    /\ Completion \subseteq CompletionType
    /\ Results \subseteq Value

VARIABLES
    completed,  \* instance -> nodes completed
    events,     \* instance -> node -> the payload it left, or NoFacts
    reserved,   \* instance -> node -> attempt of its open reservation, or 0
    attempts,   \* instance -> node -> attempts counted so far
    trace,      \* rows of graph_events
    issued,     \* completions signed by some producer
    lapsed      \* completions past their validity

state  == <<completed, events, reserved, attempts>>
wire   == <<issued, lapsed>>
vars   == <<completed, events, reserved, attempts, trace, issued, lapsed>>

Started(i) == {n \in Node : reserved[i][n] # 0}

Init ==
    /\ completed = [i \in Instance |-> {}]
    /\ events    = [i \in Instance |-> [n \in Node |-> NoFacts]]
    /\ reserved  = [i \in Instance |-> [n \in Node |-> 0]]
    /\ attempts  = [i \in Instance |-> [n \in Node |-> 0]]
    /\ trace     = {}
    /\ issued    = {}
    /\ lapsed    = {}

Row(i, n, a, kind, p) == [instance |-> i, node |-> n, attempt |-> a, kind |-> kind, payload |-> p]

MarkCompleted(i, n, p) ==
    /\ completed' = [completed EXCEPT ![i] = @ \cup {n}]
    /\ events'    = [events EXCEPT ![i][n] = p]

(* advance(): the direct transition of a node the scheduler itself may     *)
(* move.  Without a completion verifier every role is treated that way.    *)
Advance(i, n, p) ==
    /\ VerifierConfigured => Role[n] \in Internal
    /\ Enabled(n, completed[i], Started(i), events[i], p)
    /\ MarkCompleted(i, n, p)
    /\ attempts' = [attempts EXCEPT ![i][n] = @ + 1]
    /\ trace'    = trace \cup {Row(i, n, attempts[i][n] + 1, "advanced", p)}
    /\ UNCHANGED <<reserved, wire>>

(* reserve(): opens a node for its producer.  It asks for no role.         *)
Reserve(i, n, p) ==
    /\ Enabled(n, completed[i], Started(i), events[i], p)
    /\ reserved' = [reserved EXCEPT ![i][n] = attempts[i][n] + 1]
    /\ attempts' = [attempts EXCEPT ![i][n] = @ + 1]
    /\ trace'    = trace \cup {Row(i, n, attempts[i][n] + 1, "started", p)}
    /\ UNCHANGED <<completed, events, wire>>

(* CompletionSigner.issue: a producer that was told of a reservation signs *)
(* its outcome, in the role it has, any number of times; what it signed    *)
(* and nobody used stays around as a duplicate or a late answer.           *)
Issue(c) ==
    /\ reserved[c.instance][c.node] = c.attempt /\ c.attempt # 0
    /\ c \notin issued
    /\ issued' = issued \cup {c}
    /\ UNCHANGED <<state, trace, lapsed>>

(* expires_at passes, or the producer's identity stops being active; only  *)
(* worth a step while the reservation is open, as only then c is looked at.*)
Lapse(c) ==
    /\ c \in issued \ lapsed
    /\ reserved[c.instance][c.node] = c.attempt
    /\ lapsed' = lapsed \cup {c}
    /\ UNCHANGED <<state, trace, issued>>

ValidForAnyRole(c, i, n) ==     \* mutant: the producer's role is not compared
    /\ c \in issued \ lapsed
    /\ <<c.instance, c.node, c.attempt>> = <<i, n, reserved[i][n]>>

(* CompletionVerifier.validate against the reservation that is open.       *)
Valid(c, i, n) ==
    /\ c \in issued \ lapsed
    /\ <<c.instance, c.node, c.attempt>> = <<i, n, reserved[i][n]>>
    /\ c.role = Role[n]

Decoded(v) == IF v = "true" THEN "True" ELSE IF v = "false" THEN "False" ELSE v

(* The facts a completion leaves in the state: the signed ones, `passed`   *)
(* decoded, `result` and `success` derived from the signed result, and on  *)
(* top of them whatever payload the caller handed over.                    *)
Attested(c) ==
    [f \in Field |-> CASE f = "success" -> IF c.result = "succeeded" THEN "True" ELSE "False"
                       [] f = "result"  -> c.result
                       [] f = "passed"  -> Decoded(c.facts[f])
                       [] OTHER         -> c.facts[f]]

CallersOnly(c, over) == over    \* mutant: the signed facts are not merged in

Merged(c, over) == [f \in Field |-> IF f \in DOMAIN over THEN over[f] ELSE Attested(c)[f]]

(* _complete_direct: complete() calls it with no payload, advance() of an  *)
(* externally owned node with the caller's.  The monitor's `complete` asks *)
(* only for the reservation, whose prerequisites were checked when it was  *)
(* made.                                                                   *)
CompleteDirect(i, n, c, over) ==
    /\ VerifierConfigured
    /\ DOMAIN over # {} => Role[n] \notin Internal
    /\ reserved[i][n] # 0
    /\ Valid(c, i, n)
    /\ MarkCompleted(i, n, Merged(c, over))
    /\ reserved' = [reserved EXCEPT ![i][n] = 0]
    /\ trace'    = trace \cup {Row(i, n, reserved[i][n], "completed", Merged(c, over))}
    /\ UNCHANGED <<attempts, wire>>

Next ==
    \/ \E i \in Instance, n \in Node, p \in CallerPayload : Advance(i, n, p)
    \/ \E i \in Instance, n \in Node, p \in CallerPayload : Reserve(i, n, p)
    \/ \E c \in Completion : Issue(c)
    \/ \E c \in Completion : Lapse(c)
    \/ \E i \in Instance, n \in Node, c \in Completion, over \in Override : CompleteDirect(i, n, c, over)

Spec == Init /\ [][Next]_vars

-------------------------------------------------------------------------------
(* Shapes of the state, the one type invariant of the component.           *)
TypeOK ==
    /\ completed \in [Instance -> SUBSET Node]
    /\ events \in [Instance -> [Node -> Payload \cup {NoFacts}]]
    /\ reserved \in [Instance -> [Node -> Nat]]
    /\ attempts \in [Instance -> [Node -> Nat]]
    /\ trace \subseteq [instance : Instance, node : Node, attempt : Nat,
                        kind : {"advanced", "started", "completed"}, payload : Payload]
    /\ issued \subseteq Completion
    /\ lapsed \subseteq issued

(* The two halves of a state row agree: exactly the completed nodes left   *)
(* facts, a node is never both open and completed, and a node was          *)
(* attempted once if it is open or completed and not at all otherwise.     *)
StateCoherent ==
    \A i \in Instance :
        /\ completed[i] = {n \in Node : events[i][n] # NoFacts}
        /\ Started(i) \cap completed[i] = {}
        /\ \A n \in Node :
              /\ attempts[i][n] = (IF n \in Started(i) \cup completed[i] THEN 1 ELSE 0)
              /\ reserved[i][n] \in {0, attempts[i][n]}

(* Whatever has started rests on facts that are in the state now: every    *)
(* open or completed node is still supported by its predecessors' own      *)
(* facts, whatever its producer or its caller later brought.  The monitor  *)
(* checks this once, when the node starts, against a state that other      *)
(* callers go on changing while the producer works.                        *)
CausallyJustified ==
    \A i \in Instance : \A n \in Started(i) \cup completed[i] :
        \A p \in CallerPayload : Supported(n, completed[i], events[i], p)

(* Facts are final: no later call, duplicate completion or second          *)
(* reservation changes what a completed node left or takes it back.        *)
FactsAreFinal ==
    [][\A i \in Instance : \A n \in completed[i] :
          n \in completed'[i] /\ events'[i][n] = events[i][n]]_vars

(* The event log accounts for the state: the facts of every completed node *)
(* are those of exactly one completing row, and a row completed on a       *)
(* producer's word follows a row that reserved that very instance.         *)
Completing(i, n) == {r \in trace : r.instance = i /\ r.node = n /\ r.kind # "started"}
Starting(i, n)   == {r \in trace : r.instance = i /\ r.node = n /\ r.kind = "started"}

Accounted(i, n) ==
    /\ n \in completed[i] => \E r \in Completing(i, n) :
                                 Completing(i, n) = {r} /\ r.payload = events[i][n]
    /\ n \notin completed[i] => Completing(i, n) = {}
    /\ \A r \in Completing(i, n) :
          r.kind = "completed" => \E s \in Starting(i, n) : s.attempt = r.attempt

TraceAccountsForState == \A i \in Instance, n \in Node : Accounted(i, n)

(* An externally owned node that is completed carries the facts its owner  *)
(* signed for that instance, and nothing the controller added to them.     *)
FactsAreAttested ==
    VerifierConfigured =>
        \A i \in Instance : \A n \in completed[i] :
            Role[n] \notin Internal =>
                \E c \in issued : /\ <<c.instance, c.node, c.role>> = <<i, n, Role[n]>>
                                  /\ events[i][n] = Attested(c)

(* The scheduler implements CausalOrder: whatever reservations, duplicate, *)
(* late or lapsed completions happen in between, a node's facts enter the  *)
(* state once, and only where the manifest supports the node at that very  *)
(* moment, not only when it was reserved.                                  *)
Outcome == [n \in Node |-> CallerPayload \cup {Merged(c, over) : c \in Completion, over \in Override}]

Promise == INSTANCE CausalOrder WITH left <- events

ImplementsCausalOrder == Promise!Spec
=============================================================================
