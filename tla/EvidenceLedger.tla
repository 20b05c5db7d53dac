---------------------------- MODULE EvidenceLedger ----------------------------
(***************************************************************************)
(* The evidence ledger of ledger.py: an append-only table whose rows are   *)
(* chained by digests, the head of the chain, and an outbox of heads to be *)
(* anchored outside.  An append writes all three in one transaction that   *)
(* holds the write lock from its first read (BEGIN IMMEDIATE).             *)
(***************************************************************************)
EXTENDS Naturals, Sequences

CONSTANTS
    Run,                  \* controller runs
    Evidence,             \* events that controllers record: type, run and verdict
    MaxEvents,            \* bound on the length of the ledger
    Anchorer, AnchorerId, \* anchor worker processes and their worker_id
    AnchorLimit,          \* heads a drain claims
    MaxAnchorFaults

ASSUME LedgerAssumption ==
    /\ MaxEvents \in Nat /\ AnchorLimit \in Nat \ {0}
    /\ \A e \in Evidence : e.type # "memory.promoted" /\ e.run \in Run

VARIABLES
    log, head,                                  \* ledger_events, ledger_head
    heads, headRow, anchoring, anchored, anchorFaults   \* ledger_anchor_outbox and its workers

ledger  == <<log, head>>
anchors == <<heads, headRow, anchoring, anchored, anchorFaults>>

Position == 1..MaxEvents     \* sequence; it stands for the event hash, which is as unique

Anchors == INSTANCE LeasedOutbox WITH
    Item <- Position, Process <- Anchorer, IdOf <- AnchorerId, Limit <- AnchorLimit,
    MaxFaults <- MaxAnchorFaults, count <- heads, row <- headRow, drain <- anchoring,
    taken <- anchored, faults <- anchorFaults

Genesis == <<>>
Digest(e, parent) == <<e, parent>>     \* no two contents have one digest

LedgerInit == log = <<>> /\ head = Genesis /\ Anchors!OutboxInit

Event(e, parent) == [content |-> e, parent |-> parent, hash |-> Digest(e, parent)]

AppendUnanchored(e) ==     \* mutant: the outbox row is not written
    /\ Len(log) < MaxEvents
    /\ log' = Append(log, Event(e, head))
    /\ head' = Digest(e, head)
    /\ UNCHANGED anchors

AppendEvent(e) ==
    /\ Len(log) < MaxEvents
    /\ log' = Append(log, Event(e, head))
    /\ head' = Digest(e, head)
    /\ Anchors!Request(Len(log) + 1)

(* A controller records what its verifiers found.                          *)
Record(e) == AppendEvent(e)

AnchorWork == Anchors!Work /\ UNCHANGED ledger

(* verify_chain() walks the rows from the first.                           *)
VerifyChain ==
    LET Before(k) == IF k = 1 THEN Genesis ELSE log[k - 1].hash
    IN  /\ \A k \in 1..Len(log) :
              log[k].parent = Before(k) /\ log[k].hash = Digest(log[k].content, Before(k))
        /\ head = Before(Len(log) + 1)
=============================================================================
