---------------------------- MODULE VerifiedMemory ----------------------------
(***************************************************************************)
(* The memory ledger of memory.py and the services around it.  A memory    *)
(* enters on the strength of events of the evidence ledger, which is       *)
(* another database: its promotion is first recorded there, then the       *)
(* record, the supersession of an older one and the projection request     *)
(* commit together here, and a process may die in between.  A projection   *)
(* worker copies records into an external index, and retrieval asks that   *)
(* index for ids only.                                                     *)
(***************************************************************************)
EXTENDS EvidenceLedger

CONSTANTS
    Memory,              \* memory ids
    Projectable,         \* memories whose sensitivity may leave for the index
    Expiring,            \* memories with an expires_at
    Readable,            \* memories in a scope and sensitivity the readers are authorized for
    Committer,           \* processes that insert
    Reader,              \* processes that retrieve
    Projector, ProjectorId, ProjectLimit, MaxProjectFaults   \* the index's workers

NoMemory == "no memory"

ASSUME MemoryAssumption == Projectable \subseteq Memory /\ Readable \subseteq Memory /\ Expiring \subseteq Memory /\ NoMemory \notin Memory

VARIABLES
    store,       \* memory_records: id -> record
    expired,     \* memories whose expires_at has passed
    insert,      \* committer -> its insert() call
    recall,      \* reader -> its retrieve() call
    entries, entryRow, projecting, indexed, projectFaults   \* memory_index_outbox, _deliveries

memory  == <<store, expired, insert, recall>>
entryVars == <<entries, entryRow, projecting, indexed, projectFaults>>
vars == <<ledger, anchors, memory, entryVars>>

Projections == INSTANCE LeasedOutbox WITH
    Item <- Memory, Process <- Projector, IdOf <- ProjectorId, Limit <- ProjectLimit,
    MaxFaults <- MaxProjectFaults, count <- entries, row <- entryRow, drain <- projecting,
    taken <- indexed, faults <- projectFaults

NoRecord == [status |-> "absent", proof |-> 0, event |-> 0, supersedes |-> NoMemory]
NoInsert == [at |-> "idle", id |-> NoMemory, record |-> NoRecord]
NoRecall == [at |-> "idle", found |-> {}, answer |-> {}, dead |-> {}]

Init ==
    /\ LedgerInit /\ Projections!OutboxInit
    /\ store = [m \in Memory |-> NoRecord] /\ expired = {}
    /\ insert = [c \in Committer |-> NoInsert]
    /\ recall = [r \in Reader |-> NoRecall]

LiveStatus == {"verified", "diagnosed-failure"}
Live(m)    == store[m].status \in LiveStatus /\ m \notin expired
Dead       == {m \in Memory : store[m].status # "absent" /\ ~Live(m)}

Passing(e)   == e.type = "final-goal.completed" /\ e.verdict = "pass"
Diagnosing(e) == e.type = "verification.completed" /\ e.verdict = "fail"

(* _validate_attested_promotion: the cited events are known and of the     *)
(* run, and one of them proves what the status claims.                     *)
Proves(status, k) == IF status = "verified" THEN Passing(log[k].content) ELSE Diagnosing(log[k].content)

Attested(status, run, refs) ==
    /\ status \in LiveStatus
    /\ VerifyChain
    /\ refs \subseteq 1..Len(log)
    /\ \A k \in refs : log[k].content.run = run
    /\ \E k \in refs : Proves(status, k)

(* insert() with whatever a caller may pass.  The committer of a run that  *)
(* was accepted passes such of its events, and no memory to supersede; the *)
(* gate for failures passes a diagnosis.  Of the cited events the record   *)
(* keeps the one that counts.                                              *)
Insert(c) ==
    /\ insert[c].at = "idle"
    /\ \E m \in Memory, old \in Memory \cup {NoMemory}, status \in LiveStatus, run \in Run,
          refs \in SUBSET (1..Len(log)) :
          /\ Attested(status, run, refs)
          /\ \E k \in refs :
                /\ Proves(status, k)
                /\ insert' = [insert EXCEPT ![c] =
                      [at |-> "record", id |-> m,
                       record |-> [status |-> status, proof |-> k, event |-> 0, supersedes |-> old]]]
    /\ UNCHANGED <<ledger, anchors, store, expired, recall, entryVars>>

Promotion(m, run) == [type |-> "memory.promoted", run |-> run, verdict |-> m]
RunOf(r) == log[r.proof].content.run

RecordStale(c) ==     \* mutant: the record names the event before its promotion
    /\ insert[c].at = "record"
    /\ AppendEvent(Promotion(insert[c].id, RunOf(insert[c].record)))
    /\ insert' = [insert EXCEPT ![c].at = "store", ![c].record.event = Len(log)]
    /\ UNCHANGED <<store, expired, recall, entryVars>>

RecordPromotion(c) ==
    /\ insert[c].at = "record"
    /\ AppendEvent(Promotion(insert[c].id, RunOf(insert[c].record)))
    /\ insert' = [insert EXCEPT ![c].at = "store", ![c].record.event = Len(log) + 1]
    /\ UNCHANGED <<store, expired, recall, entryVars>>

(* The record and the supersession.  Superseding an id that is not stored  *)
(* changes nothing, then or later.                                         *)
Stored(m, new) ==
    [k \in Memory |->
        LET row == IF k = m THEN new ELSE store[k]
        IN  IF k = new.supersedes /\ row.status # "absent" THEN [row EXCEPT !.status = "superseded"] ELSE row]

StoreOver(c) ==     \* mutant: INSERT OR REPLACE
    LET m == insert[c].id IN
    /\ insert[c].at = "store"
    /\ store' = Stored(m, insert[c].record)
    /\ insert' = [insert EXCEPT ![c] = NoInsert]
    /\ UNCHANGED <<ledger, anchors, expired, recall, entryVars>>

Store(c) ==
    LET m == insert[c].id IN
    /\ insert[c].at = "store" /\ store[m].status = "absent"
    /\ store' = Stored(m, insert[c].record)
    /\ IF m \in Projectable THEN Projections!Request(m) ELSE UNCHANGED entryVars
    /\ insert' = [insert EXCEPT ![c] = NoInsert]
    /\ UNCHANGED <<ledger, anchors, expired, recall>>

(* The id is taken: the primary key refuses the row, and the promotion     *)
(* stays in the evidence ledger alone.  So it does when the process dies.  *)
Abandon(c) ==
    /\ insert[c].at \in {"record", "store"}
    /\ insert' = [insert EXCEPT ![c] = NoInsert]
    /\ UNCHANGED <<ledger, anchors, store, expired, recall, entryVars>>

Expire(m) ==
    /\ m \in Expiring \ expired
    /\ store[m].status # "absent"
    /\ expired' = expired \cup {m}
    /\ UNCHANGED <<ledger, anchors, store, insert, recall, entryVars>>

(* retrieve() is called (`dead` remembers what was dead by then), then it  *)
(* reads the records it may return...                                      *)
Call(r) ==
    /\ recall[r].at = "idle"
    /\ recall' = [recall EXCEPT ![r] = [at |-> "read", found |-> {}, answer |-> {}, dead |-> Dead]]
    /\ UNCHANGED <<ledger, anchors, store, expired, insert, entryVars>>

AuthorizedAnywhere == {m \in Memory : Live(m)}   \* mutant: the query names no scope
Authorized == {m \in Readable : Live(m)}

Read(r) ==
    /\ recall[r].at = "read"
    /\ recall' = [recall EXCEPT ![r].at = "search", ![r].found = Authorized]
    /\ UNCHANGED <<ledger, anchors, store, expired, insert, entryVars>>

(* ...and then asks its indexes, the external one for ids it may make up.  *)
RehydratedBlindly(ids, found) == ids     \* mutant: the index is believed
Rehydrated(ids, found) == ids \cap found

Search(r) ==
    /\ recall[r].at = "search"
    /\ \E hot \in SUBSET recall[r].found, ids \in SUBSET Memory :
          recall' = [recall EXCEPT ![r].at = "idle", ![r].found = {},
                                   ![r].answer = hot \cup Rehydrated(ids, recall[r].found)]
    /\ UNCHANGED <<ledger, anchors, store, expired, insert, entryVars>>

ProjectWork == Projections!Work /\ UNCHANGED <<ledger, anchors, memory>>

Next ==
    \/ \E e \in Evidence : Record(e) /\ UNCHANGED <<memory, entryVars>>
    \/ AnchorWork /\ UNCHANGED <<memory, entryVars>>
    \/ ProjectWork
    \/ \E c \in Committer : Insert(c) \/ RecordPromotion(c) \/ Store(c) \/ Abandon(c)
    \/ \E m \in Memory : Expire(m)
    \/ \E r \in Reader : Call(r) \/ Read(r) \/ Search(r)

Spec == Init /\ [][Next]_vars

(* Workers are run again and again, and a lease that was taken ends.       *)
FairSpec ==
    /\ Spec
    /\ \A p \in Anchorer  : WF_vars(Anchors!Onward(p) /\ UNCHANGED <<ledger, memory, entryVars>>)
    /\ \A p \in Projector : WF_vars(Projections!Onward(p) /\ UNCHANGED <<ledger, anchors, memory>>)
    /\ \A k \in Position  : WF_vars(Anchors!Lapse(k) /\ UNCHANGED <<ledger, memory, entryVars>>)
    /\ \A m \in Memory    : WF_vars(Projections!Lapse(m) /\ UNCHANGED <<ledger, anchors, memory>>)

-------------------------------------------------------------------------------
Records == [status : LiveStatus \cup {"absent", "superseded"}, proof : Nat, event : Nat,
            supersedes : Memory \cup {NoMemory}]

(* Every variable holds values of its kind.                                *)
TypeOK ==
    /\ Len(log) <= MaxEvents
    /\ heads = Len(log)
    /\ store \in [Memory -> Records]
    /\ expired \subseteq Memory
    /\ insert \in [Committer -> [at : {"idle", "record", "store"}, id : Memory \cup {NoMemory}, record : Records]]
    /\ \A r \in Reader : recall[r].found \subseteq Memory /\ recall[r].answer \subseteq Memory

(* The two databases agree: a stored memory has its promotion in the       *)
(* evidence ledger, appended before it was stored and after an event of    *)
(* the same run that proves it, whatever was inserted or died meanwhile.   *)
RecordsAreAttested ==
    \A m \in Memory : store[m].status # "absent" =>
        LET r == store[m] IN
        /\ r.event \in 1..Len(log) /\ log[r.event].content = Promotion(m, RunOf(r))
        /\ r.proof < r.event
        /\ Passing(log[r.proof].content) \/ Diagnosing(log[r.proof].content)

(* A record is never rewritten but to be superseded, and once superseded   *)
(* it stays so, even if its id is inserted again.                          *)
SupersededForGood ==
    [][\A m \in Memory : store[m].status # "absent" =>
          store'[m] \in {store[m], [store[m] EXCEPT !.status = "superseded"]}]_vars

(* Whatever ids the index answers with and whatever is inserted,           *)
(* superseded or expires during the call, retrieval returns records that   *)
(* the reader may see, and none that was dead when it was called: a dead   *)
(* record stays dead, and no index brings one back.                        *)
RecallIsCurrent == \A r \in Reader : recall[r].answer \subseteq Readable \ recall[r].dead

(* Both outboxes keep what AtLeastOnce promises: the anchor and the index  *)
(* are fed only what was committed for them, and nothing counts as         *)
(* delivered that they do not have.                                        *)
OutboxesDeliverAtLeastOnce == Anchors!DeliversAtLeastOnce /\ Projections!DeliversAtLeastOnce

(* Every head is anchored and every projectable record indexed in the end, *)
(* whatever workers die, publications raise and leases end early.          *)
NothingIsForgotten == Anchors!EverythingIsDelivered /\ Projections!EverythingIsDelivered
=============================================================================
