----------------------------- MODULE LeasedOutbox -----------------------------
(***************************************************************************)
(* The outbox that ledger.py keeps for its anchors and memory.py for each  *)
(* projection: rows that workers claim under a lease, publish one by one,  *)
(* and acknowledge or give back.  Every statement on the table is one      *)
(* transaction, hence one step; the publication between claim and          *)
(* acknowledgement is an outside call.  The two tables and their workers   *)
(* differ in names only; a memory's delivery row is written when a worker  *)
(* first looks for work, which a pending row stands for.                   *)
(*                                                                         *)
(* Nothing keeps two processes from running under one worker id, as a      *)
(* restarted worker and the one it replaces do: IdOf names the id.         *)
(***************************************************************************)
EXTENDS Naturals, FiniteSets

CONSTANTS
    Item,       \* what may have to be published
    Process,    \* worker processes
    IdOf,       \* process -> its worker_id
    Limit,      \* rows a drain claims at most
    MaxFaults   \* bound on the times something goes wrong

Nobody == "nobody"

VARIABLES
    count,    \* rows inserted so far
    row,      \* item -> its state, its place in the order of insertion and its lease
    drain,    \* process -> the rest of its drain: claimed items and what is due for the first
    taken,    \* items the outside service has
    faults    \* crashes, failed publications and leases that ended too early

outbox == <<count, row, drain, taken, faults>>

Row(state, place, owner) == [state |-> state, place |-> place, owner |-> owner, lapsed |-> FALSE]
NoRow         == Row("absent", 0, Nobody)
Pending(i)    == Row("pending", row[i].place, Nobody)
Delivered(i)  == Row("delivered", row[i].place, Nobody)
Leased(i, w)  == Row("leased", row[i].place, w)

Resting == [todo |-> {}, due |-> "publish"]

OutboxInit ==
    /\ count = 0
    /\ row = [i \in Item |-> NoRow]
    /\ drain = [p \in Process |-> Resting]
    /\ taken = {} /\ faults = 0

(* Written by the transaction that creates the item.                       *)
Request(i) ==
    /\ row[i].state = "absent"
    /\ count' = count + 1
    /\ row' = [row EXCEPT ![i] = Row("pending", count + 1, Nobody)]
    /\ UNCHANGED <<drain, taken, faults>>

Older(i, j) == row[i].place < row[j].place
ClaimableIfFree == {i \in Item : row[i].state = "pending"}   \* mutant: ended leases are not taken over

Claimable == {i \in Item : row[i].state = "pending" \/ (row[i].state = "leased" /\ row[i].lapsed)}

Claimed   == {i \in Claimable : Cardinality({j \in Claimable : Older(j, i)}) < Limit}

(* drain() claims the oldest rows that are free or whose lease has ended.  *)
Claim(p) ==
    /\ drain[p].todo = {} /\ Claimed # {}
    /\ row' = [i \in Item |-> IF i \in Claimed THEN Leased(i, IdOf[p]) ELSE row[i]]
    /\ drain' = [drain EXCEPT ![p] = [todo |-> Claimed, due |-> "publish"]]
    /\ UNCHANGED <<count, taken, faults>>

(* It then takes them one by one, the oldest first: item i of p is due for *)
(* publication, acknowledgement or release.                                *)
Due(p, i, what) ==
    /\ i \in drain[p].todo /\ drain[p].due = what
    /\ \A j \in drain[p].todo : ~Older(j, i)

Then(p, what) == drain' = [drain EXCEPT ![p].due = what]
Forward(p, i) == drain' = [drain EXCEPT ![p] = [todo |-> @.todo \ {i}, due |-> "publish"]]

Fault == faults < MaxFaults /\ faults' = faults + 1

Publish(p, i) ==
    /\ Due(p, i, "publish")
    /\ taken' = taken \cup {i}
    /\ Then(p, "complete")
    /\ UNCHANGED <<count, row, faults>>

PublishRaisesUnseen(p, i) ==     \* mutant: the exception is swallowed
    /\ Due(p, i, "publish")
    /\ taken' \in {taken, taken \cup {i}}
    /\ Then(p, "complete")
    /\ Fault
    /\ UNCHANGED <<count, row>>

(* A publication that raises may have reached the service all the same.    *)
PublishRaises(p, i) ==
    /\ Due(p, i, "publish")
    /\ taken' \in {taken, taken \cup {i}}
    /\ Then(p, "release")
    /\ Fault
    /\ UNCHANGED <<count, row>>

(* Acknowledging and releasing both name the owner, but not the lease's    *)
(* end: a lease that ran out is as good as new until somebody takes it.    *)
Holds(p, i) == row[i].state = "leased" /\ row[i].owner = IdOf[p]

Acknowledge(p, i) ==
    /\ Due(p, i, "complete") /\ Holds(p, i)
    /\ row' = [row EXCEPT ![i] = Delivered(i)]
    /\ Forward(p, i)
    /\ UNCHANGED <<count, taken, faults>>

LeaseLost(p, i) ==
    /\ Due(p, i, "complete") /\ ~Holds(p, i)
    /\ Then(p, "release")
    /\ UNCHANGED <<count, row, taken, faults>>

Release(p, i) ==
    /\ Due(p, i, "release")
    /\ row' = IF Holds(p, i) THEN [row EXCEPT ![i] = Pending(i)] ELSE row
    /\ Forward(p, i)
    /\ UNCHANGED <<count, taken, faults>>

(* A worker dies, or an exception of the store ends its drain.             *)
Die(p) ==
    /\ drain[p].todo # {}
    /\ drain' = [drain EXCEPT ![p] = Resting]
    /\ Fault
    /\ UNCHANGED <<count, row, taken>>

(* Time passes.  A lease that ends while its worker is still busy with it  *)
(* counts as a fault: leases are meant to be long enough.                  *)
Busy(i) == \E p \in Process : i \in drain[p].todo /\ row[i].owner = IdOf[p]

Lapse(i) ==
    /\ row[i].state = "leased" /\ ~row[i].lapsed
    /\ IF Busy(i) THEN Fault ELSE UNCHANGED faults
    /\ row' = [row EXCEPT ![i].lapsed = TRUE]
    /\ UNCHANGED <<count, drain, taken>>

Handle(p, i) == Publish(p, i) \/ Acknowledge(p, i) \/ LeaseLost(p, i) \/ Release(p, i)

Work ==
    \/ \E p \in Process :
          \/ Claim(p) \/ Die(p)
          \/ \E i \in Item : Handle(p, i) \/ PublishRaises(p, i)
    \/ \E i \in Item : Lapse(i)

OutboxNext == Work \/ \E i \in Item : Request(i)
OutboxSpec == OutboxInit /\ [][OutboxNext]_outbox

(* A drain that was called goes on, and is called again.  A publication    *)
(* that raises is no part of what must happen.                             *)
Onward(p) == Claim(p) \/ \E i \in Item : Handle(p, i)

-------------------------------------------------------------------------------
DeliveredItems == {i \in Item : row[i].state = "delivered"}

(* Crashes, lost leases, late acknowledgements and publications that raise *)
(* after all took place do not shake it: nothing counts as delivered that  *)
(* the service does not have, and no delivered row becomes work again.     *)
Promise == INSTANCE AtLeastOnce WITH
    wanted <- {i \in Item : row[i].state # "absent"}, taken <- taken, settled <- DeliveredItems

DeliversAtLeastOnce == Promise!Spec

(* Every item that was committed to the outbox is delivered in the end.    *)
EverythingIsDelivered == \A i \in Item : row[i].state # "absent" ~> row[i].state = "delivered"
=============================================================================
