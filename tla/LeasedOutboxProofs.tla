-------------------------- MODULE LeasedOutboxProofs --------------------------
(***************************************************************************)
(* The leased outbox keeps the promise of AtLeastOnce, for any items,      *)
(* processes, worker ids, batch sizes and number of faults.                *)
(***************************************************************************)
EXTENDS LeasedOutbox, TLAPS

Owners   == {IdOf[p] : p \in Process} \cup {Nobody}
States   == {"absent", "pending", "leased", "delivered"}
Requested == {i \in Item : row[i].state # "absent"}

TypeOK ==
    /\ count \in Nat
    /\ row \in [Item -> [state : States, place : Nat, owner : Owners, lapsed : BOOLEAN]]
    /\ drain \in [Process -> [todo : SUBSET Item, due : {"publish", "complete", "release"}]]

(* Rows have places of their own, so that one item of a drain is the next. *)
Ordered ==
    /\ \A i \in Requested : row[i].place <= count
    /\ \A i, j \in Requested : row[i].place = row[j].place => i = j

(* What a process is about to acknowledge and what is delivered was taken, *)
(* and only what was requested is ever handled.                            *)
Known ==
    /\ \A p \in Process : drain[p].todo \subseteq Requested
    /\ \A p \in Process, i \in Item : Due(p, i, "complete") => i \in taken
    /\ DeliveredItems \subseteq taken
    /\ taken \subseteq Requested

Inv == TypeOK /\ Ordered /\ Known

USE DEF Row

LEMMA InitInv == OutboxInit => Inv
BY DEF OutboxInit, Inv, TypeOK, Ordered, Known, NoRow, Resting, Requested, States, Owners, Due, DeliveredItems

(* The next item of a drain is unique.                                     *)
LEMMA OneIsDue ==
    ASSUME Inv, NEW p \in Process, NEW i \in Item, NEW j \in Item, NEW a, NEW b,
           Due(p, i, a), Due(p, j, b)
    PROVE  i = j /\ a = b
<1>1. i \in drain[p].todo /\ j \in drain[p].todo /\ drain[p].due = a /\ drain[p].due = b BY DEF Due
<1>2. i \in Requested /\ j \in Requested BY <1>1 DEF Inv, Known
<1>3. ~(row[i].place < row[j].place) /\ ~(row[j].place < row[i].place) BY <1>1 DEF Due, Older
<1>4. row[i].place \in Nat /\ row[j].place \in Nat BY DEF Inv, TypeOK
<1>5. row[i].place = row[j].place BY <1>3, <1>4
<1> QED BY <1>1, <1>2, <1>5 DEF Inv, Ordered

(* A step that writes no new place and hands out nothing leaves the order, *)
(* and with it what is due where nothing moved.                            *)
SamePlaces == \A i \in Item : row'[i].place = row[i].place /\ (row'[i].state = "absent" <=> row[i].state = "absent")

LEMMA OrderKept ==
    ASSUME Inv, count' = count, SamePlaces
    PROVE  Ordered' /\ Requested' = Requested
<1>1. Requested' = Requested BY DEF SamePlaces, Requested
<1> QED BY <1>1 DEF SamePlaces, Inv, Ordered, Requested

LEMMA DueKept ==
    ASSUME Inv, SamePlaces, NEW p \in Process, drain'[p] = drain[p], NEW i \in Item, NEW a
    PROVE  Due(p, i, a)' <=> Due(p, i, a)
<1>1. drain[p].todo \subseteq Item BY DEF Inv, TypeOK
<1> QED BY <1>1 DEF Due, Older, SamePlaces

LEMMA InvStep == Inv /\ [OutboxNext]_outbox => Inv'
<1> SUFFICES ASSUME Inv, [OutboxNext]_outbox PROVE Inv' OBVIOUS
<1> USE DEF Inv
<1>1. CASE UNCHANGED outbox
  BY <1>1 DEF outbox, TypeOK, Ordered, Known, Requested, DeliveredItems, Due, Older
<1>2. ASSUME NEW i \in Item, Request(i) PROVE Inv'
  <2>1. TypeOK' BY <1>2 DEF Request, TypeOK, States, Owners
  <2>2. Requested' = Requested \cup {i} BY <1>2 DEF Request, TypeOK, Requested
  <2>3. Ordered' BY <1>2, <2>2 DEF Request, TypeOK, Ordered, Requested
  <2>4. i \notin Requested BY <1>2 DEF Request, Requested
  <2>5. ASSUME NEW p \in Process, NEW j \in Item, Due(p, j, "complete")' PROVE j \in taken'
    <3>1. drain'[p] = drain[p] /\ i \notin drain[p].todo /\ taken' = taken
      BY <1>2, <2>4 DEF Request, Known
    <3>2. \A k \in drain[p].todo : row'[k] = row[k] BY <1>2, <3>1 DEF Request, TypeOK
    <3>3. Due(p, j, "complete") BY <2>5, <3>1, <3>2 DEF Due, Older
    <3> QED BY <3>1, <3>3 DEF Known
  <2>6. DeliveredItems' = DeliveredItems BY <1>2 DEF Request, TypeOK, DeliveredItems
  <2>7. Known' BY <1>2, <2>2, <2>5, <2>6 DEF Request, Known
  <2> QED BY <2>1, <2>3, <2>7
<1>3. ASSUME NEW p \in Process, Claim(p) PROVE Inv'
  <2>1. Claimed \subseteq Claimable /\ Claimable \subseteq Item BY DEF Claimed, Claimable
  <2>2. /\ TypeOK' /\ SamePlaces /\ count' = count
        /\ DeliveredItems' = DeliveredItems /\ Claimed \subseteq Requested
    BY <1>3, <2>1 DEF Claim, TypeOK, SamePlaces, Leased, Claimable, States, Owners, DeliveredItems, Requested
  <2>3. Ordered' /\ Requested' = Requested BY <2>2, OrderKept
  <2>4. ASSUME NEW q \in Process, NEW j \in Item, Due(q, j, "complete")' PROVE j \in taken'
    <3>1. CASE q = p
      <4>1. drain'[p].due = "publish" BY <1>3 DEF Claim, TypeOK
      <4> QED BY <2>4, <3>1, <4>1 DEF Due
    <3>2. CASE q # p
      <4>1. drain'[q] = drain[q] BY <1>3, <3>2 DEF Claim, TypeOK
      <4>2. Due(q, j, "complete") BY <2>2, <2>4, <4>1, DueKept
      <4> QED BY <1>3, <4>2 DEF Claim, Known
    <3> QED BY <3>1, <3>2
  <2>5. Known' BY <1>3, <2>2, <2>3, <2>4 DEF Claim, Known, TypeOK
  <2> QED BY <2>2, <2>3, <2>5
<1>4. ASSUME NEW p \in Process, NEW i \in Item, Publish(p, i) \/ PublishRaises(p, i) PROVE Inv'
  <2>1. /\ TypeOK' /\ SamePlaces /\ count' = count /\ DeliveredItems' = DeliveredItems
        /\ taken \subseteq taken' /\ taken' \subseteq taken \cup {i}
    BY <1>4 DEF Publish, PublishRaises, Then, TypeOK, SamePlaces, DeliveredItems
  <2>2. Ordered' /\ Requested' = Requested BY <2>1, OrderKept
  <2>3. drain[p].todo \subseteq Requested /\ i \in drain[p].todo
    BY <1>4 DEF Publish, PublishRaises, Due, Known
  <2>4. ASSUME NEW q \in Process, NEW j \in Item, Due(q, j, "complete")' PROVE j \in taken'
    <3>1. CASE q = p
      <4>1. drain'[p].todo = drain[p].todo /\ drain'[p].due \in {"complete", "release"}
        BY <1>4 DEF Publish, PublishRaises, Then, TypeOK
      <4>2. drain'[p].due = "complete" BY <2>4, <3>1 DEF Due
      <4>3. Publish(p, i) BY <1>4, <4>2 DEF PublishRaises, Then, TypeOK
      <4>4. drain[p].todo \subseteq Item BY DEF TypeOK
      <4>5. Due(p, j, "publish") BY <2>1, <2>4, <3>1, <4>1, <4>3, <4>4 DEF Due, Older, SamePlaces, Publish
      <4>6. Due(p, i, "publish") BY <4>3 DEF Publish
      <4>7. j = i BY <4>5, <4>6, OneIsDue
      <4> QED BY <4>3, <4>7 DEF Publish
    <3>2. CASE q # p
      <4>1. drain'[q] = drain[q] BY <1>4, <3>2 DEF Publish, PublishRaises, Then, TypeOK
      <4>2. Due(q, j, "complete") BY <2>1, <2>4, <4>1, DueKept
      <4> QED BY <2>1, <4>2 DEF Known
    <3> QED BY <3>1, <3>2
  <2>5. \A q \in Process : drain'[q].todo = drain[q].todo
    BY <1>4 DEF Publish, PublishRaises, Then, TypeOK
  <2>6. Known' BY <2>1, <2>2, <2>3, <2>4, <2>5 DEF Known
  <2> QED BY <2>1, <2>2, <2>6
<1>5. ASSUME NEW p \in Process, NEW i \in Item, Acknowledge(p, i) \/ LeaseLost(p, i) \/ Release(p, i) PROVE Inv'
  <2>1. /\ TypeOK' /\ SamePlaces /\ count' = count /\ taken' = taken
        /\ drain'[p].due # "complete" /\ drain'[p].todo \subseteq drain[p].todo
        /\ \A q \in Process \ {p} : drain'[q] = drain[q]
    <3>1. CASE Acknowledge(p, i)
      BY <3>1 DEF Acknowledge, Forward, Holds, Delivered, TypeOK, SamePlaces, States, Owners
    <3>2. CASE LeaseLost(p, i) BY <3>2 DEF LeaseLost, Then, TypeOK, SamePlaces
    <3>3. CASE Release(p, i)
      <4>1. CASE Holds(p, i)
        BY <3>3, <4>1 DEF Release, Forward, Holds, Pending, TypeOK, SamePlaces, States, Owners
      <4>2. CASE ~Holds(p, i) BY <3>3, <4>2 DEF Release, Forward, TypeOK, SamePlaces
      <4> QED BY <4>1, <4>2
    <3> QED BY <1>5, <3>1, <3>2, <3>3
  <2>2. Ordered' /\ Requested' = Requested BY <2>1, OrderKept
  <2>3. DeliveredItems' \subseteq taken
    <3>1. ASSUME NEW j \in Item, row'[j].state = "delivered" PROVE j \in taken
      <4>1. CASE row[j].state = "delivered" BY <4>1 DEF Known, DeliveredItems
      <4>2. CASE row[j].state # "delivered"
        <5>1. Acknowledge(p, i) /\ j = i
          BY <1>5, <3>1, <4>2 DEF Acknowledge, LeaseLost, Release, Pending, Delivered, TypeOK
        <5> QED BY <5>1 DEF Acknowledge, Known
      <4> QED BY <4>1, <4>2
    <3> QED BY <3>1 DEF DeliveredItems
  <2>4. ASSUME NEW q \in Process, NEW j \in Item, Due(q, j, "complete")' PROVE j \in taken'
    <3>1. q # p BY <2>1, <2>4 DEF Due
    <3>2. Due(q, j, "complete") BY <2>1, <2>4, <3>1, DueKept
    <3> QED BY <2>1, <3>2 DEF Known
  <2>5. \A q \in Process : drain'[q].todo \subseteq drain[q].todo BY <2>1
  <2>6. Known' BY <2>1, <2>2, <2>3, <2>4, <2>5 DEF Known
  <2> QED BY <2>1, <2>2, <2>6
<1>6. ASSUME NEW p \in Process, Die(p) PROVE Inv'
  <2>1. /\ TypeOK' /\ SamePlaces /\ count' = count /\ taken' = taken /\ DeliveredItems' = DeliveredItems
        /\ drain'[p] = Resting /\ \A q \in Process \ {p} : drain'[q] = drain[q]
    BY <1>6 DEF Die, Resting, TypeOK, SamePlaces, DeliveredItems
  <2>2. Ordered' /\ Requested' = Requested BY <2>1, OrderKept
  <2>3. ASSUME NEW q \in Process, NEW j \in Item, Due(q, j, "complete")' PROVE j \in taken'
    <3>1. q # p BY <2>1, <2>3 DEF Due, Resting
    <3>2. Due(q, j, "complete") BY <2>1, <2>3, <3>1, DueKept
    <3> QED BY <2>1, <3>2 DEF Known
  <2>4. \A q \in Process : drain'[q].todo \subseteq drain[q].todo BY <2>1 DEF Resting
  <2>5. Known' BY <2>1, <2>2, <2>3, <2>4 DEF Known
  <2> QED BY <2>1, <2>2, <2>5
<1>7. ASSUME NEW i \in Item, Lapse(i) PROVE Inv'
  <2>1. /\ TypeOK' /\ SamePlaces /\ count' = count /\ taken' = taken /\ drain' = drain
        /\ DeliveredItems' = DeliveredItems
    BY <1>7 DEF Lapse, TypeOK, SamePlaces, DeliveredItems
  <2>2. Ordered' /\ Requested' = Requested BY <2>1, OrderKept
  <2>3. \A q \in Process, j \in Item : Due(q, j, "complete")' => j \in taken'
    BY <2>1, DueKept DEF Known
  <2>4. Known' BY <2>1, <2>2, <2>3 DEF Known
  <2> QED BY <2>1, <2>2, <2>4
<1> QED BY <1>1, <1>2, <1>3, <1>4, <1>5, <1>6, <1>7 DEF OutboxNext, Work, Handle

THEOREM Invariance == OutboxSpec => []Inv
BY InitInv, InvStep, PTL DEF OutboxSpec

(* Every step of the outbox asks for an item, hands one to the service,    *)
(* settles one that was handed over, or is none of the promise's business. *)
THEOREM Delivery == OutboxSpec => DeliversAtLeastOnce
<1>1. OutboxInit => Promise!Init
  BY DEF OutboxInit, Promise!Init, DeliveredItems, NoRow
<1>2. Inv /\ [OutboxNext]_outbox => [Promise!Next]_(Promise!vars)
  <2> SUFFICES ASSUME Inv, [OutboxNext]_outbox PROVE [Promise!Next]_(Promise!vars) OBVIOUS
  <2> USE DEF Inv
  <2>1. CASE UNCHANGED outbox BY <2>1 DEF outbox, Promise!vars, DeliveredItems
  <2>2. ASSUME NEW i \in Item, Request(i) PROVE Promise!Want(i)
    BY <2>2 DEF Request, Promise!Want, TypeOK, DeliveredItems
  <2>3. ASSUME NEW p \in Process, NEW i \in Item, Publish(p, i) \/ PublishRaises(p, i)
        PROVE  Promise!Take(i) \/ UNCHANGED Promise!vars
    <3>1. row' = row /\ taken' \in {taken, taken \cup {i}} BY <2>3 DEF Publish, PublishRaises
    <3>2. i \in Requested BY <2>3 DEF Publish, PublishRaises, Due, Known
    <3>3. DeliveredItems' = DeliveredItems BY <3>1 DEF DeliveredItems
    <3> QED BY <3>1, <3>2, <3>3 DEF Promise!Take, Promise!vars, Requested
  <2>4. ASSUME NEW p \in Process, NEW i \in Item, Acknowledge(p, i) PROVE Promise!Settle(i)
    <3>1. i \in taken /\ i \notin DeliveredItems BY <2>4 DEF Acknowledge, Known, Holds, DeliveredItems
    <3>2. DeliveredItems' = DeliveredItems \cup {i} BY <2>4 DEF Acknowledge, TypeOK, DeliveredItems, Delivered
    <3>3. Requested' = Requested BY <2>4 DEF Acknowledge, Holds, TypeOK, Requested, Delivered
    <3> QED BY <2>4, <3>1, <3>2, <3>3 DEF Acknowledge, Promise!Settle, Requested
  <2>5. ASSUME NEW p \in Process,
               \/ Claim(p) \/ Die(p)
               \/ \E i \in Item : LeaseLost(p, i) \/ Release(p, i)
        PROVE  UNCHANGED Promise!vars
    <3>1. taken' = taken BY <2>5 DEF Claim, Die, LeaseLost, Release
    <3>2. \A j \in Item : /\ row'[j].state = "absent" <=> row[j].state = "absent"
                          /\ row'[j].state = "delivered" <=> row[j].state = "delivered"
      <4>1. CASE Claim(p)
        <5>1. Claimed \subseteq Claimable BY DEF Claimed
        <5> QED BY <4>1, <5>1 DEF Claim, Claimable, Leased, TypeOK
      <4>2. CASE Die(p) BY <4>2 DEF Die
      <4>3. ASSUME NEW i \in Item, LeaseLost(p, i) PROVE row' = row BY <4>3 DEF LeaseLost
      <4>4. ASSUME NEW i \in Item, Release(p, i), NEW j \in Item
            PROVE  /\ row'[j].state = "absent" <=> row[j].state = "absent"
                   /\ row'[j].state = "delivered" <=> row[j].state = "delivered"
        <5>1. CASE Holds(p, i) BY <4>4, <5>1 DEF Release, Holds, Pending, TypeOK
        <5>2. CASE ~Holds(p, i) BY <4>4, <5>2 DEF Release
        <5> QED BY <5>1, <5>2
      <4> QED BY <2>5, <4>1, <4>2, <4>3, <4>4
    <3> QED BY <3>1, <3>2 DEF Promise!vars, DeliveredItems
  <2>6. ASSUME NEW i \in Item, Lapse(i) PROVE UNCHANGED Promise!vars
    BY <2>6 DEF Lapse, TypeOK, Promise!vars, DeliveredItems
  <2> QED BY <2>1, <2>2, <2>3, <2>4, <2>5, <2>6 DEF OutboxNext, Work, Handle, Promise!Next
<1> QED BY <1>1, <1>2, Invariance, PTL DEF OutboxSpec, DeliversAtLeastOnce, Promise!Spec
=============================================================================
