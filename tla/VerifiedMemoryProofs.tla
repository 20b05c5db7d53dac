-------------------------- MODULE VerifiedMemoryProofs --------------------------
(***************************************************************************)
(* The evidence ledger stays chained, the memory ledger stays attested by  *)
(* it, superseded records stay superseded and retrieval returns nothing    *)
(* dead, for all events, memories, processes and outbox workers.           *)
(***************************************************************************)
EXTENDS VerifiedMemory, TLAPS

LogIsSequence == \E S : log \in Seq(S)

Tables ==
    /\ store \in [Memory -> Records]
    /\ insert \in [Committer -> [at : {"idle", "record", "store"}, id : Memory \cup {NoMemory}, record : Records]]

(* What a record rests on is in the evidence ledger: its proof, and once   *)
(* it was promoted its own promotion behind it.                            *)
Proven(r) == r.proof \in 1..Len(log) /\ (Passing(log[r.proof].content) \/ Diagnosing(log[r.proof].content))
Promoted(m, r) ==
    /\ Proven(r) /\ r.event \in 1..Len(log) /\ r.proof < r.event
    /\ log[r.event].content = Promotion(m, RunOf(r))

(* An insertion under way carries what it has found and appended so far.   *)
Inserting ==
    \A c \in Committer :
        LET w == insert[c] IN
        /\ w.at # "idle" => w.id \in Memory /\ w.record.status \in LiveStatus /\ Proven(w.record)
        /\ w.at = "store" => Promoted(w.id, w.record)

Storing == \A m \in Memory : store[m].status # "absent" => Promoted(m, store[m])

Recalling ==
    /\ recall \in [Reader -> [at : {"idle", "read", "search"}, found : SUBSET Memory, answer : SUBSET Memory,
                              dead : SUBSET Memory]]
    /\ \A r \in Reader : recall[r].found \subseteq Readable /\ recall[r].answer \subseteq Readable

Inv == LogIsSequence /\ VerifyChain /\ Tables /\ Inserting /\ Storing /\ Recalling

LEMMA InitInv == Init => Inv
<1> SUFFICES ASSUME Init PROVE Inv
  OBVIOUS
<1>1. LogIsSequence
  <2>1. log \in Seq({}) BY DEF Init, LedgerInit
  <2> QED BY <2>1 DEF LogIsSequence
<1>2. VerifyChain BY DEF Init, LedgerInit, VerifyChain, Genesis
<1>3. NoRecord \in Records BY DEF NoRecord, Records
<1>4. Tables BY <1>3 DEF Init, Tables, NoInsert
<1>5. Inserting BY DEF Init, Inserting, NoInsert
<1>6. Storing BY DEF Init, Storing, NoRecord
<1>7. Recalling BY DEF Init, Recalling, NoRecall
<1> QED BY <1>1, <1>2, <1>4, <1>5, <1>6, <1>7 DEF Inv

-------------------------------------------------------------------------------
(* The ledger only grows, and stays chained.                               *)
LEMMA Grows ==
    ASSUME LogIsSequence, NEW e, AppendEvent(e)
    PROVE  /\ LogIsSequence' /\ Len(log) \in Nat /\ Len(log') = Len(log) + 1
           /\ \A k \in 1..Len(log) : log'[k] = log[k]
           /\ log'[Len(log) + 1] = Event(e, head) /\ head' = Digest(e, head)
<1>1. PICK S : log \in Seq(S) BY DEF LogIsSequence
<1> DEFINE T == S \cup {Event(e, head)}
<1>2. log \in Seq(T) /\ Event(e, head) \in T BY <1>1
<1>3. log' = Append(log, Event(e, head)) /\ head' = Digest(e, head) BY DEF AppendEvent
<1> HIDE DEF T
<1>4. log' \in Seq(T) BY <1>2, <1>3
<1>5. LogIsSequence' BY <1>4 DEF LogIsSequence
<1> QED BY <1>2, <1>3, <1>5

LEMMA ChainGrows ==
    ASSUME LogIsSequence, VerifyChain, NEW e, AppendEvent(e)
    PROVE  VerifyChain'
<1>1. /\ Len(log) \in Nat /\ Len(log') = Len(log) + 1
      /\ \A k \in 1..Len(log) : log'[k] = log[k]
      /\ log'[Len(log) + 1] = Event(e, head) /\ head' = Digest(e, head)
  BY Grows
<1> DEFINE Before(l, k) == IF k = 1 THEN Genesis ELSE l[k - 1].hash
<1>2. /\ \A k \in 1..Len(log) :
            log[k].parent = Before(log, k) /\ log[k].hash = Digest(log[k].content, Before(log, k))
      /\ head = Before(log, Len(log) + 1)
  BY DEF VerifyChain
<1>3. \A k \in 1..(Len(log) + 1) : Before(log', k) = Before(log, k)
  BY <1>1
<1>4. /\ log'[Len(log) + 1].parent = head /\ log'[Len(log) + 1].content = e
      /\ log'[Len(log) + 1].hash = Digest(e, head)
  BY <1>1 DEF Event
<1>5. head' = Before(log', Len(log') + 1)
  BY <1>1, <1>4
<1>6. ASSUME NEW k \in 1..Len(log')
      PROVE  log'[k].parent = Before(log', k) /\ log'[k].hash = Digest(log'[k].content, Before(log', k))
  <2>1. CASE k \in 1..Len(log) BY <2>1, <1>1, <1>2, <1>3
  <2>2. CASE k = Len(log) + 1 BY <2>2, <1>1, <1>2, <1>3, <1>4
  <2> QED BY <2>1, <2>2, <1>1
<1> QED BY <1>5, <1>6 DEF VerifyChain

LEMMA ProvenGrows ==
    ASSUME LogIsSequence, NEW e, AppendEvent(e), NEW m, NEW r \in Records
    PROVE  /\ Proven(r) => Proven(r)' /\ RunOf(r)' = RunOf(r)
           /\ Promoted(m, r) => Promoted(m, r)'
<1>1. /\ Len(log) \in Nat /\ Len(log') = Len(log) + 1 /\ \A k \in 1..Len(log) : log'[k] = log[k]
  BY Grows
<1>2. Proven(r) => Proven(r)' /\ RunOf(r)' = RunOf(r)
  BY <1>1 DEF Proven, RunOf, Passing, Diagnosing
<1>3. Promoted(m, r) => Promoted(m, r)'
  BY <1>1, <1>2 DEF Promoted, Promotion
<1> QED BY <1>2, <1>3

(* What holds of a record that is kept holds of it where it is kept.       *)
LEMMA KeptAs ==
    ASSUME NEW m, NEW r
    PROVE  /\ r = store'[m] /\ Promoted(m, r)' => Promoted(m, store[m])'
           /\ \A c \in Committer : r = insert'[c].record /\ Proven(r)' => Proven(insert[c].record)'
           /\ \A c \in Committer : r = insert'[c].record /\ m = insert'[c].id /\ Promoted(m, r)'
                  => Promoted(insert[c].id, insert[c].record)'
BY DEF Promoted, Proven, RunOf

LEMMA RecordsTyped ==
    ASSUME Inv
    PROVE  /\ \A m \in Memory : store[m] \in Records
           /\ \A c \in Committer : insert[c].record \in Records
BY DEF Inv, Tables

(* A step that appends and leaves the memory ledger alone.                 *)
LEMMA AppendKeeps ==
    ASSUME Inv, NEW e, AppendEvent(e), UNCHANGED <<store, recall>>
    PROVE  LogIsSequence' /\ VerifyChain' /\ Storing' /\ Recalling'
<1>1. LogIsSequence' /\ VerifyChain' BY Grows, ChainGrows DEF Inv
<1>2. ASSUME NEW m \in Memory, store'[m].status # "absent" PROVE Promoted(m, store[m])'
  <2>1. PICK r \in Records : r = store[m] BY RecordsTyped
  <2>2. Promoted(m, r) BY <1>2, <2>1 DEF Inv, Storing
  <2>3. Promoted(m, r)' BY <2>2, ProvenGrows DEF Inv
  <2> QED BY <2>1, <2>3, KeptAs
<1>3. Storing' BY <1>2 DEF Storing
<1>4. Recalling' BY DEF Inv, Recalling
<1> QED BY <1>1, <1>3, <1>4

(* Insertions that a step does not touch keep what they carry.             *)
LEMMA InsertingKept ==
    ASSUME Inv, NEW c \in Committer, insert'[c] = insert[c],
           UNCHANGED log \/ \E e : AppendEvent(e)
    PROVE  LET w == insert'[c] IN
           /\ w.at # "idle" => w.id \in Memory /\ w.record.status \in LiveStatus /\ Proven(insert[c].record)'
           /\ w.at = "store" => Promoted(insert[c].id, insert[c].record)'
<1> DEFINE m == insert[c].id
<1>1. PICK r \in Records : r = insert[c].record BY RecordsTyped
<1>2. (Proven(r) => Proven(r)') /\ (Promoted(m, r) => \A x \in {m} : Promoted(x, r)')
  <2>1. CASE UNCHANGED log BY <2>1 DEF Proven, Promoted, RunOf
  <2>2. ASSUME NEW e, AppendEvent(e)
        PROVE  (Proven(r) => Proven(r)') /\ (Promoted(m, r) => \A x \in {m} : Promoted(x, r)')
    <3>1. PICK x : x = m OBVIOUS
    <3>2. (Proven(r) => Proven(r)') /\ (Promoted(x, r) => Promoted(x, r)')
      BY <2>2, ProvenGrows DEF Inv
    <3> QED BY <3>1, <3>2
  <2> QED BY <2>1, <2>2
<1>3. insert[c].at # "idle" => m \in Memory /\ r.status \in LiveStatus /\ Proven(r)
  BY <1>1 DEF Inv, Inserting
<1>4. insert[c].at = "store" => Promoted(m, r)
  BY <1>1 DEF Inv, Inserting
<1> QED BY <1>1, <1>2, <1>3, <1>4, KeptAs

LEMMA InsertKeeps ==
    ASSUME Inv, NEW c \in Committer, Insert(c)
    PROVE  Tables' /\ Inserting'
<1>1. PICK m \in Memory, old \in Memory \cup {NoMemory}, status \in LiveStatus,
           run \in Run, refs \in SUBSET (1..Len(log)) :
           /\ Attested(status, run, refs)
           /\ \E k \in refs :
                 /\ Proves(status, k)
                 /\ insert' = [insert EXCEPT ![c] =
                       [at |-> "record", id |-> m,
                        record |-> [status |-> status, proof |-> k, event |-> 0, supersedes |-> old]]]
  BY DEF Insert
<1>2. PICK k \in refs :
           /\ Proves(status, k)
           /\ insert' = [insert EXCEPT ![c] =
                 [at |-> "record", id |-> m,
                  record |-> [status |-> status, proof |-> k, event |-> 0, supersedes |-> old]]]
  BY <1>1
<1> DEFINE r == [status |-> status, proof |-> k, event |-> 0, supersedes |-> old]
<1>3. k \in 1..Len(log) /\ k \in Nat OBVIOUS
<1>4. r \in Records BY <1>3 DEF Records
<1>5. UNCHANGED <<log, store>> BY DEF Insert, ledger
<1>6. /\ insert'[c] = [at |-> "record", id |-> m, record |-> r]
      /\ \A d \in Committer : d # c => insert'[d] = insert[d]
  BY <1>2 DEF Inv, Tables
<1>7. Tables'
  BY <1>2, <1>4, <1>5 DEF Inv, Tables
<1>8. r.status = status /\ r.proof = k OBVIOUS
<1>9. Proven(r)'
  BY <1>2, <1>3, <1>5, <1>8 DEF Proven, Proves
<1> HIDE DEF r
<1>10. Inserting'
  <2>1. Proven(insert[c].record)' BY <1>6, <1>9, KeptAs
  <2>2. ASSUME NEW d \in Committer, d # c
        PROVE  LET w == insert'[d] IN
               /\ w.at # "idle" => w.id \in Memory /\ w.record.status \in LiveStatus /\ Proven(insert[d].record)'
               /\ w.at = "store" => Promoted(insert[d].id, insert[d].record)'
    BY <1>5, <1>6, <2>2, InsertingKept
  <2> QED BY <1>6, <1>8, <2>1, <2>2 DEF Inserting
<1> QED BY <1>7, <1>10

LEMMA RecordPromotionKeeps ==
    ASSUME Inv, NEW c \in Committer, RecordPromotion(c)
    PROVE  Inv'
<1>1. insert[c].at = "record" /\ insert[c].record \in Records /\ insert[c].id \in Memory
  BY RecordsTyped DEF RecordPromotion, Inv, Inserting
<1>2. PICK m \in Memory : m = insert[c].id BY <1>1
<1>3. PICK r \in Records : r = insert[c].record BY <1>1
<1>4. PICK e : e = Promotion(m, RunOf(r)) OBVIOUS
<1>5. AppendEvent(e) /\ UNCHANGED <<store, recall>>
  BY <1>2, <1>3, <1>4 DEF RecordPromotion
<1>6. LogIsSequence' /\ VerifyChain' /\ Storing' /\ Recalling'
  BY <1>5, AppendKeeps
<1>7. /\ Len(log) \in Nat /\ Len(log') = Len(log) + 1
      /\ log'[Len(log) + 1] = Event(e, head)
  BY <1>5, Grows DEF Inv
<1>8. PICK n \in Nat : n = Len(log) + 1 BY <1>7
<1>9. PICK s : s = [r EXCEPT !.event = n] OBVIOUS
<1>10. s \in Records /\ s.proof = r.proof /\ s.event = n /\ s.status = r.status
  BY <1>9 DEF Records
<1>11. insert' = [insert EXCEPT ![c].at = "store", ![c].record.event = n]
  BY <1>8 DEF RecordPromotion
<1>12. /\ insert'[c].at = "store" /\ insert'[c].id = m /\ insert'[c].record = s
       /\ \A d \in Committer : d # c => insert'[d] = insert[d]
  BY <1>2, <1>3, <1>9, <1>11 DEF Inv, Tables
<1>13. Tables'
  <2> DEFINE W == [at : {"idle", "record", "store"}, id : Memory \cup {NoMemory}, record : Records]
  <2>1. insert \in [Committer -> W] BY DEF Inv, Tables
  <2>2. insert[c] \in W BY <2>1
  <2>3. PICK w : w = [[insert[c] EXCEPT !.at = "store"] EXCEPT !.record.event = n] OBVIOUS
  <2>4. w \in W BY <1>3, <1>9, <1>10, <2>2, <2>3
  <2>5. insert' = [insert EXCEPT ![c] = w] BY <1>11, <2>1, <2>3
  <2>6. insert' \in [Committer -> W] BY <2>1, <2>4, <2>5
  <2> QED BY <1>5, <2>6 DEF Inv, Tables
<1>14. Promoted(m, s)' /\ Proven(s)'
  <2>1. r.status \in LiveStatus /\ Proven(r) BY <1>1, <1>3 DEF Inv, Inserting
  <2>2. Proven(r)' /\ RunOf(r)' = RunOf(r) BY <1>5, <2>1, ProvenGrows DEF Inv
  <2>3. Proven(s)' BY <1>10, <2>2 DEF Proven
  <2>4. RunOf(s)' = RunOf(r) BY <1>10, <2>2 DEF RunOf
  <2>5. log'[n].content = Promotion(m, RunOf(r)) BY <1>4, <1>7, <1>8 DEF Event
  <2>6. n \in 1..Len(log') BY <1>7, <1>8
  <2>7. s.proof < n BY <1>7, <1>8, <1>10, <2>1 DEF Proven
  <2> QED BY <1>10, <2>3, <2>4, <2>5, <2>6, <2>7 DEF Promoted, Promotion
<1>15. Inserting'
  <2>1. Promoted(insert[c].id, insert[c].record)' /\ Proven(insert[c].record)'
    BY <1>12, <1>14, KeptAs
  <2>2. ASSUME NEW d \in Committer, d # c
        PROVE  LET w == insert'[d] IN
               /\ w.at # "idle" => w.id \in Memory /\ w.record.status \in LiveStatus /\ Proven(insert[d].record)'
               /\ w.at = "store" => Promoted(insert[d].id, insert[d].record)'
    BY <1>5, <1>12, <2>2, InsertingKept
  <2>3. s.status \in LiveStatus BY <1>1, <1>3, <1>10 DEF Inv, Inserting
  <2> QED BY <1>12, <2>1, <2>2, <2>3 DEF Inserting
<1> QED BY <1>6, <1>13, <1>15 DEF Inv

-------------------------------------------------------------------------------
(* What a step that leaves the evidence ledger alone keeps.                *)
LEMMA UnchangedKeeps ==
    ASSUME Inv, UNCHANGED <<log, head>>
    PROVE  /\ LogIsSequence' /\ VerifyChain'
           /\ \A m, r : Promoted(m, r) => /\ r = store'[m] => Promoted(m, store[m])'
                                         /\ \A c \in Committer : r = insert'[c].record /\ m = insert'[c].id
                                                => Promoted(insert[c].id, insert[c].record)'
           /\ \A r : Proven(r) => \A c \in Committer : r = insert'[c].record => Proven(insert[c].record)'
<1>1. LogIsSequence' BY DEF Inv, LogIsSequence
<1>2. VerifyChain' BY DEF Inv, VerifyChain
<1> QED BY <1>1, <1>2 DEF Promoted, Proven, RunOf

(* An insertion that ends leaves the others as they are.                   *)
LEMMA EndKeeps ==
    ASSUME Inv, NEW c \in Committer, UNCHANGED <<log, head>>, insert' = [insert EXCEPT ![c] = NoInsert]
    PROVE  /\ insert' \in [Committer -> [at : {"idle", "record", "store"}, id : Memory \cup {NoMemory},
                                         record : Records]]
           /\ Inserting'
<1>1. NoInsert \in [at : {"idle", "record", "store"}, id : Memory \cup {NoMemory}, record : Records]
  BY DEF NoInsert, NoRecord, Records
<1>2. insert'[c].at = "idle" /\ \A d \in Committer : d # c => insert'[d] = insert[d]
  BY DEF Inv, Tables, NoInsert
<1>3. ASSUME NEW d \in Committer, d # c
      PROVE  LET w == insert'[d] IN
             /\ w.at # "idle" => w.id \in Memory /\ w.record.status \in LiveStatus /\ Proven(insert[d].record)'
             /\ w.at = "store" => Promoted(insert[d].id, insert[d].record)'
  BY <1>2, <1>3, InsertingKept
<1>4. Inserting' BY <1>2, <1>3 DEF Inserting
<1> QED BY <1>1, <1>4 DEF Inv, Tables

LEMMA StoreKeeps ==
    ASSUME Inv, NEW c \in Committer, Store(c)
    PROVE  Inv'
<1>1. PICK m \in Memory : m = insert[c].id BY DEF Store, Inv, Inserting
<1>2. PICK new \in Records : new = insert[c].record BY RecordsTyped
<1>3. /\ UNCHANGED <<log, head, recall>> /\ store' = Stored(m, new)
      /\ insert' = [insert EXCEPT ![c] = NoInsert]
  BY <1>1, <1>2 DEF Store, ledger
<1>4. Promoted(m, new) BY <1>1, <1>2 DEF Store, Inv, Inserting
<1>5. ASSUME NEW k \in Memory
      PROVE  /\ store'[k] \in Records
             /\ store'[k].status # "absent" => Promoted(k, store[k])'
  <2>1. PICK row \in Records : row = IF k = m THEN new ELSE store[k] BY RecordsTyped
  <2>2. row.status # "absent" => Promoted(k, row) BY <1>4, <2>1 DEF Inv, Storing
  <2>3. CASE k = new.supersedes /\ row.status # "absent"
    <3>1. PICK old \in Records : old = [row EXCEPT !.status = "superseded"] BY DEF Records
    <3>2. store'[k] = old BY <1>3, <2>1, <2>3, <3>1 DEF Stored
    <3>3. old.proof = row.proof /\ old.event = row.event BY <3>1 DEF Records
    <3>4. Promoted(k, old) BY <2>2, <2>3, <3>3 DEF Promoted, Proven, RunOf
    <3> QED BY <1>3, <3>2, <3>4, UnchangedKeeps
  <2>4. CASE ~(k = new.supersedes /\ row.status # "absent")
    <3>1. store'[k] = row BY <1>3, <2>1, <2>4 DEF Stored
    <3> QED BY <1>3, <2>2, <3>1, UnchangedKeeps
  <2> QED BY <2>3, <2>4
<1>6. store' \in [Memory -> Records] BY <1>3, <1>5 DEF Stored
<1>7. LogIsSequence' /\ VerifyChain' BY <1>3, UnchangedKeeps
<1>8. Storing' BY <1>5 DEF Storing
<1>9. Tables' /\ Inserting' BY <1>3, <1>6, EndKeeps DEF Tables
<1>10. Recalling' BY <1>3 DEF Inv, Recalling
<1> QED BY <1>7, <1>8, <1>9, <1>10 DEF Inv

(* A step of readers, workers or time.                                     *)
LEMMA QuietKeeps ==
    ASSUME Inv, UNCHANGED <<log, head, store, insert>>
    PROVE  LogIsSequence' /\ VerifyChain' /\ Tables' /\ Inserting' /\ Storing'
<1>1. LogIsSequence' /\ VerifyChain' BY UnchangedKeeps
<1>2. Tables' BY DEF Inv, Tables
<1>3. Inserting' BY DEF Inv, Inserting, Proven, Promoted, RunOf
<1>4. Storing' BY DEF Inv, Storing, Promoted, Proven, RunOf
<1> QED BY <1>1, <1>2, <1>3, <1>4

LEMMA RecallKeeps ==
    ASSUME Inv, NEW r \in Reader, Call(r) \/ Read(r) \/ Search(r)
    PROVE  Inv'
<1> DEFINE W == [at : {"idle", "read", "search"}, found : SUBSET Memory, answer : SUBSET Memory,
                 dead : SUBSET Memory]
<1>1. UNCHANGED <<log, head, store, insert>> BY DEF Call, Read, Search, ledger
<1>2. recall \in [Reader -> W] /\ recall[r] \in W BY DEF Inv, Recalling
<1>3. ASSUME NEW w \in W, recall' = [recall EXCEPT ![r] = w], w.found \subseteq Readable, w.answer \subseteq Readable
      PROVE  Inv'
  <2>1. recall' \in [Reader -> W] BY <1>2, <1>3
  <2>2. recall'[r] = w /\ \A q \in Reader : q # r => recall'[q] = recall[q] BY <1>2, <1>3
  <2>3. Recalling' BY <1>3, <2>1, <2>2 DEF Inv, Recalling
  <2> QED BY <1>1, <2>3, QuietKeeps DEF Inv
<1> HIDE DEF W
<1>4. CASE Call(r)
  <2>1. PICK w : w = [at |-> "read", found |-> {}, answer |-> {}, dead |-> Dead] OBVIOUS
  <2>2. w \in W /\ w.found = {} /\ w.answer = {} BY <2>1 DEF Dead, W
  <2>3. recall' = [recall EXCEPT ![r] = w] BY <1>4, <2>1 DEF Call
  <2>4. w.found \subseteq Readable /\ w.answer \subseteq Readable BY <2>2
  <2> QED BY <1>3, <2>2, <2>3, <2>4
<1>5. CASE Read(r)
  <2>1. PICK w : w = [[recall[r] EXCEPT !.at = "search"] EXCEPT !.found = Authorized] OBVIOUS
  <2>2. Authorized \subseteq Memory /\ Authorized \subseteq Readable BY MemoryAssumption DEF Authorized
  <2>3. w \in W /\ w.found = Authorized /\ w.answer = recall[r].answer BY <1>2, <2>1, <2>2 DEF W
  <2>4. recall' = [recall EXCEPT ![r] = w] BY <1>2, <1>5, <2>1 DEF Read
  <2>5. w.found \subseteq Readable /\ w.answer \subseteq Readable BY <2>2, <2>3 DEF Inv, Recalling
  <2> QED BY <1>3, <2>3, <2>4, <2>5
<1>6. CASE Search(r)
  <2>1. PICK hot \in SUBSET recall[r].found, ids \in SUBSET Memory :
           recall' = [recall EXCEPT ![r].at = "idle", ![r].found = {},
                                    ![r].answer = hot \cup Rehydrated(ids, recall[r].found)]
    BY <1>6 DEF Search
  <2>2. PICK a : a = hot \cup Rehydrated(ids, recall[r].found) OBVIOUS
  <2>3. a \subseteq recall[r].found BY <2>1, <2>2 DEF Rehydrated
  <2>4. a \subseteq Memory /\ a \subseteq Readable BY <1>2, <2>3 DEF Inv, Recalling, W
  <2>5. PICK w : w = [[[recall[r] EXCEPT !.at = "idle"] EXCEPT !.found = {}] EXCEPT !.answer = a] OBVIOUS
  <2>6. w \in W /\ w.found = {} /\ w.answer = a BY <1>2, <2>4, <2>5 DEF W
  <2>7. recall' = [recall EXCEPT ![r] = w] BY <1>2, <2>1, <2>2, <2>5
  <2>8. w.found \subseteq Readable /\ w.answer \subseteq Readable BY <2>4, <2>6
  <2> QED BY <1>3, <2>6, <2>7, <2>8
<1> QED BY <1>4, <1>5, <1>6

LEMMA InvStep == Inv /\ [Next]_vars => Inv'
<1> SUFFICES ASSUME Inv, [Next]_vars PROVE Inv'
  OBVIOUS
<1>1. ASSUME NEW e \in Evidence, Record(e), UNCHANGED memory PROVE Inv'
  <2>1. AppendEvent(e) /\ UNCHANGED <<store, insert, recall>> BY <1>1 DEF Record, memory
  <2>2. LogIsSequence' /\ VerifyChain' /\ Storing' /\ Recalling' BY <2>1, AppendKeeps
  <2>3. Tables' BY <2>1 DEF Inv, Tables
  <2>4. Inserting' BY <2>1, InsertingKept DEF Inserting
  <2> QED BY <2>2, <2>3, <2>4 DEF Inv
<1>2. ASSUME UNCHANGED <<ledger, memory>> PROVE Inv'
  <2>1. UNCHANGED <<log, head, store, insert, recall>> BY <1>2 DEF ledger, memory
  <2>2. Recalling' BY <2>1 DEF Inv, Recalling
  <2> QED BY <2>1, <2>2, QuietKeeps DEF Inv
<1>3. CASE AnchorWork /\ UNCHANGED <<memory, entryVars>> BY <1>2, <1>3 DEF AnchorWork
<1>4. CASE ProjectWork BY <1>2, <1>4 DEF ProjectWork
<1>5. ASSUME NEW c \in Committer, Insert(c) PROVE Inv'
  <2>1. UNCHANGED <<log, head, store, recall>> BY <1>5 DEF Insert, ledger
  <2>2. Tables' /\ Inserting' BY <1>5, InsertKeeps
  <2>3. LogIsSequence' /\ VerifyChain' BY <2>1, UnchangedKeeps
  <2>4. Storing' /\ Recalling' BY <2>1 DEF Inv, Storing, Recalling, Promoted, Proven, RunOf
  <2> QED BY <2>2, <2>3, <2>4 DEF Inv
<1>6. ASSUME NEW c \in Committer, RecordPromotion(c) PROVE Inv' BY <1>6, RecordPromotionKeeps
<1>7. ASSUME NEW c \in Committer, Store(c) PROVE Inv' BY <1>7, StoreKeeps
<1>8. ASSUME NEW c \in Committer, Abandon(c) PROVE Inv'
  <2>1. UNCHANGED <<log, head, store, recall>> /\ insert' = [insert EXCEPT ![c] = NoInsert]
    BY <1>8 DEF Abandon, ledger
  <2>2. Tables' /\ Inserting' BY <2>1, EndKeeps DEF Inv, Tables
  <2>3. LogIsSequence' /\ VerifyChain' BY <2>1, UnchangedKeeps
  <2>4. Storing' /\ Recalling' BY <2>1 DEF Inv, Storing, Recalling, Promoted, Proven, RunOf
  <2> QED BY <2>2, <2>3, <2>4 DEF Inv
<1>9. ASSUME NEW m \in Memory, Expire(m) PROVE Inv'
  <2>1. UNCHANGED <<log, head, store, insert, recall>> BY <1>9 DEF Expire, ledger
  <2>2. Recalling' BY <2>1 DEF Inv, Recalling
  <2> QED BY <2>1, <2>2, QuietKeeps DEF Inv
<1>10. ASSUME NEW r \in Reader, Call(r) \/ Read(r) \/ Search(r) PROVE Inv' BY <1>10, RecallKeeps
<1>11. CASE UNCHANGED vars BY <1>2, <1>11 DEF vars
<1> QED BY <1>1, <1>3, <1>4, <1>5, <1>6, <1>7, <1>8, <1>9, <1>10, <1>11 DEF Next

(* Every event has its row in the anchors' outbox, and none is beyond the   *)
(* bound.                                                                  *)
Counted == heads = Len(log) /\ Len(log) <= MaxEvents /\ expired \subseteq Memory

LEMMA CountedStep == Inv /\ Counted /\ [Next]_vars => Counted'
<1> SUFFICES ASSUME Inv, Counted, [Next]_vars PROVE Counted'
  OBVIOUS
<1>1. ASSUME NEW e, AppendEvent(e), UNCHANGED expired PROVE Counted'
  <2>1. Len(log) \in Nat /\ Len(log') = Len(log) + 1 BY <1>1, Grows DEF Inv
  <2>2. Len(log) < MaxEvents /\ heads' = heads + 1 BY <1>1 DEF AppendEvent, Anchors!Request
  <2> QED BY <1>1, <2>1, <2>2, LedgerAssumption DEF Counted
<1>2. Anchors!Work => UNCHANGED heads
  BY DEF Anchors!Work, Anchors!Claim, Anchors!Die, Anchors!Handle, Anchors!Publish, Anchors!Acknowledge,
         Anchors!LeaseLost, Anchors!Release, Anchors!PublishRaises, Anchors!Lapse
<1>3. ASSUME UNCHANGED <<log, heads, expired>> PROVE Counted'
  BY <1>3 DEF Counted
<1>4. ASSUME NEW m \in Memory, Expire(m) PROVE Counted'
  BY <1>4 DEF Expire, ledger, anchors, Counted
<1>5. ASSUME NEW c \in Committer, Insert(c) \/ Store(c) \/ Abandon(c) PROVE Counted'
  <2>1. UNCHANGED <<ledger, anchors, expired>> BY <1>5 DEF Insert, Store, Abandon
  <2> QED BY <1>3, <2>1 DEF ledger, anchors
<1>6. ASSUME NEW c \in Committer, RecordPromotion(c) PROVE Counted'
  BY <1>1, <1>6 DEF RecordPromotion
<1>7. ASSUME NEW e \in Evidence, Record(e), UNCHANGED memory PROVE Counted'
  BY <1>1, <1>7 DEF Record, memory
<1>8. CASE AnchorWork /\ UNCHANGED <<memory, entryVars>>
  BY <1>2, <1>3, <1>8 DEF AnchorWork, ledger, memory
<1>9. CASE ProjectWork
  BY <1>3, <1>9 DEF ProjectWork, ledger, anchors, memory
<1>10. ASSUME NEW r \in Reader, Call(r) \/ Read(r) \/ Search(r) PROVE Counted'
  BY <1>3, <1>10 DEF Call, Read, Search, ledger, anchors
<1>11. CASE UNCHANGED vars
  BY <1>3, <1>11 DEF vars, ledger, anchors, memory
<1> QED BY <1>4, <1>5, <1>6, <1>7, <1>8, <1>9, <1>10, <1>11 DEF Next

(* The two databases, the ledger and the processes' positions keep their   *)
(* shape, and every event has its row in the anchors' outbox.              *)
THEOREM Typing == Spec => []TypeOK
<1>1. Init => Inv /\ Counted
  <2> SUFFICES ASSUME Init PROVE Counted
    BY InitInv
  <2>1. log = <<>> /\ heads = 0 /\ expired = {} BY DEF Init, LedgerInit, Anchors!OutboxInit
  <2> QED BY <2>1, LedgerAssumption DEF Counted
<1>2. Inv /\ Counted => TypeOK
  BY DEF Inv, Counted, Tables, Recalling, TypeOK
<1> QED BY <1>1, <1>2, InvStep, CountedStep, PTL DEF Spec

(* Whatever crashes between the two databases and however the workers of   *)
(* the outboxes interleave, the evidence ledger stays chained and what the *)
(* memory ledger holds was proved and promoted there.                      *)
THEOREM Attestation == Spec => [](VerifyChain /\ RecordsAreAttested)
<1>1. Inv => VerifyChain BY DEF Inv
<1>2. Inv => RecordsAreAttested
  BY DEF Inv, Storing, Promoted, Proven, RecordsAreAttested
<1> QED BY <1>1, <1>2, InitInv, InvStep, PTL DEF Spec

(* A record is written once, and what is superseded or expired stays so.   *)
Kept ==
    /\ \A m \in Memory : store[m].status # "absent" =>
          store'[m] \in {store[m], [store[m] EXCEPT !.status = "superseded"]}
    /\ expired \subseteq expired'

LEMMA StepKeeps == [Next]_vars => Kept
<1> SUFFICES ASSUME [Next]_vars PROVE Kept
  OBVIOUS
<1>1. CASE UNCHANGED <<store, expired>> BY <1>1 DEF Kept
<1>2. ASSUME NEW c \in Committer, Store(c) PROVE Kept
  <2>1. store[insert[c].id].status = "absent" /\ store' = Stored(insert[c].id, insert[c].record)
    BY <1>2 DEF Store
  <2>2. UNCHANGED expired BY <1>2 DEF Store
  <2> QED BY <2>1, <2>2 DEF Stored, Kept
<1>3. CASE \E c \in Committer : Store(c) BY <1>2, <1>3
<1>4. CASE \E m \in Memory : Expire(m) BY <1>4 DEF Expire, Kept
<1> QED BY <1>1, <1>3, <1>4 DEF Next, vars, memory, Record, AnchorWork, ProjectWork, Insert, RecordPromotion,
                              Abandon, Call, Read, Search

(* A record is written once, and afterwards only ever superseded: a second *)
(* insertion of its id, by whatever process, does not revive it.           *)
THEOREM Supersession == Spec => SupersededForGood
<1>1. [Next]_vars => [\A m \in Memory : store[m].status # "absent" =>
                        store'[m] \in {store[m], [store[m] EXCEPT !.status = "superseded"]}]_vars
  BY StepKeeps DEF Kept
<1> QED BY <1>1, PTL DEF Spec, SupersededForGood

LEMMA DeadStay == Inv /\ [Next]_vars => Dead \subseteq Dead'
<1> SUFFICES ASSUME Inv, [Next]_vars, NEW m \in Dead PROVE m \in Dead'
  OBVIOUS
<1>1. m \in Memory /\ store[m].status # "absent" BY DEF Dead
<1>2. PICK row \in Records : row = store[m] BY <1>1, RecordsTyped
<1>3. CASE store'[m] = store[m] BY <1>1, <1>3, StepKeeps DEF Kept, Dead, Live
<1>4. CASE store'[m] = [store[m] EXCEPT !.status = "superseded"]
  <2>1. store'[m].status = "superseded" BY <1>2, <1>4 DEF Records
  <2> QED BY <1>1, <2>1 DEF Dead, Live, LiveStatus
<1> QED BY <1>1, <1>3, <1>4, StepKeeps DEF Kept

(* What was dead when a retrieval was called is dead when it reads, so it  *)
(* is neither found nor answered.                                          *)
Recalled(w) == w.dead \subseteq Dead /\ w.found \cap w.dead = {} /\ w.answer \cap w.dead = {}
Current == \A r \in Reader : Recalled(recall[r])

LEMMA CurrentStep == Inv /\ Current /\ [Next]_vars => Current'
<1> SUFFICES ASSUME Inv, Current, [Next]_vars, NEW r \in Reader PROVE Recalled(recall[r])'
  BY DEF Current
<1>1. Dead \subseteq Dead' BY DeadStay
<1>2. Recalled(recall[r]) BY DEF Current
<1>3. CASE recall'[r] = recall[r] BY <1>1, <1>2, <1>3 DEF Recalled
<1>4. CASE Call(r)
  <2>1. recall'[r] = [at |-> "read", found |-> {}, answer |-> {}, dead |-> Dead]
    BY <1>4 DEF Call, Inv, Recalling
  <2> QED BY <1>1, <2>1 DEF Recalled
<1>5. CASE Read(r)
  <2>1. recall'[r] = [[recall[r] EXCEPT !.at = "search"] EXCEPT !.found = Authorized]
    BY <1>5 DEF Read, Inv, Recalling
  <2>2. recall'[r].found = Authorized /\ recall'[r].answer = recall[r].answer /\ recall'[r].dead = recall[r].dead
    BY <2>1 DEF Inv, Recalling
  <2>3. Authorized \cap Dead = {} BY DEF Authorized, Dead
  <2> QED BY <1>1, <1>2, <2>2, <2>3 DEF Recalled
<1>6. CASE Search(r)
  <2>1. PICK hot \in SUBSET recall[r].found, ids \in SUBSET Memory :
           recall' = [recall EXCEPT ![r].at = "idle", ![r].found = {},
                                    ![r].answer = hot \cup Rehydrated(ids, recall[r].found)]
    BY <1>6 DEF Search
  <2>2. recall'[r] = [[[recall[r] EXCEPT !.at = "idle"] EXCEPT !.found = {}]
                         EXCEPT !.answer = hot \cup Rehydrated(ids, recall[r].found)]
    BY <2>1 DEF Inv, Recalling
  <2>3. /\ recall'[r].found = {} /\ recall'[r].dead = recall[r].dead
        /\ recall'[r].answer = hot \cup Rehydrated(ids, recall[r].found)
    BY <2>2 DEF Inv, Recalling
  <2>4. recall'[r].answer \subseteq recall[r].found BY <2>1, <2>3 DEF Rehydrated
  <2> QED BY <1>1, <1>2, <2>3, <2>4 DEF Recalled
<1>7. ASSUME NEW q \in Reader, q # r, Call(q) \/ Read(q) \/ Search(q) PROVE recall'[r] = recall[r]
  BY <1>7 DEF Call, Read, Search, Inv, Recalling
<1>8. CASE UNCHANGED recall BY <1>3, <1>8
<1>9. CASE \E q \in Reader : Call(q) \/ Read(q) \/ Search(q) BY <1>3, <1>4, <1>5, <1>6, <1>7, <1>9
<1> QED BY <1>8, <1>9 DEF Next, vars, memory, Record, AnchorWork, ProjectWork, Insert, RecordPromotion, Store,
                          Abandon, Expire

(* Retrieval returns nothing out of the reader's reach, and nothing that   *)
(* was dead when it was called, whatever happens between the call, the     *)
(* reading of the records and the answers of the indexes.                  *)
THEOREM Recalls == Spec => []RecallIsCurrent
<1>1. Init => Current BY DEF Init, Current, Recalled, NoRecall
<1>2. Inv /\ Current => RecallIsCurrent BY DEF Inv, Recalling, Current, Recalled, RecallIsCurrent
<1> QED BY <1>1, <1>2, InitInv, InvStep, CurrentStep, PTL DEF Spec

-------------------------------------------------------------------------------
(* Both outboxes run as outboxes within the ledgers' steps, so what is     *)
(* proved of an outbox by itself holds of each of them here.               *)
AnchorProofs == INSTANCE LeasedOutboxProofs WITH
    Item <- Position, Process <- Anchorer, IdOf <- AnchorerId, Limit <- AnchorLimit,
    MaxFaults <- MaxAnchorFaults, count <- heads, row <- headRow, drain <- anchoring,
    taken <- anchored, faults <- anchorFaults

ProjectionProofs == INSTANCE LeasedOutboxProofs WITH
    Item <- Memory, Process <- Projector, IdOf <- ProjectorId, Limit <- ProjectLimit,
    MaxFaults <- MaxProjectFaults, count <- entries, row <- entryRow, drain <- projecting,
    taken <- indexed, faults <- projectFaults

LEMMA AppendRequests ==
    ASSUME Inv, NEW e, AppendEvent(e)
    PROVE  \E k \in Position : Anchors!Request(k)
<1>1. Len(log) \in Nat /\ Len(log) < MaxEvents BY Grows DEF Inv, AppendEvent
<1>2. Len(log) + 1 \in Position BY <1>1, LedgerAssumption DEF Position
<1> QED BY <1>2 DEF AppendEvent

LEMMA OutboxSteps ==
    ASSUME Inv, [Next]_vars
    PROVE  /\ [Anchors!OutboxNext]_(Anchors!outbox)
           /\ [Projections!OutboxNext]_(Projections!outbox)
<1>1. UNCHANGED anchors => UNCHANGED Anchors!outbox BY DEF anchors, Anchors!outbox
<1>2. UNCHANGED entryVars => UNCHANGED Projections!outbox BY DEF entryVars, Projections!outbox
<1>3. ASSUME NEW c \in Committer, Store(c) PROVE [Projections!OutboxNext]_(Projections!outbox)
  <2>1. insert[c].id \in Memory BY <1>3 DEF Store, Inv, Inserting
  <2> QED BY <1>2, <1>3, <2>1 DEF Store, Projections!OutboxNext
<1>4. [Anchors!OutboxNext]_(Anchors!outbox)
  BY <1>1, AppendRequests
  DEF Next, Record, AnchorWork, ProjectWork, Insert, RecordPromotion, Store, Abandon, Expire, Call, Read, Search,
      vars, Anchors!OutboxNext
<1>5. [Projections!OutboxNext]_(Projections!outbox)
  BY <1>2, <1>3
  DEF Next, AnchorWork, ProjectWork, Insert, RecordPromotion, Abandon, Expire, Call, Read, Search,
      vars, Projections!OutboxNext
<1> QED BY <1>4, <1>5

LEMMA AnchorsDeliver == Spec => Anchors!DeliversAtLeastOnce
<1>1. Init => AnchorProofs!OutboxInit
  BY DEF Init, LedgerInit, AnchorProofs!OutboxInit, Anchors!OutboxInit, AnchorProofs!NoRow, Anchors!NoRow,
      AnchorProofs!Row, Anchors!Row, AnchorProofs!Resting, Anchors!Resting, AnchorProofs!Nobody,
      Anchors!Nobody
<1>2. Inv /\ [Next]_vars => [AnchorProofs!OutboxNext]_(AnchorProofs!outbox)
  <2>1. AnchorProofs!Claimed = Anchors!Claimed
    <3>1. AnchorProofs!Claimable = Anchors!Claimable BY DEF AnchorProofs!Claimable, Anchors!Claimable
    <3>2. \A i : {j \in AnchorProofs!Claimable : AnchorProofs!Older(j, i)} = {j \in Anchors!Claimable : Anchors!Older(j, i)}
      BY <3>1 DEF AnchorProofs!Older, Anchors!Older
    <3>3. \A S : AnchorProofs!Cardinality(S) = Anchors!Cardinality(S)
      BY DEF AnchorProofs!Cardinality, Anchors!Cardinality
    <3> QED BY <3>1, <3>2, <3>3 DEF AnchorProofs!Claimed, Anchors!Claimed
  <2>2. ASSUME NEW p, NEW i, NEW what
        PROVE  /\ AnchorProofs!Due(p, i, what) <=> Anchors!Due(p, i, what)
               /\ AnchorProofs!Holds(p, i) <=> Anchors!Holds(p, i)
               /\ AnchorProofs!Then(p, what) <=> Anchors!Then(p, what)
               /\ AnchorProofs!Forward(p, i) <=> Anchors!Forward(p, i)
               /\ AnchorProofs!Fault <=> Anchors!Fault
    BY DEF AnchorProofs!Due, Anchors!Due, AnchorProofs!Older, Anchors!Older,
        AnchorProofs!Holds, Anchors!Holds, AnchorProofs!Then, Anchors!Then,
        AnchorProofs!Forward, Anchors!Forward, AnchorProofs!Fault, Anchors!Fault
  <2>3. ASSUME NEW p, NEW i
        PROVE  /\ AnchorProofs!Leased(i, p) = Anchors!Leased(i, p) /\ AnchorProofs!Delivered(i) = Anchors!Delivered(i)
               /\ AnchorProofs!Pending(i) = Anchors!Pending(i)
    BY DEF AnchorProofs!Leased, Anchors!Leased, AnchorProofs!Delivered, Anchors!Delivered,
        AnchorProofs!Pending, Anchors!Pending, AnchorProofs!Row, Anchors!Row,
        AnchorProofs!Nobody, Anchors!Nobody
  <2>4. ASSUME NEW p PROVE AnchorProofs!Claim(p) <=> Anchors!Claim(p)
    BY <2>1, <2>3 DEF AnchorProofs!Claim, Anchors!Claim
  <2>5. ASSUME NEW p PROVE AnchorProofs!Die(p) <=> Anchors!Die(p)
    BY <2>2 DEF AnchorProofs!Die, Anchors!Die, AnchorProofs!Resting, Anchors!Resting
  <2>6. ASSUME NEW p, NEW i
        PROVE  /\ AnchorProofs!Publish(p, i) <=> Anchors!Publish(p, i)
               /\ AnchorProofs!PublishRaises(p, i) <=> Anchors!PublishRaises(p, i)
               /\ AnchorProofs!LeaseLost(p, i) <=> Anchors!LeaseLost(p, i)
    BY <2>2 DEF AnchorProofs!Publish, Anchors!Publish, AnchorProofs!PublishRaises,
        Anchors!PublishRaises, AnchorProofs!LeaseLost, Anchors!LeaseLost
  <2>7. ASSUME NEW p, NEW i
        PROVE  /\ AnchorProofs!Acknowledge(p, i) <=> Anchors!Acknowledge(p, i)
               /\ AnchorProofs!Release(p, i) <=> Anchors!Release(p, i)
    BY <2>2, <2>3 DEF AnchorProofs!Acknowledge, Anchors!Acknowledge, AnchorProofs!Release, Anchors!Release
  <2>8. ASSUME NEW i
        PROVE  /\ AnchorProofs!Lapse(i) <=> Anchors!Lapse(i)
               /\ AnchorProofs!Request(i) <=> Anchors!Request(i)
    BY <2>2 DEF AnchorProofs!Lapse, Anchors!Lapse, AnchorProofs!Busy, Anchors!Busy,
        AnchorProofs!Request, Anchors!Request, AnchorProofs!Row, Anchors!Row,
        AnchorProofs!Nobody, Anchors!Nobody
  <2>9. AnchorProofs!OutboxNext <=> Anchors!OutboxNext
    BY <2>4, <2>5, <2>6, <2>7, <2>8 DEF AnchorProofs!OutboxNext, Anchors!OutboxNext, AnchorProofs!Work, Anchors!Work,
        AnchorProofs!Handle, Anchors!Handle
  <2> QED BY <2>9, OutboxSteps DEF AnchorProofs!outbox, Anchors!outbox
<1>3. AnchorProofs!OutboxSpec => AnchorProofs!DeliversAtLeastOnce BY AnchorProofs!Delivery
<1>4. AnchorProofs!Promise!Init <=> Anchors!Promise!Init
  BY DEF AnchorProofs!Promise!Init, Anchors!Promise!Init, AnchorProofs!DeliveredItems,
      Anchors!DeliveredItems
<1>5. [AnchorProofs!Promise!Next]_(AnchorProofs!Promise!vars) => [Anchors!Promise!Next]_(Anchors!Promise!vars)
  BY DEF AnchorProofs!Promise!Next, Anchors!Promise!Next, AnchorProofs!Promise!Want,
      Anchors!Promise!Want, AnchorProofs!Promise!Take, Anchors!Promise!Take,
      AnchorProofs!Promise!Settle, Anchors!Promise!Settle, AnchorProofs!Promise!vars,
      Anchors!Promise!vars, AnchorProofs!DeliveredItems, Anchors!DeliveredItems
<1> QED BY <1>1, <1>2, <1>3, <1>4, <1>5, InitInv, InvStep, PTL
  DEF Spec, AnchorProofs!OutboxSpec, AnchorProofs!DeliversAtLeastOnce, Anchors!DeliversAtLeastOnce, AnchorProofs!Promise!Spec,
      Anchors!Promise!Spec

LEMMA ProjectionsDeliver == Spec => Projections!DeliversAtLeastOnce
<1>1. Init => ProjectionProofs!OutboxInit
  BY DEF Init, LedgerInit, ProjectionProofs!OutboxInit, Projections!OutboxInit, ProjectionProofs!NoRow,
      Projections!NoRow, ProjectionProofs!Row, Projections!Row, ProjectionProofs!Resting,
      Projections!Resting, ProjectionProofs!Nobody, Projections!Nobody
<1>2. Inv /\ [Next]_vars => [ProjectionProofs!OutboxNext]_(ProjectionProofs!outbox)
  <2>1. ProjectionProofs!Claimed = Projections!Claimed
    <3>1. ProjectionProofs!Claimable = Projections!Claimable BY DEF ProjectionProofs!Claimable, Projections!Claimable
    <3>2. \A i : {j \in ProjectionProofs!Claimable : ProjectionProofs!Older(j, i)} = {j \in Projections!Claimable : Projections!Older(j, i)}
      BY <3>1 DEF ProjectionProofs!Older, Projections!Older
    <3>3. \A S : ProjectionProofs!Cardinality(S) = Projections!Cardinality(S)
      BY DEF ProjectionProofs!Cardinality, Projections!Cardinality
    <3> QED BY <3>1, <3>2, <3>3 DEF ProjectionProofs!Claimed, Projections!Claimed
  <2>2. ASSUME NEW p, NEW i, NEW what
        PROVE  /\ ProjectionProofs!Due(p, i, what) <=> Projections!Due(p, i, what)
               /\ ProjectionProofs!Holds(p, i) <=> Projections!Holds(p, i)
               /\ ProjectionProofs!Then(p, what) <=> Projections!Then(p, what)
               /\ ProjectionProofs!Forward(p, i) <=> Projections!Forward(p, i)
               /\ ProjectionProofs!Fault <=> Projections!Fault
    BY DEF ProjectionProofs!Due, Projections!Due, ProjectionProofs!Older, Projections!Older,
        ProjectionProofs!Holds, Projections!Holds, ProjectionProofs!Then, Projections!Then,
        ProjectionProofs!Forward, Projections!Forward, ProjectionProofs!Fault,
        Projections!Fault
  <2>3. ASSUME NEW p, NEW i
        PROVE  /\ ProjectionProofs!Leased(i, p) = Projections!Leased(i, p) /\ ProjectionProofs!Delivered(i) = Projections!Delivered(i)
               /\ ProjectionProofs!Pending(i) = Projections!Pending(i)
    BY DEF ProjectionProofs!Leased, Projections!Leased, ProjectionProofs!Delivered,
        Projections!Delivered, ProjectionProofs!Pending, Projections!Pending,
        ProjectionProofs!Row, Projections!Row, ProjectionProofs!Nobody, Projections!Nobody
  <2>4. ASSUME NEW p PROVE ProjectionProofs!Claim(p) <=> Projections!Claim(p)
    BY <2>1, <2>3 DEF ProjectionProofs!Claim, Projections!Claim
  <2>5. ASSUME NEW p PROVE ProjectionProofs!Die(p) <=> Projections!Die(p)
    BY <2>2 DEF ProjectionProofs!Die, Projections!Die, ProjectionProofs!Resting, Projections!Resting
  <2>6. ASSUME NEW p, NEW i
        PROVE  /\ ProjectionProofs!Publish(p, i) <=> Projections!Publish(p, i)
               /\ ProjectionProofs!PublishRaises(p, i) <=> Projections!PublishRaises(p, i)
               /\ ProjectionProofs!LeaseLost(p, i) <=> Projections!LeaseLost(p, i)
    BY <2>2 DEF ProjectionProofs!Publish, Projections!Publish, ProjectionProofs!PublishRaises,
        Projections!PublishRaises, ProjectionProofs!LeaseLost, Projections!LeaseLost
  <2>7. ASSUME NEW p, NEW i
        PROVE  /\ ProjectionProofs!Acknowledge(p, i) <=> Projections!Acknowledge(p, i)
               /\ ProjectionProofs!Release(p, i) <=> Projections!Release(p, i)
    BY <2>2, <2>3 DEF ProjectionProofs!Acknowledge, Projections!Acknowledge, ProjectionProofs!Release,
        Projections!Release
  <2>8. ASSUME NEW i
        PROVE  /\ ProjectionProofs!Lapse(i) <=> Projections!Lapse(i)
               /\ ProjectionProofs!Request(i) <=> Projections!Request(i)
    BY <2>2 DEF ProjectionProofs!Lapse, Projections!Lapse, ProjectionProofs!Busy, Projections!Busy,
        ProjectionProofs!Request, Projections!Request, ProjectionProofs!Row,
        Projections!Row, ProjectionProofs!Nobody, Projections!Nobody
  <2>9. ProjectionProofs!OutboxNext <=> Projections!OutboxNext
    BY <2>4, <2>5, <2>6, <2>7, <2>8 DEF ProjectionProofs!OutboxNext, Projections!OutboxNext, ProjectionProofs!Work,
        Projections!Work, ProjectionProofs!Handle, Projections!Handle
  <2> QED BY <2>9, OutboxSteps DEF ProjectionProofs!outbox, Projections!outbox
<1>3. ProjectionProofs!OutboxSpec => ProjectionProofs!DeliversAtLeastOnce BY ProjectionProofs!Delivery
<1>4. ProjectionProofs!Promise!Init <=> Projections!Promise!Init
  BY DEF ProjectionProofs!Promise!Init, Projections!Promise!Init, ProjectionProofs!DeliveredItems,
      Projections!DeliveredItems
<1>5. [ProjectionProofs!Promise!Next]_(ProjectionProofs!Promise!vars) => [Projections!Promise!Next]_(Projections!Promise!vars)
  BY DEF ProjectionProofs!Promise!Next, Projections!Promise!Next, ProjectionProofs!Promise!Want,
      Projections!Promise!Want, ProjectionProofs!Promise!Take, Projections!Promise!Take,
      ProjectionProofs!Promise!Settle, Projections!Promise!Settle, ProjectionProofs!Promise!vars,
      Projections!Promise!vars, ProjectionProofs!DeliveredItems, Projections!DeliveredItems
<1> QED BY <1>1, <1>2, <1>3, <1>4, <1>5, InitInv, InvStep, PTL
  DEF Spec, ProjectionProofs!OutboxSpec, ProjectionProofs!DeliversAtLeastOnce, Projections!DeliversAtLeastOnce,
      ProjectionProofs!Promise!Spec, Projections!Promise!Spec

(* Within the two ledgers, their crashes and their lost leases, each       *)
(* outbox keeps the promise: only what was committed to it is published,   *)
(* and nothing counts as delivered that was not taken.                     *)
THEOREM Outboxes == Spec => OutboxesDeliverAtLeastOnce
<1> QED BY AnchorsDeliver, ProjectionsDeliver, PTL DEF OutboxesDeliverAtLeastOnce
===============================================================================
