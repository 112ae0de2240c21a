------------------------- MODULE PersistBatch_proof -------------------------
(***************************************************************************)
(* For any number of workers, PDFs and records, and any sequence of        *)
(* crashes, evictions and deadlocks: the row of a record with a document   *)
(* has a document in S3, and the topics are work queues (WorkQueue) whose  *)
(* messages are handled when they are in Postgres.  With no eviction the   *)
(* stores are never behind the committed offset.                           *)
(***************************************************************************)
EXTENDS PersistBatch, NaturalsInduction, WellFoundedInduction, TLAPS

USE PersistAssumption

-----------------------------------------------------------------------------
(* Type correctness.                                                       *)

LEMMA TopicOfType == ASSUME NEW w \in Workers PROVE TopicOf(w) \in Topics
BY DEF Topics

\* The numbers of a worker, and those of its topic.
LEMMA NumbersOf ==
  ASSUME TypeOK, NEW w \in Workers
  PROVE  /\ position[w] \in Nat /\ stored[w] \in Nat /\ last[w] \in Nat
         /\ first[w] \in Nat \ {0} /\ next[w] \in Nat \ {0}
         /\ committed[TopicOf(w)] \in Nat /\ Len(log[TopicOf(w)]) \in Nat
<1>1. /\ position[w] \in Nat /\ stored[w] \in Nat /\ last[w] \in Nat
      /\ first[w] \in Nat \ {0} /\ next[w] \in Nat \ {0}
  BY DEF TypeOK, Index
<1>2. committed[TopicOf(w)] \in Nat
  BY TopicOfType DEF TypeOK, Index
<1>3. log[TopicOf(w)] \in Seq(Record)
  BY TopicOfType DEF TypeOK
<1>4. QED
  BY <1>1, <1>2, <1>3

LEMMA NoBatchTypeOK ==
  ASSUME TypeOK, NEW w \in Workers, NoBatch(w)
  PROVE  /\ first' \in [Workers -> 1 .. LogLen + 1] /\ last' \in [Workers -> Index]
         /\ next' \in [Workers -> 1 .. LogLen + 1]
BY DEF TypeOK, NoBatch, Index

\* The end of a process leaves every variable in its type.
LEMMA DownTypeOK ==
  ASSUME TypeOK, NEW w \in Workers, Down(w), disturbances' \in Nat
  PROVE  TypeOK'
<1>1. owner' \in [Topics -> Workers \cup {NoOne}]
  BY TopicOfType DEF TypeOK, Down
<1>2. pc' \in [Workers -> PC] /\ holds' \in [Workers -> BOOLEAN] /\ queued' \in SUBSET Workers
  BY DEF TypeOK, Down, PC
<1>3. position' \in [Workers -> Index] /\ stored' \in [Workers -> Index]
  BY DEF TypeOK, Down, Index
<1>4. UNCHANGED <<log, committed, blobs, rows, persisted, evicted>> /\ NoBatch(w)
  BY DEF Down, storeVars
<1>5. QED
  BY <1>1, <1>2, <1>3, <1>4, NoBatchTypeOK DEF TypeOK

LEMMA PublishTypeOK ==
  ASSUME TypeOK, NEW t \in Topics, Publish(t)
  PROVE  TypeOK'
<1>1. PICK k \in Keys, o \in Outcomes(t) :
        log' = [log EXCEPT ![t] = Append(@, [key |-> k, outcome |-> o])]
  BY DEF Publish
<1>2. [key |-> k, outcome |-> o] \in Record
  BY DEF Outcomes, Record
<1>3. log' \in [Topics -> Seq(Record)] /\ \A u \in Topics : Len(log'[u]) <= LogLen
  BY <1>1, <1>2 DEF TypeOK, Publish
<1>4. QED
  BY <1>3 DEF TypeOK, Publish, storeVars, clientVars, batchVars

LEMMA KafkaTypeOK ==
  ASSUME TypeOK, NEW w \in Workers, Kafka(w)
  PROVE  TypeOK'
<1>1. TopicOf(w) \in Topics
  BY TopicOfType
<1>2. CASE Assign(w)
  BY <1>1, <1>2 DEF TypeOK, Assign, storeVars, batchVars
<1>3. CASE Revoke(w)
  <2>1. committed' \in [Topics -> Index]
    BY <1>1, <1>3 DEF TypeOK, Revoke
  <2>2. owner' \in [Topics -> Workers \cup {NoOne}] /\ holds' \in [Workers -> BOOLEAN]
    BY <1>1, <1>3 DEF TypeOK, Revoke
  <2>3. disturbances' \in Nat
    BY <1>3 DEF TypeOK, Revoke, Disturb
  <2>4. QED
    BY <1>3, <2>1, <2>2, <2>3 DEF TypeOK, Revoke, storeVars, batchVars
<1>4. CASE Evict(w)
  BY <1>1, <1>4 DEF TypeOK, Evict, Disturb, storeVars, clientVars, batchVars
<1>5. CASE DiscoverLoss(w)
  BY <1>5 DEF TypeOK, DiscoverLoss, storeVars, batchVars
<1>6. CASE AutoCommit(w)
  BY <1>1, <1>6 DEF TypeOK, AutoCommit, storeVars, clientVars, batchVars
<1>7. CASE Crash(w)
  <2>1. disturbances' \in Nat
    BY <1>7 DEF Crash, Disturb, TypeOK
  <2>2. QED
    BY <1>7, <2>1, DownTypeOK DEF Crash
<1>8. CASE Restart(w)
  BY <1>8 DEF TypeOK, Restart, PC, storeVars, clientVars, batchVars
<1>9. QED
  BY <1>2, <1>3, <1>4, <1>5, <1>6, <1>7, <1>8 DEF Kafka

LEMMA ConsumeTypeOK ==
  ASSUME TypeOK, NEW w \in Workers, Consume(w)
  PROVE  TypeOK'
<1>1. PICK n \in 1 .. BatchSize :
        /\ position[w] + n <= Len(log[TopicOf(w)])
        /\ last' = [last EXCEPT ![w] = position[w] + n]
        /\ position' = [position EXCEPT ![w] = position[w] + n]
  BY DEF Consume
<1>2. position[w] + n \in Index /\ position[w] + 1 \in 1 .. LogLen + 1
  BY <1>1, TopicOfType DEF TypeOK, Index
<1>3. QED
  BY <1>1, <1>2 DEF TypeOK, Consume, PC, storeVars

\* The pass over a batch stays within the log.
LEMMA NextRecordType ==
  ASSUME TypeOK, NEW w \in Workers, ~PassOver(w)
  PROVE  NextRecord(w) \in 1 .. LogLen + 1 /\ next[w] \in Index
BY DEF TypeOK, PassOver, NextRecord, Index

LEMMA PutBlobTypeOK ==
  ASSUME TypeOK, NEW w \in Workers, PutBlob(w)
  PROVE  TypeOK'
<1>1. NextRecord(w) \in 1 .. LogLen + 1 /\ next[w] \in Index
  BY NextRecordType DEF PutBlob
<1>2. blobs' \in [Topics -> [Keys -> Index]]
  BY <1>1, TopicOfType DEF TypeOK, PutBlob
<1>3. QED
  BY <1>1, <1>2 DEF TypeOK, PutBlob, clientVars

LEMMA CommitTypeOK ==
  ASSUME TypeOK, NEW w \in Workers, Commit(w)
  PROVE  TypeOK'
<1> DEFINE row(k) == IF RowFor(w, k) = {} THEN rows[TopicOf(w)][k]
                     ELSE CHOOSE i \in RowFor(w, k) : TRUE
<1>1. TopicOf(w) \in Topics
  BY TopicOfType
<1>2. ASSUME NEW k \in Keys PROVE row(k) \in Index
  <2>1. RowFor(w, k) \subseteq Index
    BY DEF RowFor, RecordsOf, TypeOK, Index
  <2>2. QED
    BY <1>1, <2>1 DEF TypeOK
<1>3. rows' = [rows EXCEPT ![TopicOf(w)] = [k \in Keys |-> row(k)]]
  BY <1>1 DEF Commit, TypeOK
<1>4. rows' \in [Topics -> [Keys -> Index]]
  BY <1>1, <1>2, <1>3 DEF TypeOK
<1>5. {TopicOf(w)} \X (first[w] - 1 .. last[w] - 1) \subseteq Topics \X (0 .. LogLen - 1)
  BY <1>1 DEF TypeOK, Index
<1>6. persisted' \in SUBSET (Topics \X (0 .. LogLen - 1))
  BY <1>5 DEF Commit, TypeOK
<1>7. QED
  BY <1>4, <1>6 DEF TypeOK, Commit, PC, clientVars, batchVars

LEMMA PushBatchTypeOK ==
  ASSUME TypeOK, NEW w \in Workers, PushBatch(w)
  PROVE  TypeOK'
<1>1. CASE PutBlob(w)
  BY <1>1, PutBlobTypeOK
<1>2. CASE NextPass(w)
  BY <1>2 DEF TypeOK, NextPass, PC, storeVars, clientVars
<1>3. CASE Enqueue(w)
  BY <1>3 DEF TypeOK, Enqueue, storeVars, clientVars, batchVars
<1>4. CASE WriteRow(w)
  BY <1>4, NextRecordType DEF TypeOK, WriteRow, storeVars, clientVars
<1>5. CASE DeadlockDetected(w)
  <2>1. disturbances' \in Nat
    BY <1>5 DEF DeadlockDetected, TypeOK
  <2>2. QED
    BY <1>5, <2>1, DownTypeOK DEF DeadlockDetected
<1>6. CASE Commit(w)
  BY <1>6, CommitTypeOK
<1>7. CASE StoreOffsets(w)
  <2>1. stored' \in [Workers -> Index] /\ pc' \in [Workers -> PC]
    BY <1>7 DEF TypeOK, StoreOffsets, StoredOffset, PC
  <2>2. QED
    BY <1>7, <2>1, NoBatchTypeOK DEF TypeOK, StoreOffsets, storeVars
<1>8. QED
  BY <1>1, <1>2, <1>3, <1>4, <1>5, <1>6, <1>7 DEF PushBatch

LEMMA TypeStep == TypeOK /\ [Next]_vars => TypeOK'
<1>1. ASSUME TypeOK, UNCHANGED vars PROVE TypeOK'
  BY <1>1 DEF TypeOK, vars, storeVars, clientVars, batchVars
<1>2. ASSUME TypeOK, Next PROVE TypeOK'
  BY <1>2, PublishTypeOK, KafkaTypeOK, ConsumeTypeOK, PushBatchTypeOK DEF Next
<1>3. QED
  BY <1>1, <1>2

LEMMA InitType == Init => TypeOK
<1> SUFFICES ASSUME Init PROVE TypeOK
  OBVIOUS
<1>1. log \in [Topics -> Seq(Record)] /\ \A t \in Topics : Len(log[t]) = 0
  BY DEF Init
<1>2. /\ committed \in [Topics -> Index]
      /\ blobs \in [Topics -> [Keys -> Index]] /\ rows \in [Topics -> [Keys -> Index]]
  BY DEF Init, Index
<1>3. /\ holds \in [Workers -> BOOLEAN] /\ pc \in [Workers -> PC]
      /\ position \in [Workers -> Index] /\ stored \in [Workers -> Index]
      /\ first \in [Workers -> 1 .. LogLen + 1] /\ last \in [Workers -> Index]
      /\ next \in [Workers -> 1 .. LogLen + 1]
  BY DEF Init, PC, Index
<1>4. /\ owner \in [Topics -> Workers \cup {NoOne}]
      /\ queued \in SUBSET Workers
      /\ persisted \in SUBSET (Topics \X (0 .. LogLen - 1))
      /\ disturbances \in Nat /\ evicted \in BOOLEAN
  BY DEF Init
<1>5. \A t \in Topics : Len(log[t]) <= LogLen
  BY <1>1
<1>6. QED
  BY <1>1, <1>2, <1>3, <1>4, <1>5 DEF TypeOK

\* Every variable keeps its type.
THEOREM PersistTypeCorrect == Spec => []TypeOK
BY InitType, TypeStep, PTL DEF Spec

-----------------------------------------------------------------------------
(* The inductive invariant.                                                *)

\* What every step keeps: the log, what is persisted and what is in S3 only grow.
Grows ==
  /\ \A t \in Topics : /\ Len(log[t]) <= Len(log'[t])
                        /\ \A i \in 1 .. Len(log[t]) : log'[t][i] = log[t][i]
  /\ persisted \subseteq persisted'
  /\ \A t \in Topics, k \in Keys : blobs[t][k] # 0 => blobs'[t][k] # 0

\* A step of another worker: v still is where it was.
Keeps(v) ==
  /\ UNCHANGED <<holds[v], position[v], stored[v], pc[v], first[v], last[v], next[v]>>
  /\ owner'[TopicOf(v)] = v => owner[TopicOf(v)] = v

LEMMA PublishGrows ==
  ASSUME TypeOK, NEW t \in Topics, Publish(t)
  PROVE  Grows
<1>1. PICK k \in Keys, o \in Outcomes(t) :
        log' = [log EXCEPT ![t] = Append(@, [key |-> k, outcome |-> o])]
  BY DEF Publish
<1>2. [key |-> k, outcome |-> o] \in Record
  BY DEF Outcomes, Record
<1>3. UNCHANGED <<blobs, persisted>>
  BY DEF Publish, storeVars
<1>4. \A u \in Topics : log[u] \in Seq(Record)
  BY DEF TypeOK
<1>5. ASSUME NEW u \in Topics
      PROVE  /\ Len(log[u]) <= Len(log'[u])
             /\ \A i \in 1 .. Len(log[u]) : log'[u][i] = log[u][i]
  <2>1. CASE u = t
    <3>1. log'[u] = Append(log[u], [key |-> k, outcome |-> o])
      BY <1>1, <2>1 DEF TypeOK
    <3>2. QED
      BY <1>2, <1>4, <3>1
  <2>2. CASE u # t
    BY <1>1, <1>4, <2>2 DEF TypeOK
  <2>3. QED
    BY <2>1, <2>2
<1>6. QED
  BY <1>3, <1>5 DEF Grows

\* Everything but Publish leaves the log alone.
LEMMA QuietGrows ==
  ASSUME TypeOK, log' = log, persisted \subseteq persisted',
         \A t \in Topics, k \in Keys : blobs[t][k] # 0 => blobs'[t][k] # 0
  PROVE  Grows
<1>1. \A t \in Topics : Len(log[t]) \in Nat
  BY DEF TypeOK
<1>2. QED
  BY <1>1 DEF Grows

LEMMA WorkerGrows ==
  ASSUME TypeOK, NEW w \in Workers, Kafka(w) \/ Consume(w) \/ PushBatch(w)
  PROVE  Grows
<1>1. log' = log
  BY DEF Kafka, Assign, Revoke, Evict, DiscoverLoss, AutoCommit, Crash, Restart, Down, Consume,
         PushBatch, PutBlob, NextPass, Enqueue, WriteRow, DeadlockDetected, Commit, StoreOffsets
<1>2. persisted \subseteq persisted'
  BY DEF Kafka, Assign, Revoke, Evict, DiscoverLoss, AutoCommit, Crash, Restart, Down, Consume,
         PushBatch, PutBlob, NextPass, Enqueue, WriteRow, DeadlockDetected, Commit,
         StoreOffsets, storeVars
<1>3. CASE PutBlob(w)
  <2>1. next[w] # 0 /\ TopicOf(w) \in Topics
    BY TopicOfType DEF TypeOK
  <2>2. \A t \in Topics, k \in Keys : blobs[t][k] # 0 => blobs'[t][k] # 0
    BY <1>3, <2>1 DEF PutBlob, TypeOK
  <2>3. QED
    BY <1>1, <1>2, <2>2, QuietGrows
<1>4. CASE ~PutBlob(w)
  <2>1. blobs' = blobs
    BY <1>4 DEF Kafka, Assign, Revoke, Evict, DiscoverLoss, AutoCommit, Crash, Restart, Down,
                Consume, PushBatch, NextPass, Enqueue, WriteRow, DeadlockDetected, Commit,
                StoreOffsets, storeVars
  <2>2. QED
    BY <1>1, <1>2, <2>1, QuietGrows
<1>5. QED
  BY <1>3, <1>4

LEMMA KeepsWorker ==
  ASSUME TypeOK, TypeOK', Grows, NEW v \in Workers, Keeps(v), QueueOf(v), BlobsOf(v)
  PROVE  QueueOf(v)' /\ BlobsOf(v)'
<1>1. TopicOf(v) \in Topics /\ TopicOf(v)' = TopicOf(v)
  BY TopicOfType DEF TopicOf
<1>2. Len(log[TopicOf(v)]) <= Len(log'[TopicOf(v)])
  BY <1>1 DEF Grows
<1>3. QueueOf(v)'
  <2>1. Len(log[TopicOf(v)]) \in Nat /\ Len(log'[TopicOf(v)]) \in Nat
    BY <1>1 DEF TypeOK
  <2>2. \A n : AllPersisted(TopicOf(v), n) => AllPersisted(TopicOf(v), n)'
    BY DEF Grows, AllPersisted
  <2>3. holds[v] => stored[v] <= Len(log'[TopicOf(v)]) /\ position[v] <= Len(log'[TopicOf(v)])
    BY <1>2, <2>1, NumbersOf DEF QueueOf
  <2>4. QED
    BY <1>1, <2>2, <2>3 DEF Keeps, QueueOf, AllPersisted, InBatch
<1>4. ASSUME NEW i \in first[v] .. last[v], InBatch(v), HasDocument(v, i)',
             pc[v] = "blobs" => i < next[v]
      PROVE  blobs'[TopicOf(v)][Rec(v, i)'.key] # 0
  <2>1. i \in 1 .. Len(log[TopicOf(v)])
    <3>1. last[v] <= Len(log[TopicOf(v)])
      BY <1>4 DEF QueueOf
    <3>2. QED
      BY <1>4, <3>1, NumbersOf
  <2>2. Rec(v, i)' = Rec(v, i) /\ Rec(v, i).key \in Keys
    <3>1. log[TopicOf(v)] \in Seq(Record)
      BY <1>1 DEF TypeOK
    <3>2. log[TopicOf(v)][i] \in Record
      BY <2>1, <3>1
    <3>3. log'[TopicOf(v)][i] = log[TopicOf(v)][i]
      BY <1>1, <2>1 DEF Grows
    <3>4. QED
      BY <1>1, <3>2, <3>3 DEF Rec, Record
  <2>3. HasDocument(v, i)
    BY <1>4, <2>2 DEF HasDocument
  <2>4. blobs[TopicOf(v)][Rec(v, i).key] # 0
    BY <1>4, <2>3 DEF BlobsOf
  <2>5. QED
    BY <1>1, <2>2, <2>4 DEF Grows
<1>5. BlobsOf(v)'
  BY <1>1, <1>4 DEF BlobsOf, Keeps, InBatch
<1>6. QED
  BY <1>3, <1>5

\* No other worker notices what w does: its topic cannot become that of another owner.
LEMMA OthersKeep ==
  ASSUME TypeOK, NEW w \in Workers, NEW v \in Workers \ {w},
         Kafka(w) \/ Consume(w) \/ PushBatch(w)
  PROVE  Keeps(v)
<1>1. TopicOf(v) \in Topics /\ TopicOf(w) \in Topics
  BY TopicOfType
<1>2. owner'[TopicOf(v)] = v => owner[TopicOf(v)] = v
  <2>1. CASE Assign(w)
    BY <1>1, <2>1 DEF TypeOK, Assign
  <2>2. CASE Revoke(w) \/ Evict(w)
    BY <1>1, <2>2 DEF TypeOK, Revoke, Evict
  <2>3. CASE Crash(w) \/ DeadlockDetected(w)
    BY <1>1, <2>3 DEF TypeOK, Crash, DeadlockDetected, Down
  <2>4. CASE ~(Assign(w) \/ Revoke(w) \/ Evict(w) \/ Crash(w) \/ DeadlockDetected(w))
    BY <2>4 DEF Kafka, DiscoverLoss, AutoCommit, Restart, Consume, PushBatch, PutBlob,
                NextPass, Enqueue, WriteRow, Commit, StoreOffsets
  <2>5. QED
    BY <2>1, <2>2, <2>3, <2>4
<1>3. CASE Kafka(w)
  BY <1>2, <1>3 DEF TypeOK, Keeps, Kafka, Assign, Revoke, Evict, DiscoverLoss, AutoCommit,
                    Crash, Restart, Down, NoBatch, clientVars, batchVars
<1>4. CASE Consume(w)
  BY <1>2, <1>4 DEF TypeOK, Keeps, Consume
<1>5. CASE PushBatch(w)
  BY <1>2, <1>5 DEF TypeOK, Keeps, PushBatch, PutBlob, NextPass, Enqueue, WriteRow,
                    DeadlockDetected, Down, NoBatch, Commit, StoreOffsets, clientVars, batchVars
<1>6. QED
  BY <1>3, <1>4, <1>5

\* What the process of w has done to its own state when it ends.
LEMMA DownQueue ==
  ASSUME TypeOK, NEW w \in Workers, Down(w)
  PROVE  QueueOf(w)' /\ BlobsOf(w)'
<1>1. TopicOf(w) \in Topics
  BY TopicOfType
<1>2. pc'[w] = "down" /\ ~holds'[w]
  BY DEF TypeOK, Down
<1>3. owner'[TopicOf(w)] # w
  BY <1>1 DEF TypeOK, Down
<1>4. QED
  BY <1>2, <1>3 DEF QueueOf, BlobsOf, InBatch, TopicOf

LEMMA KafkaQueue ==
  ASSUME TypeOK, TypeOK', Grows, QueueInv, NEW w \in Workers, BlobsOf(w), Kafka(w)
  PROVE  QueueOf(w)' /\ BlobsOf(w)'
<1>1. TopicOf(w) \in Topics /\ TopicOf(w)' = TopicOf(w)
  BY TopicOfType DEF TopicOf
<1>2. QueueOf(w)
  BY DEF QueueInv
<1>3. CASE Assign(w)
  BY <1>1, <1>2, <1>3
     DEF TypeOK, QueueInv, QueueOf, BlobsOf, Assign, InBatch, AllPersisted, storeVars, batchVars
<1>4. CASE Revoke(w)
  BY <1>1, <1>2, <1>4
     DEF TypeOK, QueueOf, BlobsOf, Revoke, InBatch, AllPersisted, storeVars, batchVars
<1>5. CASE Evict(w)
  <2>1. Keeps(w)
    BY <1>1, <1>5 DEF TypeOK, Evict, Keeps, clientVars, batchVars
  <2>2. QED
    BY <1>2, <2>1, KeepsWorker
<1>6. CASE DiscoverLoss(w)
  BY <1>1, <1>2, <1>6
     DEF TypeOK, QueueOf, BlobsOf, DiscoverLoss, InBatch, AllPersisted, storeVars, batchVars
<1>7. CASE AutoCommit(w)
  <2>1. Keeps(w)
    BY <1>1, <1>7 DEF AutoCommit, Keeps, clientVars, batchVars
  <2>2. QED
    BY <1>2, <2>1, KeepsWorker
<1>8. CASE Crash(w)
  BY <1>8, DownQueue DEF Crash
<1>9. CASE Restart(w)
  <2>1. ~holds[w] /\ owner[TopicOf(w)] # w /\ pc'[w] = "polling"
    BY <1>2, <1>9 DEF QueueOf, Restart, TypeOK
  <2>2. QED
    BY <1>1, <1>9, <2>1 DEF Restart, QueueOf, BlobsOf, InBatch, clientVars
<1>10. QED
  BY <1>3, <1>4, <1>5, <1>6, <1>7, <1>8, <1>9 DEF Kafka

LEMMA ConsumeQueue ==
  ASSUME TypeOK, TypeOK', QueueInv, NEW w \in Workers, Consume(w)
  PROVE  QueueOf(w)' /\ BlobsOf(w)'
<1>1. TopicOf(w) \in Topics /\ TopicOf(w)' = TopicOf(w)
  BY TopicOfType DEF TopicOf
<1>2. QueueOf(w)
  BY DEF QueueInv
<1>3. PICK n \in 1 .. BatchSize :
        /\ position[w] + n <= Len(log[TopicOf(w)])
        /\ last' = [last EXCEPT ![w] = position[w] + n]
        /\ position' = [position EXCEPT ![w] = position[w] + n]
  BY DEF Consume
<1>4. /\ pc'[w] = "blobs" /\ first'[w] = position[w] + 1 /\ next'[w] = first'[w]
      /\ last'[w] = position[w] + n /\ position'[w] = last'[w] /\ n >= 1
      /\ position[w] \in Nat /\ n \in Nat
  BY <1>3 DEF TypeOK, Consume, Index
<1>5. UNCHANGED <<log, owner, holds, stored, persisted>> /\ holds[w]
  BY DEF Consume, storeVars
<1>6. AllPersisted(TopicOf(w), first'[w] - 1)
  BY <1>2, <1>4, <1>5 DEF QueueOf, Consume, AllPersisted
<1>7. QueueOf(w)'
  BY <1>1, <1>2, <1>3, <1>4, <1>5, <1>6 DEF QueueOf, InBatch, AllPersisted
<1>8. BlobsOf(w)'
  BY <1>4 DEF BlobsOf
<1>9. QED
  BY <1>7, <1>8

\* The record a worker is at, and every record of its batch, is in the log.
LEMMA BatchInLog ==
  ASSUME TypeOK, NEW w \in Workers, QueueOf(w), InBatch(w), NEW i \in first[w] .. last[w]
  PROVE  /\ i \in 1 .. Len(log[TopicOf(w)])
         /\ Rec(w, i) \in Record
<1>1. TopicOf(w) \in Topics
  BY TopicOfType
<1>2. i \in 1 .. Len(log[TopicOf(w)])
  BY <1>1 DEF QueueOf, TypeOK, Index
<1>3. log[TopicOf(w)] \in Seq(Record)
  BY <1>1 DEF TypeOK
<1>4. QED
  BY <1>2, <1>3 DEF Rec

LEMMA PassQueue ==
  ASSUME TypeOK, TypeOK', NEW w \in Workers, QueueOf(w), BlobsOf(w),
         PutBlob(w) \/ NextPass(w) \/ Enqueue(w) \/ WriteRow(w)
  PROVE  QueueOf(w)' /\ BlobsOf(w)'
<1>1. TopicOf(w) \in Topics /\ TopicOf(w)' = TopicOf(w)
  BY TopicOfType DEF TopicOf
<1>2. UNCHANGED <<log, owner, holds, stored, position, first, last, persisted>>
  BY DEF PutBlob, NextPass, Enqueue, WriteRow, clientVars, batchVars, storeVars
<1>3. CASE PutBlob(w)
  <2>1. pc' = pc /\ pc[w] = "blobs"
    BY <1>3 DEF PutBlob
  <2>2. QueueOf(w)'
    BY <1>1, <1>2, <2>1 DEF QueueOf, InBatch, AllPersisted
  <2>3. ASSUME NEW i \in first[w] .. last[w], i < next'[w], HasDocument(w, i)
        PROVE  blobs'[TopicOf(w)][Rec(w, i).key] # 0
    <3>0. next[w] \in Int /\ first[w] \in Int /\ last[w] \in Int
      BY DEF TypeOK, Index
    <3>1. next[w] \in first[w] .. last[w] \/ next[w] < first[w]
      BY <1>3, <3>0 DEF PutBlob, PassOver
    <3>2. next'[w] = next[w] + 1 /\ next[w] \in Nat \ {0}
      BY <1>3 DEF PutBlob, NextRecord, TypeOK
    <3>3. Rec(w, i).key \in Keys
      BY <2>1, BatchInLog DEF InBatch, Record
    <3>4. CASE i = next[w]
      BY <1>1, <1>3, <2>3, <3>2, <3>3, <3>4 DEF PutBlob, TypeOK
    <3>5. CASE i # next[w]
      <4>1. i < next[w]
        BY <2>3, <3>0, <3>2, <3>5
      <4>2. blobs[TopicOf(w)][Rec(w, i).key] # 0
        BY <2>1, <2>3, <4>1 DEF BlobsOf, InBatch
      <4>3. QED
        BY <1>1, <1>3, <3>2, <3>3, <4>2 DEF PutBlob, TypeOK
    <3>6. QED
      BY <3>4, <3>5
  <2>4. BlobsOf(w)'
    BY <1>1, <1>2, <2>1, <2>3 DEF BlobsOf, Rec, HasDocument
  <2>5. QED
    BY <2>2, <2>4
<1>4. CASE NextPass(w)
  <2>1. pc[w] \in {"blobs", "rows"} /\ pc'[w] \in {"rows", "file_meta"} /\ next[w] > last[w]
        /\ blobs' = blobs
    BY <1>4 DEF NextPass, PassOver, TypeOK, storeVars
  <2>2. QueueOf(w)'
    BY <1>1, <1>2, <2>1 DEF QueueOf, InBatch, AllPersisted
  <2>3. \A i \in first[w] .. last[w] : i < next[w]
    BY <2>1 DEF TypeOK, Index
  <2>4. BlobsOf(w)'
    BY <1>1, <1>2, <2>1, <2>3 DEF BlobsOf, InBatch, Rec, HasDocument
  <2>5. QED
    BY <2>2, <2>4
<1>5. CASE Enqueue(w)
  BY <1>1, <1>2, <1>5
     DEF Enqueue, QueueOf, BlobsOf, InBatch, AllPersisted, Rec, HasDocument, storeVars, batchVars
<1>6. CASE WriteRow(w)
  <2>1. pc' = pc /\ pc[w] \in {"rows", "file_meta"} /\ blobs' = blobs
    BY <1>6 DEF WriteRow, storeVars
  <2>2. QED
    BY <1>1, <1>2, <2>1 DEF QueueOf, BlobsOf, InBatch, AllPersisted, Rec, HasDocument
<1>7. QED
  BY <1>3, <1>4, <1>5, <1>6

LEMMA PushBatchQueue ==
  ASSUME TypeOK, TypeOK', NEW w \in Workers, QueueOf(w), BlobsOf(w), PushBatch(w)
  PROVE  QueueOf(w)' /\ BlobsOf(w)'
<1>1. TopicOf(w) \in Topics /\ TopicOf(w)' = TopicOf(w)
  BY TopicOfType DEF TopicOf
<1>2. CASE PutBlob(w) \/ NextPass(w) \/ Enqueue(w) \/ WriteRow(w)
  BY <1>2, PassQueue
<1>3. CASE DeadlockDetected(w)
  BY <1>3, DownQueue DEF DeadlockDetected
<1>4. CASE Commit(w)
  <2>1. /\ pc[w] = "file_meta" /\ pc'[w] = "committed"
        /\ UNCHANGED <<log, owner, holds, stored, position, first, last, blobs>>
        /\ persisted' = persisted \cup ({TopicOf(w)} \X (first[w] - 1 .. last[w] - 1))
    BY <1>4 DEF Commit, TypeOK, clientVars, batchVars
  <2>2. AllPersisted(TopicOf(w), last[w])'
    <3>1. AllPersisted(TopicOf(w), first[w] - 1)
      BY <2>1 DEF QueueOf, InBatch
    <3>2. ASSUME NEW o \in 0 .. last[w] - 1 PROVE <<TopicOf(w), o>> \in persisted'
      <4>1. CASE o <= first[w] - 2
        <5>1. o \in 0 .. (first[w] - 1) - 1
          BY <4>1, NumbersOf
        <5>2. QED
          BY <2>1, <3>1, <5>1 DEF AllPersisted
      <4>2. CASE o > first[w] - 2
        <5>1. o \in first[w] - 1 .. last[w] - 1
          BY <4>2, NumbersOf
        <5>2. QED
          BY <2>1, <5>1
      <4>3. QED
        BY <4>1, <4>2, NumbersOf
    <3>3. QED
      BY <1>1, <2>1, <3>2 DEF AllPersisted
  <2>3. QueueOf(w)'
    BY <1>1, <2>1, <2>2 DEF QueueOf, InBatch, AllPersisted
  <2>4. BlobsOf(w)'
    BY <1>1, <2>1 DEF BlobsOf, InBatch, Rec, HasDocument
  <2>5. QED
    BY <2>3, <2>4
<1>5. CASE StoreOffsets(w)
  <2>1. /\ pc[w] = "committed" /\ pc'[w] = "polling" /\ stored'[w] = last[w]
        /\ UNCHANGED <<log, owner, holds, position, persisted>>
    BY <1>5 DEF StoreOffsets, StoredOffset, TypeOK, storeVars
  <2>2. QED
    BY <1>1, <2>1 DEF QueueOf, BlobsOf, InBatch, AllPersisted
<1>6. QED
  BY <1>2, <1>3, <1>4, <1>5 DEF PushBatch

\* Every step keeps what the invariant says of each worker.
LEMMA WorkersStep ==
  ASSUME IInv, Next
  PROVE  TypeOK' /\ Grows /\ \A v \in Workers : QueueOf(v)' /\ BlobsOf(v)'
<1>1. TypeOK /\ TypeOK'
  BY TypeStep DEF IInv
<1>2. ASSUME NEW v \in Workers PROVE QueueOf(v) /\ BlobsOf(v)
  BY DEF IInv, QueueInv, BlobInv
<1>3. ASSUME NEW t \in Topics, Publish(t)
      PROVE  Grows /\ \A v \in Workers : QueueOf(v)' /\ BlobsOf(v)'
  <2>1. Grows
    BY <1>1, <1>3, PublishGrows
  <2>2. \A v \in Workers : Keeps(v)
    BY <1>3 DEF Publish, Keeps, clientVars, batchVars
  <2>3. QED
    BY <1>1, <1>2, <2>1, <2>2, KeepsWorker
<1>4. ASSUME NEW w \in Workers, Kafka(w) \/ Consume(w) \/ PushBatch(w)
      PROVE  Grows /\ \A v \in Workers : QueueOf(v)' /\ BlobsOf(v)'
  <2>1. Grows
    BY <1>1, <1>4, WorkerGrows
  <2>2. ASSUME NEW v \in Workers \ {w} PROVE QueueOf(v)' /\ BlobsOf(v)'
    BY <1>1, <1>2, <1>4, <2>1, OthersKeep, KeepsWorker
  <2>3. QueueOf(w)' /\ BlobsOf(w)'
    BY <1>1, <1>2, <1>4, <2>1, KafkaQueue, ConsumeQueue, PushBatchQueue DEF IInv
  <2>4. QED
    BY <2>1, <2>2, <2>3
<1>5. QED
  BY <1>1, <1>3, <1>4 DEF Next

\* A committed offset is only ever moved to what its owner has stored.
LEMMA CommittedStep ==
  ASSUME IInv, Next, TypeOK', Grows
  PROVE  \A t \in Topics : AllPersisted(t, committed[t])' /\ committed'[t] <= Len(log'[t])
<1> SUFFICES ASSUME NEW t \in Topics
             PROVE  AllPersisted(t, committed[t])' /\ committed'[t] <= Len(log'[t])
  OBVIOUS
<1>1. /\ AllPersisted(t, committed[t]) /\ committed[t] <= Len(log[t])
      /\ committed[t] \in Nat /\ Len(log[t]) \in Nat /\ Len(log'[t]) \in Nat
      /\ Len(log[t]) <= Len(log'[t]) /\ persisted \subseteq persisted'
  BY DEF IInv, QueueInv, TypeOK, Index, Grows
<1>2. CASE committed'[t] = committed[t]
  BY <1>1, <1>2 DEF AllPersisted
<1>3. ASSUME committed'[t] # committed[t]
      PROVE  \E w \in Workers : TopicOf(w) = t /\ owner[t] = w /\ committed'[t] = stored[w]
  <2>1. PICK w \in Workers : Kafka(w) \/ Consume(w) \/ PushBatch(w)
    BY <1>3 DEF Next, Publish
  <2>2. Revoke(w) \/ AutoCommit(w)
    BY <1>3, <2>1 DEF Kafka, Assign, Evict, DiscoverLoss, Crash, Restart, Down, Consume,
         PushBatch, PutBlob, NextPass, Enqueue, WriteRow, DeadlockDetected, Commit, StoreOffsets
  <2>3. committed' \in {committed, [committed EXCEPT ![TopicOf(w)] = stored[w]]}
        /\ owner[TopicOf(w)] = w
    BY <2>2 DEF Revoke, AutoCommit
  <2>4. TopicOf(w) = t /\ committed'[t] = stored[w]
    BY <1>3, <2>3 DEF IInv, TypeOK
  <2>5. QED
    BY <2>3, <2>4
<1>4. CASE committed'[t] # committed[t]
  <2>1. PICK w \in Workers : TopicOf(w) = t /\ owner[t] = w /\ committed'[t] = stored[w]
    BY <1>3, <1>4
  <2>2. AllPersisted(t, stored[w]) /\ stored[w] <= Len(log[t]) /\ stored[w] \in Nat
    BY <2>1 DEF IInv, QueueInv, QueueOf, TypeOK, Index
  <2>3. QED
    BY <1>1, <2>1, <2>2 DEF AllPersisted
<1>5. QED
  BY <1>2, <1>4

\* The record a commit chooses for the row of a key is one of the batch, with that key.
LEMMA RowForIsOfKey ==
  ASSUME TypeOK, NEW w \in Workers, QueueOf(w), InBatch(w), NEW k \in Keys,
         NEW i \in RowFor(w, k)
  PROVE  /\ i \in first[w] .. last[w] /\ i \in 1 .. Len(log[TopicOf(w)])
         /\ Rec(w, i).key = k
<1>1. i \in first[w] .. last[w] /\ Rec(w, i).key = k
  BY DEF RowFor, RecordsOf
<1>2. QED
  BY <1>1, BatchInLog

\* Only a commit changes a row, and it leaves one of its batch, whose blobs are in S3.
LEMMA RowsStep ==
  ASSUME IInv, Next, TypeOK', Grows
  PROVE  RowHasBlob' /\ RowOfKey'
<1> SUFFICES ASSUME NEW t \in Topics, NEW k \in Keys, rows'[t][k] # 0
             PROVE  /\ rows'[t][k] <= Len(log'[t]) /\ log'[t][rows'[t][k]].key = k
                    /\ Documented(t, rows[t][k])' => blobs'[t][k] # 0
  BY DEF RowHasBlob, RowOfKey
<1>1. /\ Len(log[t]) \in Nat /\ Len(log'[t]) \in Nat /\ Len(log[t]) <= Len(log'[t])
      /\ \A i \in 1 .. Len(log[t]) : log'[t][i] = log[t][i]
      /\ blobs[t][k] # 0 => blobs'[t][k] # 0
  BY DEF IInv, TypeOK, Grows
<1>2. ASSUME NEW i \in 1 .. Len(log[t]), rows'[t][k] = i, log[t][i].key = k,
             Documented(t, i) => blobs[t][k] # 0
      PROVE  /\ rows'[t][k] <= Len(log'[t]) /\ log'[t][rows'[t][k]].key = k
             /\ Documented(t, rows[t][k])' => blobs'[t][k] # 0
  BY <1>1, <1>2 DEF Documented
<1>3. CASE rows'[t][k] = rows[t][k]
  <2>1. rows[t][k] \in 1 .. Len(log[t]) /\ log[t][rows[t][k]].key = k
    BY <1>1, <1>3 DEF IInv, BlobInv, RowOfKey, TypeOK, Index
  <2>2. Documented(t, rows[t][k]) => blobs[t][k] # 0
    BY <1>3 DEF IInv, BlobInv, RowHasBlob
  <2>3. QED
    BY <1>2, <1>3, <2>1, <2>2
<1>4. CASE rows'[t][k] # rows[t][k]
  <2>1. PICK w \in Workers : Commit(w)
    BY <1>4 DEF Next, Publish, Kafka, Assign, Revoke, Evict, DiscoverLoss, AutoCommit, Crash,
         Restart, Down, Consume, PushBatch, PutBlob, NextPass, Enqueue, WriteRow,
         DeadlockDetected, StoreOffsets, storeVars
  <2>2. TopicOf(w) = t /\ RowFor(w, k) # {}
        /\ rows'[t][k] = CHOOSE i \in RowFor(w, k) : TRUE
    BY <1>4, <2>1 DEF Commit, IInv, TypeOK
  <2>3. pc[w] = "file_meta" /\ QueueOf(w) /\ BlobsOf(w) /\ TypeOK
    BY <2>1 DEF Commit, IInv, QueueInv, BlobInv
  <2>4. PICK i \in RowFor(w, k) : rows'[t][k] = i
    BY <2>2
  <2>5. i \in first[w] .. last[w] /\ i \in 1 .. Len(log[t]) /\ log[t][i].key = k
    BY <2>2, <2>3, RowForIsOfKey DEF InBatch, Rec
  <2>6. Documented(t, i) => blobs[t][k] # 0
    BY <2>2, <2>3, <2>5 DEF BlobsOf, InBatch, HasDocument, Documented, Rec
  <2>7. QED
    BY <1>2, <2>4, <2>5, <2>6
<1>5. QED
  BY <1>3, <1>4

LEMMA InvStep == IInv /\ [Next]_vars => IInv'
<1>1. ASSUME IInv, Next PROVE IInv'
  <2>1. TypeOK' /\ Grows /\ \A v \in Workers : QueueOf(v)' /\ BlobsOf(v)'
    BY <1>1, WorkersStep
  <2>2. \A t \in Topics : AllPersisted(t, committed[t])' /\ committed'[t] <= Len(log'[t])
    BY <1>1, <2>1, CommittedStep
  <2>3. RowHasBlob' /\ RowOfKey'
    BY <1>1, <2>1, RowsStep
  <2>4. QED
    BY <2>1, <2>2, <2>3 DEF IInv, QueueInv, BlobInv
<1>2. ASSUME IInv, UNCHANGED vars PROVE IInv'
  BY <1>2 DEF IInv, vars, storeVars, clientVars, batchVars, TypeOK, QueueInv, QueueOf,
       AllPersisted, InBatch, BlobInv, BlobsOf, HasDocument, Rec, RowHasBlob, RowOfKey, Documented
<1>3. QED
  BY <1>1, <1>2

LEMMA InitInv == Init => IInv
<1> SUFFICES ASSUME Init PROVE IInv
  OBVIOUS
<1>1. TypeOK
  BY InitType
<1>2. QueueInv
  <2>1. \A t \in Topics : AllPersisted(t, committed[t]) /\ committed[t] <= Len(log[t])
    BY <1>1 DEF Init, AllPersisted, TypeOK
  <2>2. ASSUME NEW w \in Workers PROVE QueueOf(w)
    <3>1. ~holds[w] /\ pc[w] = "polling" /\ TopicOf(w) \in Topics
      BY TopicOfType DEF Init
    <3>2. owner[TopicOf(w)] # w
      BY <3>1 DEF Init
    <3>3. QED
      BY <3>1, <3>2 DEF QueueOf, InBatch
  <2>3. QED
    BY <2>1, <2>2 DEF QueueInv
<1>3. BlobInv
  BY DEF Init, BlobInv, RowHasBlob, RowOfKey, BlobsOf
<1>4. QED
  BY <1>1, <1>2, <1>3 DEF IInv

\* The inductive invariant: what each worker has stored, fetched and put is accounted for.
THEOREM PersistInductive == Spec => []IInv
BY InitInv, InvStep, PTL DEF Spec

\* The grobid or pdf_meta row of a record that came with a document has one in S3, whatever
\* crashed, was redelivered or was rolled back before.
THEOREM DocumentsAreStored == Spec => []RowHasBlob
<1>1. IInv => RowHasBlob
  BY DEF IInv, BlobInv
<1>2. QED
  BY <1>1, PersistInductive, PTL

-----------------------------------------------------------------------------
(* The topics are work queues.                                             *)

LEMMA PublishRefines ==
  ASSUME TypeOK, NEW t \in Topics, Publish(t)
  PROVE  Queue!Publish(t)
<1>1. PICK k \in Keys, o \in Outcomes(t) :
        log' = [log EXCEPT ![t] = Append(@, [key |-> k, outcome |-> o])]
  BY DEF Publish
<1>2. [key |-> k, outcome |-> o] \in Record
  BY DEF Outcomes, Record
<1>3. Len(log[t]) < LogLen /\ UNCHANGED <<persisted, committed>>
  BY DEF Publish, storeVars
<1>4. ASSUME NEW u \in Topics
      PROVE  Len(log'[u]) = IF u = t THEN Len(log[u]) + 1 ELSE Len(log[u])
  <2>1. log[u] \in Seq(Record)
    BY DEF TypeOK
  <2>2. CASE u = t
    <3>1. log'[u] = Append(log[u], [key |-> k, outcome |-> o])
      BY <1>1, <2>2 DEF TypeOK
    <3>2. QED
      BY <1>2, <2>1, <2>2, <3>1
  <2>3. CASE u # t
    BY <1>1, <2>3 DEF TypeOK
  <2>4. QED
    BY <2>2, <2>3
<1>5. [u \in Topics |-> Len(log[u])]'
        = [[u \in Topics |-> Len(log[u])] EXCEPT ![t] = @ + 1]
  BY <1>4
<1>6. QED
  BY <1>3, <1>5 DEF Queue!Publish

\* What is stored for a topic can be committed by its owner.
LEMMA OwnerCommitRefines ==
  ASSUME IInv, NEW w \in Workers, owner[TopicOf(w)] = w,
         committed' = [committed EXCEPT ![TopicOf(w)] = stored[w]],
         UNCHANGED <<log, persisted>>
  PROVE  Queue!Commit(TopicOf(w))
<1>1. TopicOf(w) \in Topics
  BY TopicOfType
<1>2. AllPersisted(TopicOf(w), stored[w]) /\ stored[w] \in 0 .. Len(log[TopicOf(w)])
  BY <1>1 DEF IInv, QueueInv, QueueOf, TypeOK, Index
<1>3. Queue!Settled(TopicOf(w), stored[w])
  BY <1>2 DEF AllPersisted, Queue!Settled
<1>4. QED
  BY <1>1, <1>2, <1>3 DEF Queue!Commit

\* The transaction handles the records of the batch.
LEMMA TransactionRefines ==
  ASSUME IInv, NEW w \in Workers, Commit(w)
  PROVE  Queue!Handle
<1> DEFINE done == {TopicOf(w)} \X (first[w] - 1 .. last[w] - 1)
<1>1. TopicOf(w) \in Topics
  BY TopicOfType
<1>2. /\ first[w] \in 1 .. LogLen + 1 /\ last[w] \in 0 .. LogLen
      /\ last[w] <= Len(log[TopicOf(w)]) /\ Len(log[TopicOf(w)]) \in Nat
  BY <1>1 DEF Commit, IInv, TypeOK, QueueInv, QueueOf, InBatch, Index
<1>3. done \in SUBSET Queue!Message
  BY <1>1, <1>2 DEF Queue!Message
<1>4. \A m \in done : m[2] < [t \in Topics |-> Len(log[t])][m[1]]
  BY <1>1, <1>2
<1>5. persisted' = persisted \cup done /\ UNCHANGED <<log, committed>>
  BY DEF Commit
<1>6. QED
  BY <1>3, <1>4, <1>5 DEF Queue!Handle

LEMMA WorkerRefines ==
  ASSUME IInv, NEW w \in Workers, Kafka(w) \/ Consume(w) \/ PushBatch(w)
  PROVE  Queue!Next \/ UNCHANGED Queue!vars
<1>1. TopicOf(w) \in Topics
  BY TopicOfType
<1>2. CASE Commit(w)
  BY <1>2, TransactionRefines DEF Queue!Next
<1>3. CASE AutoCommit(w)
  BY <1>1, <1>3, OwnerCommitRefines DEF AutoCommit, Queue!Next, storeVars
<1>4. CASE Revoke(w)
  <2>1. CASE committed' = committed
    BY <1>4, <2>1 DEF Revoke, Queue!vars, storeVars
  <2>2. CASE committed' = [committed EXCEPT ![TopicOf(w)] = stored[w]]
    BY <1>1, <1>4, <2>2, OwnerCommitRefines DEF Revoke, Queue!Next, storeVars
  <2>3. QED
    BY <1>4, <2>1, <2>2 DEF Revoke
<1>5. CASE ~(Commit(w) \/ AutoCommit(w) \/ Revoke(w))
  <2>1. UNCHANGED <<log, persisted, committed>>
    BY <1>5 DEF Kafka, Assign, Evict, DiscoverLoss, Crash, Restart, Down, Consume, PushBatch,
                PutBlob, NextPass, Enqueue, WriteRow, DeadlockDetected, StoreOffsets, storeVars
  <2>2. QED
    BY <2>1 DEF Queue!vars
<1>6. QED
  BY <1>2, <1>3, <1>4, <1>5

\* The committed offset of a topic never covers a record that is not in Postgres: with S3,
\* the transactions and their deadlocks, the two groups still implement WorkQueue.
THEOREM PersistRefinement == Spec => ImplementsQueue
<1>1. Init => Queue!Init
  <2> SUFFICES ASSUME Init PROVE Queue!Init
    OBVIOUS
  <2>1. [t \in Topics |-> Len(log[t])] = [t \in Topics |-> 0]
    BY DEF Init
  <2>2. committed \in [Topics -> {Queue!NoOffset, 0}]
    BY DEF Init
  <2>3. QED
    BY <2>1, <2>2 DEF Init, Queue!Init
<1>2. IInv /\ [Next]_vars => [Queue!Next]_Queue!vars
  <2>1. ASSUME IInv, Next PROVE Queue!Next \/ UNCHANGED Queue!vars
    <3>1. ASSUME NEW t \in Topics, Publish(t) PROVE Queue!Next
      BY <2>1, <3>1, PublishRefines DEF IInv, Queue!Next
    <3>2. QED
      BY <2>1, <3>1, WorkerRefines DEF Next
  <2>2. ASSUME UNCHANGED vars PROVE UNCHANGED Queue!vars
    BY <2>2 DEF vars, storeVars, Queue!vars
  <2>3. QED
    BY <2>1, <2>2
<1>3. QED
  BY <1>1, <1>2, PersistInductive, PTL DEF Spec, ImplementsQueue, Queue!Spec
-----------------------------------------------------------------------------
(* Tables and S3 are up to date.                                           *)

\* A non-empty set of numbers with a bound has a greatest element.
LEMMA GreatestExists ==
  ASSUME NEW n \in Nat, NEW S \in SUBSET (0 .. n), S # {}
  PROVE  \E m \in S : \A i \in S : i <= m
<1> DEFINE T == {n - i : i \in S}
<1>1. T \subseteq Nat /\ T # {}
  <2>1. \A i \in S : n - i \in Nat
    BY SMT
  <2>2. PICK i \in S : TRUE
    OBVIOUS
  <2>3. n - i \in T
    BY <2>2
  <2>4. QED
    BY <2>1, <2>3
<1>2. PICK x \in T : \A y \in T : ~(<<y, x>> \in OpToRel(<, Nat))
  BY <1>1, NatLessThanWellFounded, WFMin
<1>3. \A y \in T : ~(y < x)
  BY <1>1, <1>2 DEF OpToRel
<1>4. PICK m \in S : x = n - m
  OBVIOUS
<1>5. ASSUME NEW i \in S PROVE i <= m
  <2>1. ~(n - i < n - m)
    BY <1>3, <1>4
  <2>2. QED
    BY <2>1
<1>6. QED
  BY <1>5

\* Rows that stay, or are written ahead of n, stay up to date below n.
LEMMA RowsStay ==
  ASSUME TypeOK, TypeOK', Grows, NEW t \in Topics, NEW n \in 0 .. Len(log[t]), RowsBelow(t, n),
         \A k \in Keys : rows'[t][k] = rows[t][k] \/ rows'[t][k] >= n
  PROVE  RowsBelow(t, n)'
<1> SUFFICES ASSUME NEW i \in 1 .. n, log'[t][i].outcome # "no-status"
             PROVE  i <= rows'[t][log'[t][i].key]
  BY DEF RowsBelow
<1>1. Len(log[t]) \in Nat /\ i \in 1 .. Len(log[t]) /\ log'[t][i] = log[t][i]
  BY DEF TypeOK, Grows
<1>2. log[t][i] \in Record
  BY <1>1 DEF TypeOK
<1>3. log[t][i].key \in Keys
  BY <1>2 DEF Record
<1>4. i <= rows[t][log[t][i].key]
  BY <1>1 DEF RowsBelow
<1>5. rows'[t][log[t][i].key] \in Nat
  BY <1>3 DEF TypeOK, Index
<1>6. QED
  BY <1>1, <1>3, <1>4, <1>5

\* The same of S3.
LEMMA BlobsStay ==
  ASSUME TypeOK, TypeOK', Grows, NEW t \in Topics, NEW n \in 0 .. Len(log[t]), BlobsBelow(t, n),
         \A k \in Keys : blobs'[t][k] = blobs[t][k] \/ blobs'[t][k] >= n
  PROVE  BlobsBelow(t, n)'
<1> SUFFICES ASSUME NEW i \in 1 .. n, log'[t][i].outcome = "success"
             PROVE  i <= blobs'[t][log'[t][i].key]
  BY DEF BlobsBelow, Documented
<1>1. Len(log[t]) \in Nat /\ i \in 1 .. Len(log[t]) /\ log'[t][i] = log[t][i]
  BY DEF TypeOK, Grows
<1>2. log[t][i] \in Record
  BY <1>1 DEF TypeOK
<1>3. log[t][i].key \in Keys
  BY <1>2 DEF Record
<1>4. i <= blobs[t][log[t][i].key]
  BY <1>1 DEF BlobsBelow, Documented
<1>5. blobs'[t][log[t][i].key] \in Nat
  BY <1>3 DEF TypeOK, Index
<1>6. QED
  BY <1>1, <1>3, <1>4, <1>5

\* Where a step writes nothing, what was up to date still is.
LEMMA NothingWritten ==
  ASSUME TypeOK, TypeOK', Grows, NEW t \in Topics, rows'[t] = rows[t], blobs'[t] = blobs[t],
         NEW n \in 0 .. Len(log[t])
  PROVE  /\ RowsBelow(t, n) => RowsBelow(t, n)'
         /\ BlobsBelow(t, n) => BlobsBelow(t, n)'
         /\ UpToDate(t, n) => UpToDate(t, n)'
BY RowsStay, BlobsStay DEF UpToDate

\* w is as it was, and so is everything of its topic that it depends on.
LEMMA CurrentKept ==
  ASSUME IInv, TypeOK', Grows, NEW w \in Workers, CurrentOf(w), Keeps(w),
         LET t == TopicOf(w) IN
           /\ rows'[t] = rows[t] /\ blobs'[t] = blobs[t]
           /\ holds[w] => owner'[t] = owner[t] /\ committed'[t] = committed[t]
  PROVE  CurrentOf(w)'
<1> DEFINE t == TopicOf(w)
<1>1. t \in Topics /\ TopicOf(w)' = t
  BY TopicOfType DEF TopicOf
<1>2. CASE ~holds[w]
  BY <1>2 DEF CurrentOf, Keeps
<1>3. CASE holds[w]
  <2>1. TypeOK /\ QueueOf(w)
    BY DEF IInv, QueueInv
  <2>2. ASSUME NEW n \in 0 .. Len(log[t])
        PROVE  /\ RowsBelow(t, n) => RowsBelow(t, n)'
               /\ BlobsBelow(t, n) => BlobsBelow(t, n)'
               /\ UpToDate(t, n) => UpToDate(t, n)'
    BY <1>1, <2>1, NothingWritten
  <2>3. Len(log[t]) \in Nat /\ stored[w] \in Nat /\ position[w] \in Nat
        /\ stored[w] <= Len(log[t]) /\ position[w] <= Len(log[t])
    BY <1>1, <1>3, <2>1 DEF QueueOf, TypeOK, Index
  <2>4. /\ holds'[w] /\ position'[w] = position[w] /\ stored'[w] = stored[w] /\ pc'[w] = pc[w]
        /\ first'[w] = first[w] /\ last'[w] = last[w] /\ next'[w] = next[w]
        /\ owner'[t] = owner[t] /\ committed'[t] = committed[t]
    BY <1>3 DEF Keeps
  <2>5. owner'[t] = w /\ committed'[t] <= stored'[w] /\ stored'[w] <= position'[w]
    BY <1>3, <2>4 DEF CurrentOf
  <2>6. UpToDate(t, stored[w])'
    <3>1. UpToDate(t, stored[w])
      BY <1>3 DEF CurrentOf
    <3>2. QED
      BY <3>1, <2>2, <2>3, <2>4 DEF UpToDate, RowsBelow, BlobsBelow
  <2>7. ASSUME pc[w] = "polling" PROVE UpToDate(t, position[w])'
    <3>1. UpToDate(t, position[w])
      BY <1>3, <2>7 DEF CurrentOf
    <3>2. position[w] \in 0 .. Len(log[t]) /\ position'[w] = position[w]
      BY <2>3, <2>4
    <3>3. RowsBelow(t, position[w])'
      BY <2>2, <3>1, <3>2 DEF UpToDate, RowsBelow
    <3>4. BlobsBelow(t, position[w])'
      BY <2>2, <3>1, <3>2 DEF UpToDate, BlobsBelow
    <3>5. QED
      BY <3>3, <3>4 DEF UpToDate
  <2>8. ASSUME InBatch(w)
        PROVE  /\ first[w] - 1 \in 0 .. Len(log[t]) /\ last[w] \in 0 .. Len(log[t])
               /\ pc[w] = "blobs" => next[w] - 1 \in 0 .. Len(log[t])
    <3>1. first[w] <= last[w] /\ last[w] = position[w]
      BY <2>1, <2>8 DEF QueueOf
    <3>2. pc[w] = "blobs" => next[w] <= last[w] + 1
      BY <1>3 DEF CurrentOf
    <3>3. last[w] \in Nat /\ first[w] \in Nat \ {0} /\ next[w] \in Nat \ {0}
      BY <2>1, NumbersOf
    <3>4. first[w] - 1 \in 0 .. Len(log[t]) /\ last[w] \in 0 .. Len(log[t])
      BY <2>3, <3>1, <3>3
    <3>5. pc[w] = "blobs" => next[w] - 1 \in 0 .. Len(log[t])
      BY <2>3, <3>1, <3>2, <3>3
    <3>6. QED
      BY <3>4, <3>5
  <2>9. InBatch(w) => stored'[w] < first'[w] /\ UpToDate(t, first[w] - 1)'
    BY <1>3, <2>2, <2>4, <2>8 DEF CurrentOf, UpToDate, RowsBelow, BlobsBelow
  <2>10. pc[w] = "blobs" => /\ first'[w] <= next'[w] /\ next'[w] <= last'[w] + 1
                           /\ BlobsBelow(t, next[w] - 1)'
    BY <1>3, <2>2, <2>4, <2>8 DEF CurrentOf, InBatch, BlobsBelow
  <2>11. pc[w] \in {"rows", "file_meta", "committed"} => BlobsBelow(t, last[w])'
    BY <1>3, <2>2, <2>4, <2>8 DEF CurrentOf, InBatch, BlobsBelow
  <2>12. pc[w] = "committed" => RowsBelow(t, last[w])'
    BY <1>3, <2>2, <2>4, <2>8 DEF CurrentOf, InBatch, RowsBelow
  <2>13. QED
    BY <1>1, <2>4, <2>5, <2>6, <2>7, <2>9, <2>10, <2>11, <2>12 DEF CurrentOf, InBatch
<1>4. QED
  BY <1>2, <1>3

\* No worker's topic is written, committed or taken by another one.
LEMMA OthersCurrent ==
  ASSUME IInv, TypeOK', Grows, NEW w \in Workers, NEW v \in Workers \ {w},
         \A u \in Workers : CurrentOf(u), Kafka(w) \/ Consume(w) \/ PushBatch(w)
  PROVE  CurrentOf(v)'
<1>1. TopicOf(v) \in Topics /\ TopicOf(w) \in Topics
  BY TopicOfType
<1>2. Keeps(v)
  BY OthersKeep DEF IInv
<1>3. CASE TopicOf(v) # TopicOf(w)
  <2>1. rows'[TopicOf(v)] = rows[TopicOf(v)] /\ blobs'[TopicOf(v)] = blobs[TopicOf(v)]
    <3>1. CASE PutBlob(w)
      BY <1>1, <1>3, <3>1 DEF PutBlob, IInv, TypeOK
    <3>2. CASE Commit(w)
      BY <1>1, <1>3, <3>2 DEF Commit, IInv, TypeOK
    <3>3. CASE ~PutBlob(w) /\ ~Commit(w)
      BY <3>3 DEF Kafka, Assign, Revoke, Evict, DiscoverLoss, AutoCommit, Crash, Restart, Down,
         Consume, PushBatch, NextPass, Enqueue, WriteRow, DeadlockDetected, StoreOffsets,
         storeVars
    <3>4. QED
      BY <3>1, <3>2, <3>3
  <2>2. committed'[TopicOf(v)] = committed[TopicOf(v)]
    <3>1. CASE Revoke(w) \/ AutoCommit(w)
      BY <1>1, <1>3, <3>1 DEF Revoke, AutoCommit, IInv, TypeOK
    <3>2. CASE ~Revoke(w) /\ ~AutoCommit(w)
      BY <3>2 DEF Kafka, Assign, Evict, DiscoverLoss, Crash, Restart, Down, Consume, PushBatch,
         PutBlob, NextPass, Enqueue, WriteRow, DeadlockDetected, Commit, StoreOffsets
    <3>3. QED
      BY <3>1, <3>2
  <2>3. owner[TopicOf(v)] = v => owner'[TopicOf(v)] = owner[TopicOf(v)]
    <3>1. CASE Assign(w) \/ Revoke(w) \/ Evict(w)
      BY <1>1, <1>3, <3>1 DEF Assign, Revoke, Evict, IInv, TypeOK
    <3>2. CASE Crash(w) \/ DeadlockDetected(w)
      BY <1>1, <3>2 DEF Crash, DeadlockDetected, Down, IInv, TypeOK
    <3>3. CASE ~(Assign(w) \/ Revoke(w) \/ Evict(w) \/ Crash(w) \/ DeadlockDetected(w))
      BY <3>3 DEF Kafka, DiscoverLoss, AutoCommit, Restart, Consume, PushBatch, PutBlob,
         NextPass, Enqueue, WriteRow, Commit, StoreOffsets
    <3>4. QED
      BY <3>1, <3>2, <3>3
  <2>4. holds[v] => owner[TopicOf(v)] = v
    BY DEF CurrentOf
  <2>5. QED
    BY <1>2, <2>1, <2>2, <2>3, <2>4, CurrentKept
<1>4. CASE TopicOf(v) = TopicOf(w) /\ holds[v]
  <2>1. owner[TopicOf(w)] = v
    BY <1>4 DEF CurrentOf
  <2>2. ~holds[w]
    BY <2>1 DEF CurrentOf
  <2>3. ~InBatch(w)
    BY <2>2 DEF IInv, QueueInv, QueueOf
  <2>4. Crash(w) \/ Restart(w) \/ Enqueue(w) \/ DeadlockDetected(w)
    BY <2>1, <2>2, <2>3 DEF Kafka, Assign, Revoke, Evict, DiscoverLoss, AutoCommit, Consume,
       PushBatch, PutBlob, NextPass, WriteRow, Commit, StoreOffsets, InBatch, IInv, TypeOK
  <2>5. UNCHANGED <<rows, blobs, committed>> /\ owner'[TopicOf(v)] = owner[TopicOf(v)]
    BY <1>1, <1>4, <2>1, <2>4 DEF Crash, Restart, Enqueue, DeadlockDetected, Down, storeVars, IInv,
       TypeOK
  <2>6. QED
    BY <1>2, <2>5, CurrentKept
<1>5. CASE ~holds[v]
  BY <1>2, <1>5 DEF CurrentOf, Keeps
<1>6. QED
  BY <1>3, <1>4, <1>5

LEMMA KafkaCurrent ==
  ASSUME IInv, TypeOK', Grows, NEW w \in Workers, CurrentOf(w),
         UpToDate(TopicOf(w), committed[TopicOf(w)]), Kafka(w) \/ Consume(w), ~evicted'
  PROVE  CurrentOf(w)'
<1> DEFINE t == TopicOf(w)
<1>1. t \in Topics /\ TopicOf(w)' = t
  BY TopicOfType DEF TopicOf
<1>2. TypeOK /\ QueueOf(w) /\ committed[t] <= Len(log[t])
  BY <1>1 DEF IInv, QueueInv
<1>3. UNCHANGED <<rows, blobs>>
  BY DEF Kafka, Assign, Revoke, Evict, DiscoverLoss, AutoCommit, Crash, Restart, Down, Consume,
         storeVars
<1>4. \A n \in 0 .. Len(log[t]) : UpToDate(t, n) => UpToDate(t, n)'
  BY <1>1, <1>2, <1>3, NothingWritten
<1>5. CASE Assign(w)
  <2>1. /\ holds'[w] /\ owner'[t] = w /\ position'[w] = committed[t] /\ stored'[w] = committed[t]
        /\ committed' = committed /\ pc' = pc /\ pc[w] = "polling"
    BY <1>1, <1>2, <1>5 DEF Assign, TypeOK
  <2>2. committed[t] \in 0 .. Len(log[t])
    BY <1>1, <1>2 DEF TypeOK, Index
  <2>3. UpToDate(t, committed[t])'
    BY <1>4, <2>1, <2>2 DEF UpToDate, RowsBelow, BlobsBelow
  <2>4. UpToDate(t, stored[w])' /\ UpToDate(t, position[w])'
    BY <2>1, <2>3 DEF UpToDate, RowsBelow, BlobsBelow
  <2>5. QED
    BY <1>1, <2>1, <2>2, <2>4 DEF CurrentOf, InBatch
<1>6. CASE Revoke(w) \/ DiscoverLoss(w) \/ Crash(w)
  BY <1>2, <1>6 DEF Revoke, DiscoverLoss, Crash, Down, CurrentOf, TypeOK
<1>7. CASE Evict(w)
  BY <1>7 DEF Evict
<1>8. CASE AutoCommit(w)
  <2>1. /\ committed'[t] = stored[w] /\ stored' = stored /\ position' = position
        /\ UNCHANGED <<log, owner, holds, pc, first, last, next>> /\ holds[w]
    BY <1>1, <1>2, <1>8 DEF AutoCommit, TypeOK, clientVars, batchVars
  <2>2. stored[w] \in Nat
    BY <1>2 DEF TypeOK, Index
  <2>3. \A n : UpToDate(t, n) => UpToDate(t, n)'
    BY <1>1, <1>3, <2>1 DEF UpToDate, RowsBelow, BlobsBelow, Documented
  <2>4. UpToDate(t, stored[w])' /\ (pc[w] = "polling" => UpToDate(t, position[w])')
    BY <1>3, <2>1, <2>3 DEF CurrentOf, UpToDate, RowsBelow, BlobsBelow, Documented
  <2>5. InBatch(w) => stored'[w] < first'[w] /\ UpToDate(t, first[w] - 1)'
    BY <1>3, <2>1, <2>3 DEF CurrentOf, UpToDate, RowsBelow, BlobsBelow, Documented
  <2>6. /\ pc[w] = "blobs" => BlobsBelow(t, next[w] - 1)'
        /\ pc[w] \in {"rows", "file_meta", "committed"} => BlobsBelow(t, last[w])'
    BY <1>3, <2>1 DEF CurrentOf, BlobsBelow, Documented
  <2>7. pc[w] = "committed" => RowsBelow(t, last[w])'
    BY <1>3, <2>1 DEF CurrentOf, RowsBelow
  <2>8. /\ owner'[t] = w /\ committed'[t] <= stored'[w] /\ stored'[w] <= position'[w]
        /\ pc[w] = "blobs" => first'[w] <= next'[w] /\ next'[w] <= last'[w] + 1
    BY <2>1, <2>2 DEF CurrentOf
  <2>9. QED
    BY <1>1, <2>1, <2>4, <2>5, <2>6, <2>7, <2>8 DEF CurrentOf, InBatch
<1>9. CASE Restart(w)
  BY <1>2, <1>9 DEF Restart, CurrentOf, QueueOf, clientVars
<1>10. CASE Consume(w)
  <2>1. PICK n \in 1 .. BatchSize :
          /\ last' = [last EXCEPT ![w] = position[w] + n]
          /\ position' = [position EXCEPT ![w] = position[w] + n]
    BY <1>10 DEF Consume
  <2>2. /\ pc[w] = "polling" /\ pc'[w] = "blobs" /\ first'[w] = position[w] + 1
        /\ next'[w] = position[w] + 1 /\ last'[w] = position[w] + n
        /\ position'[w] = position[w] + n /\ position[w] \in Nat /\ stored[w] \in Nat
        /\ n \in Nat /\ n >= 1
        /\ UNCHANGED <<log, owner, committed, stored, holds>> /\ holds[w]
    BY <1>2, <1>10, <2>1 DEF Consume, TypeOK, Index
  <2>3. /\ owner[t] = w /\ committed[t] <= stored[w] /\ stored[w] <= position[w]
        /\ UpToDate(t, stored[w]) /\ UpToDate(t, position[w])
    BY <2>2 DEF CurrentOf
  <2>4. UpToDate(t, stored[w])'
    BY <1>3, <2>2, <2>3 DEF UpToDate, RowsBelow, BlobsBelow, Documented
  <2>5. first'[w] - 1 = position[w] /\ next'[w] - 1 = position[w]
    BY <2>2
  <2>6. UpToDate(t, first[w] - 1)' /\ BlobsBelow(t, next[w] - 1)'
    BY <1>3, <2>2, <2>3, <2>5 DEF UpToDate, RowsBelow, BlobsBelow, Documented
  <2>7. stored'[w] < first'[w] /\ first'[w] <= next'[w] /\ next'[w] <= last'[w] + 1
        /\ stored'[w] <= position'[w]
    BY <2>2, <2>3
  <2>8. QED
    BY <1>1, <2>2, <2>3, <2>4, <2>6, <2>7 DEF CurrentOf, InBatch
<1>11. QED
  BY <1>5, <1>6, <1>7, <1>8, <1>9, <1>10 DEF Kafka

\* What a commit leaves in the row of a key: the row it had, or the latest of the batch.
LEMMA CommitRow ==
  ASSUME TypeOK, NEW w \in Workers, QueueOf(w), Commit(w), NEW k \in Keys
  PROVE  LET t == TopicOf(w) IN
         /\ rows'[t][k] = rows[t][k] \/ rows'[t][k] >= first[w]
         /\ \A i \in RecordsOf(w, k) : i <= rows'[t][k]
<1> DEFINE t == TopicOf(w)
<1>1. t \in Topics /\ InBatch(w)
  BY TopicOfType DEF Commit, InBatch
<1>2. rows'[t][k] = IF RowFor(w, k) = {} THEN rows[t][k] ELSE CHOOSE i \in RowFor(w, k) : TRUE
  BY <1>1 DEF Commit, TypeOK
<1>3. first[w] \in Nat /\ last[w] \in Nat
  BY DEF TypeOK, Index
<1>4. CASE RecordsOf(w, k) = {}
  BY <1>2, <1>4 DEF RowFor
<1>5. CASE RecordsOf(w, k) # {}
  <2>1. RecordsOf(w, k) \in SUBSET (0 .. last[w])
    BY <1>3 DEF RecordsOf
  <2>2. \E m \in RecordsOf(w, k) : \A i \in RecordsOf(w, k) : i <= m
    BY <1>3, <1>5, <2>1, GreatestExists
  <2>3. RowFor(w, k) # {}
    BY <2>2 DEF RowFor
  <2>4. rows'[t][k] \in RowFor(w, k)
    BY <1>2, <2>3
  <2>5. QED
    BY <1>3, <2>4 DEF RowFor, RecordsOf
<1>6. QED
  BY <1>4, <1>5

\* The stores after a step of the owner's batch: what is ahead of the batch stays.
LEMMA WritesAhead ==
  ASSUME IInv, TypeOK', Grows, NEW w \in Workers, PutBlob(w) \/ Commit(w), CurrentOf(w),
         NEW n \in 0 .. first[w] - 1
  PROVE  UpToDate(TopicOf(w), n) => UpToDate(TopicOf(w), n)'
<1> DEFINE t == TopicOf(w)
<1>1. t \in Topics
  BY TopicOfType
<1>2. TypeOK /\ QueueOf(w) /\ InBatch(w)
  BY DEF IInv, QueueInv, InBatch, PutBlob, Commit
<1>3. first[w] \in Nat /\ next[w] \in Nat /\ Len(log[t]) \in Nat /\ n <= Len(log[t])
  <2>1. first[w] <= last[w] /\ last[w] <= Len(log[t])
    BY <1>2 DEF QueueOf
  <2>2. QED
    BY <1>2, <2>1, NumbersOf
<1>4. CASE PutBlob(w)
  <2>1. first[w] <= next[w]
    BY <1>2, <1>4 DEF PutBlob, CurrentOf, QueueOf
  <2>2. rows' = rows /\ \A k \in Keys : blobs'[t][k] = blobs[t][k] \/ blobs'[t][k] = next[w]
    BY <1>1, <1>2, <1>4 DEF PutBlob, TypeOK
  <2>3. \A k \in Keys : blobs'[t][k] = blobs[t][k] \/ blobs'[t][k] >= n
    BY <1>3, <2>1, <2>2
  <2>4. QED
    BY <1>1, <1>2, <1>3, <2>2, <2>3, RowsStay, BlobsStay DEF UpToDate
<1>5. CASE Commit(w)
  <2>1. blobs' = blobs /\ \A k \in Keys : rows'[t][k] = rows[t][k] \/ rows'[t][k] >= first[w]
    BY <1>2, <1>5, CommitRow DEF Commit
  <2>2. \A k \in Keys : rows'[t][k] \in Nat
    BY <1>1 DEF TypeOK, Index
  <2>3. \A k \in Keys : rows'[t][k] = rows[t][k] \/ rows'[t][k] >= n
    BY <1>3, <2>1, <2>2
  <2>4. QED
    BY <1>1, <1>2, <1>3, <2>1, <2>3, RowsStay, BlobsStay DEF UpToDate
<1>6. QED
  BY <1>4, <1>5

LEMMA PutBlobCurrent ==
  ASSUME IInv, TypeOK', Grows, NEW w \in Workers, CurrentOf(w), PutBlob(w)
  PROVE  CurrentOf(w)'
<1> DEFINE t == TopicOf(w)
<1>1. t \in Topics /\ TopicOf(w)' = t
  BY TopicOfType DEF TopicOf
<1>2. TypeOK /\ QueueOf(w) /\ pc[w] = "blobs" /\ InBatch(w)
  BY DEF IInv, QueueInv, PutBlob, InBatch
<1>3. /\ holds[w] /\ owner[t] = w /\ committed[t] <= stored[w] /\ stored[w] <= position[w]
      /\ UpToDate(t, stored[w]) /\ stored[w] < first[w] /\ UpToDate(t, first[w] - 1)
      /\ first[w] <= next[w] /\ next[w] <= last[w] + 1 /\ BlobsBelow(t, next[w] - 1)
  BY <1>2 DEF CurrentOf, QueueOf
<1>4. /\ UNCHANGED <<log, committed, owner, holds, position, stored, pc, first, last>>
      /\ next'[w] = next[w] + 1 /\ next[w] <= last[w]
  BY <1>2 DEF PutBlob, clientVars, TypeOK, NextRecord, PassOver, Index
<1>5. first[w] \in Nat /\ next[w] \in Nat \ {0} /\ stored[w] \in Nat /\ last[w] \in Nat
      /\ Len(log[t]) \in Nat /\ last[w] <= Len(log[t])
  <2>1. last[w] <= Len(log[t])
    BY <1>2 DEF QueueOf
  <2>2. QED
    BY <1>2, <2>1, NumbersOf
<1>6. UpToDate(t, stored[w])'
  <2>1. stored[w] \in 0 .. first[w] - 1
    BY <1>3, <1>5
  <2>2. QED
    BY <1>3, <1>4, <2>1, WritesAhead DEF UpToDate, RowsBelow, BlobsBelow
<1>7. UpToDate(t, first[w] - 1)'
  <2>1. first[w] - 1 \in 0 .. first[w] - 1
    BY <1>2 DEF TypeOK
  <2>2. QED
    BY <1>3, <1>4, <2>1, WritesAhead DEF UpToDate, RowsBelow, BlobsBelow
<1>8. BlobsBelow(t, next[w] - 1)'
  <2>1. ASSUME NEW i \in 1 .. next[w], Documented(t, i)
        PROVE  i <= blobs'[t][log[t][i].key]
    <3>1. log[t][i] \in Record /\ log[t][i].key \in Keys
      <4>1. i \in 1 .. Len(log[t]) /\ log[t] \in Seq(Record)
        BY <1>1, <1>2, <1>4, <1>5 DEF TypeOK
      <4>2. log[t][i] \in Record
        BY <4>1
      <4>3. QED
        BY <4>2 DEF Record
    <3>2. CASE i = next[w]
      <4>1. blobs'[t][log[t][i].key] = next[w]
        BY <1>1, <1>2, <2>1, <3>1, <3>2 DEF PutBlob, HasDocument, Rec, Documented, TypeOK
      <4>2. QED
        BY <1>5, <3>2, <4>1
    <3>3. CASE i # next[w]
      <4>1. i <= blobs[t][log[t][i].key]
        BY <1>3, <1>5, <2>1, <3>3 DEF BlobsBelow
      <4>2. blobs'[t][log[t][i].key] \in {blobs[t][log[t][i].key], next[w]}
        BY <1>1, <1>2, <3>1 DEF PutBlob, TypeOK
      <4>3. QED
        BY <1>5, <4>1, <4>2
    <3>4. QED
      BY <3>2, <3>3
  <2>2. next'[w] - 1 = next[w]
    BY <1>4, <1>5
  <2>3. QED
    BY <1>4, <2>1, <2>2 DEF BlobsBelow, Documented
<1>9. QED
  BY <1>1, <1>2, <1>3, <1>4, <1>5, <1>6, <1>7, <1>8 DEF CurrentOf, InBatch

LEMMA PassCurrent ==
  ASSUME IInv, TypeOK', Grows, NEW w \in Workers, CurrentOf(w),
         NextPass(w) \/ Enqueue(w) \/ WriteRow(w)
  PROVE  CurrentOf(w)'
<1> DEFINE t == TopicOf(w)
<1>1. t \in Topics /\ TopicOf(w)' = t
  BY TopicOfType DEF TopicOf
<1>2. TypeOK /\ QueueOf(w)
  BY DEF IInv, QueueInv
<1>3. UNCHANGED <<log, rows, blobs, committed, owner, holds, position, stored, first, last>>
  BY DEF NextPass, Enqueue, WriteRow, storeVars, clientVars, batchVars
<1>4. CASE NextPass(w)
  <2>1. /\ pc[w] \in {"blobs", "rows"} /\ pc'[w] \in {"rows", "file_meta"}
        /\ pc[w] = "blobs" => next[w] = last[w] + 1
    <3>1. pc[w] \in {"blobs", "rows"} /\ pc'[w] \in {"rows", "file_meta"} /\ next[w] > last[w]
      BY <1>2, <1>4 DEF NextPass, PassOver, TypeOK
    <3>2. pc[w] = "blobs" => next[w] <= last[w] + 1
      BY <1>2 DEF CurrentOf, QueueOf, InBatch
    <3>3. next[w] \in Nat /\ last[w] \in Nat
      BY <1>2 DEF TypeOK, Index
    <3>4. QED
      BY <3>1, <3>2, <3>3
  <2>2. BlobsBelow(t, last[w])
    <3>1. CASE pc[w] = "blobs"
      <4>1. BlobsBelow(t, next[w] - 1) /\ next[w] - 1 = last[w]
        BY <1>2, <2>1, <3>1 DEF CurrentOf, QueueOf, InBatch, TypeOK, Index
      <4>2. QED
        BY <4>1
    <3>2. CASE pc[w] = "rows"
      BY <1>2, <3>2 DEF CurrentOf, QueueOf, InBatch
    <3>3. QED
      BY <2>1, <3>1, <3>2
  <2>3. QED
    BY <1>1, <1>2, <1>3, <2>1, <2>2
       DEF CurrentOf, QueueOf, InBatch, UpToDate, RowsBelow, BlobsBelow, Documented
<1>5. CASE Enqueue(w)
  <2>1. pc' = pc /\ next' = next
    BY <1>5 DEF Enqueue, batchVars
  <2>2. QED
    BY <1>1, <1>3, <2>1 DEF CurrentOf, InBatch, UpToDate, RowsBelow, BlobsBelow, Documented
<1>6. CASE WriteRow(w)
  <2>1. pc' = pc /\ pc[w] \in {"rows", "file_meta"}
    BY <1>6 DEF WriteRow
  <2>2. QED
    BY <1>1, <1>3, <2>1 DEF CurrentOf, InBatch, UpToDate, RowsBelow, BlobsBelow, Documented
<1>7. QED
  BY <1>4, <1>5, <1>6

LEMMA CommitCurrent ==
  ASSUME IInv, TypeOK', Grows, NEW w \in Workers, CurrentOf(w), Commit(w)
  PROVE  CurrentOf(w)'
<1> DEFINE t == TopicOf(w)
<1>1. t \in Topics /\ TopicOf(w)' = t
  BY TopicOfType DEF TopicOf
<1>2. TypeOK /\ QueueOf(w) /\ pc[w] = "file_meta" /\ InBatch(w)
  BY DEF IInv, QueueInv, Commit, InBatch
<1>3. /\ holds[w] /\ owner[t] = w /\ committed[t] <= stored[w] /\ stored[w] <= position[w]
      /\ UpToDate(t, stored[w]) /\ stored[w] < first[w] /\ UpToDate(t, first[w] - 1)
      /\ BlobsBelow(t, last[w])
  BY <1>2 DEF CurrentOf, QueueOf
<1>4. /\ UNCHANGED <<log, committed, owner, blobs, holds, position, stored, first, last>>
      /\ pc'[w] = "committed"
  BY <1>2 DEF Commit, clientVars, batchVars, TypeOK
<1>5. first[w] \in Nat \ {0} /\ stored[w] \in Nat /\ last[w] \in Nat
      /\ Len(log[t]) \in Nat /\ last[w] <= Len(log[t])
  <2>1. last[w] <= Len(log[t])
    BY <1>2 DEF QueueOf
  <2>2. QED
    BY <1>2, <2>1, NumbersOf
<1>6. UpToDate(t, stored[w])'
  <2>1. stored[w] \in 0 .. first[w] - 1
    BY <1>3, <1>5
  <2>2. QED
    BY <1>3, <1>4, <2>1, WritesAhead DEF UpToDate, RowsBelow, BlobsBelow
<1>7. UpToDate(t, first[w] - 1)'
  <2>1. first[w] - 1 \in 0 .. first[w] - 1
    BY <1>2 DEF TypeOK
  <2>2. QED
    BY <1>3, <1>4, <2>1, WritesAhead DEF UpToDate, RowsBelow, BlobsBelow
<1>8. RowsBelow(t, last[w])'
  <2>1. ASSUME NEW i \in 1 .. last[w], log[t][i].outcome # "no-status"
        PROVE  i <= rows'[t][log[t][i].key]
    <3>1. log[t][i].key \in Keys
      <4>1. i \in 1 .. Len(log[t]) /\ log[t] \in Seq(Record)
        BY <1>1, <1>2, <1>5 DEF TypeOK
      <4>2. log[t][i] \in Record
        BY <4>1
      <4>3. QED
        BY <4>2 DEF Record
    <3>2. CASE i < first[w]
      <4>1. i \in 1 .. first[w] - 1
        BY <1>5, <3>2
      <4>2. RowsBelow(t, first[w] - 1)'
        BY <1>7 DEF UpToDate
      <4>3. QED
        BY <1>4, <2>1, <4>1, <4>2 DEF RowsBelow
    <3>3. CASE i >= first[w]
      <4>1. i \in RecordsOf(w, log[t][i].key)
        BY <1>5, <2>1, <3>3 DEF RecordsOf, Rec, Inserted
      <4>2. QED
        BY <1>2, <3>1, <4>1, CommitRow
    <3>4. QED
      BY <1>5, <3>2, <3>3
  <2>2. QED
    BY <1>4, <2>1 DEF RowsBelow
<1>9. BlobsBelow(t, last[w])'
  BY <1>3, <1>4 DEF BlobsBelow, Documented
<1>10. QED
  BY <1>1, <1>3, <1>4, <1>6, <1>7, <1>8, <1>9 DEF CurrentOf, InBatch

LEMMA PushBatchCurrent ==
  ASSUME IInv, TypeOK', Grows, NEW w \in Workers, CurrentOf(w), PushBatch(w)
  PROVE  CurrentOf(w)'
<1> DEFINE t == TopicOf(w)
<1>1. CASE DeadlockDetected(w)
  BY <1>1 DEF DeadlockDetected, Down, CurrentOf, IInv, TypeOK
<1>2. CASE StoreOffsets(w)
  <2>1. t \in Topics /\ TopicOf(w)' = t
    BY TopicOfType DEF TopicOf
  <2>2. TypeOK /\ QueueOf(w) /\ pc[w] = "committed" /\ InBatch(w)
    BY <1>2 DEF IInv, QueueInv, StoreOffsets, InBatch
  <2>3. /\ holds[w] /\ owner[t] = w /\ committed[t] <= stored[w] /\ stored[w] < first[w]
        /\ first[w] <= last[w] /\ last[w] = position[w]
        /\ BlobsBelow(t, last[w]) /\ RowsBelow(t, last[w])
    BY <2>2 DEF CurrentOf, QueueOf
  <2>4. /\ UNCHANGED <<log, rows, blobs, committed, owner, holds, position>>
        /\ pc'[w] = "polling" /\ stored'[w] = last[w] /\ position'[w] = last[w]
    BY <1>2, <2>2, <2>3 DEF StoreOffsets, StoredOffset, storeVars, TypeOK
  <2>5. UpToDate(t, stored[w])' /\ UpToDate(t, position[w])'
    BY <2>3, <2>4 DEF UpToDate, RowsBelow, BlobsBelow, Documented
  <2>6. committed[t] <= last[w]
    BY <2>2, <2>3, NumbersOf
  <2>7. QED
    BY <2>1, <2>2, <2>3, <2>4, <2>5, <2>6, NumbersOf DEF CurrentOf, InBatch
<1>3. QED
  BY <1>1, <1>2, PutBlobCurrent, PassCurrent, CommitCurrent DEF PushBatch

\* What is committed is up to date: an owner writes ahead of it and commits what it stored.
LEMMA CommittedCurrent ==
  ASSUME IInv, TypeOK', Grows, NEW w \in Workers, Kafka(w) \/ Consume(w) \/ PushBatch(w),
         CurrentOf(w), NEW t \in Topics, UpToDate(t, committed[t])
  PROVE  UpToDate(t, committed[t])'
<1>1. TypeOK /\ QueueOf(w) /\ committed[t] \in 0 .. Len(log[t]) /\ Len(log[t]) \in Nat
  <2>1. TypeOK /\ QueueOf(w) /\ committed[t] <= Len(log[t])
    BY DEF IInv, QueueInv
  <2>2. log[t] \in Seq(Record) /\ committed[t] \in Nat
    BY <2>1 DEF TypeOK, Index
  <2>3. QED
    BY <2>1, <2>2
<1>2. CASE (PutBlob(w) \/ Commit(w)) /\ TopicOf(w) = t
  <2>1. committed[t] <= stored[w] /\ stored[w] < first[w]
    BY <1>1, <1>2 DEF PutBlob, Commit, InBatch, CurrentOf, QueueOf
  <2>2. committed[t] \in 0 .. first[w] - 1 /\ committed' = committed
    <3>1. committed' = committed
      BY <1>2 DEF PutBlob, Commit
    <3>2. QED
      BY <1>1, <1>2, <2>1, <3>1, NumbersOf
  <2>3. QED
    BY <1>2, <2>2, WritesAhead DEF UpToDate, RowsBelow, BlobsBelow
<1>3. CASE ~((PutBlob(w) \/ Commit(w)) /\ TopicOf(w) = t)
  <2>1. rows'[t] = rows[t] /\ blobs'[t] = blobs[t]
    <3>1. TopicOf(w) \in Topics
      BY TopicOfType
    <3>2. CASE PutBlob(w)
      BY <1>1, <1>3, <3>1, <3>2 DEF PutBlob, TypeOK
    <3>3. CASE Commit(w)
      BY <1>1, <1>3, <3>1, <3>3 DEF Commit, TypeOK
    <3>4. CASE ~PutBlob(w) /\ ~Commit(w)
      BY <3>4 DEF Kafka, Assign, Revoke, Evict, DiscoverLoss, AutoCommit, Crash, Restart, Down,
         Consume, PushBatch, NextPass, Enqueue, WriteRow, DeadlockDetected, StoreOffsets,
         storeVars
    <3>5. QED
      BY <3>2, <3>3, <3>4
  <2>2. CASE committed'[t] = committed[t]
    BY <1>1, <2>1, <2>2, NothingWritten DEF UpToDate, RowsBelow, BlobsBelow
  <2>3. CASE committed'[t] # committed[t]
    <3>1. Revoke(w) \/ AutoCommit(w)
      BY <2>3 DEF Kafka, Assign, Evict, DiscoverLoss, Crash, Restart, Down, Consume, PushBatch,
         PutBlob, NextPass, Enqueue, WriteRow, DeadlockDetected, Commit, StoreOffsets
    <3>2. TopicOf(w) = t /\ committed'[t] = stored[w] /\ holds[w] /\ log' = log
      BY <1>1, <2>3, <3>1 DEF Revoke, AutoCommit, QueueOf, TypeOK
    <3>3. UpToDate(t, stored[w])
      BY <3>2 DEF CurrentOf
    <3>4. QED
      BY <2>1, <3>2, <3>3 DEF UpToDate, RowsBelow, BlobsBelow, Documented
  <2>4. QED
    BY <2>2, <2>3
<1>4. QED
  BY <1>2, <1>3

LEMMA CurrentStep ==
  ASSUME IInv, CurrentInv, [Next]_vars
  PROVE  CurrentInv'
<1> SUFFICES ASSUME ~evicted'
             PROVE  /\ \A t \in Topics : UpToDate(t, committed[t])'
                    /\ \A v \in Workers : CurrentOf(v)'
  BY DEF CurrentInv
<1>1. CASE UNCHANGED vars
  <2>1. /\ ~evicted
        /\ UNCHANGED <<log, committed, owner, rows, blobs, holds, position, stored, pc, first,
                       last, next>>
    BY <1>1 DEF vars, storeVars, clientVars, batchVars
  <2>2. /\ \A t \in Topics : UpToDate(t, committed[t])
        /\ \A v \in Workers : CurrentOf(v)
    BY <2>1 DEF CurrentInv
  <2>3. \A t \in Topics : UpToDate(t, committed[t])'
    BY <2>1, <2>2 DEF UpToDate, RowsBelow, BlobsBelow, Documented
  <2>4. \A v \in Workers : CurrentOf(v)'
    <3>1. TypeOK'
      BY <1>1, TypeStep DEF IInv
    <3>2. Grows /\ \A v \in Workers : Keeps(v)
      <4>1. persisted' = persisted
        BY <1>1 DEF vars, storeVars
      <4>2. \A t \in Topics : Len(log[t]) \in Nat
        BY DEF IInv, TypeOK
      <4>3. QED
        BY <2>1, <4>1, <4>2 DEF Grows, Keeps
    <3>3. QED
      BY <2>1, <2>2, <3>1, <3>2, CurrentKept
  <2>5. QED
    BY <2>3, <2>4
<1>2. CASE Next
  <2>1. TypeOK' /\ Grows
    BY <1>2, WorkersStep
  <2>2. ~evicted
    BY <1>2 DEF Next, Publish, Kafka, Assign, Revoke, Evict, DiscoverLoss, AutoCommit, Crash,
       Restart, Down, Consume, PushBatch, PutBlob, NextPass, Enqueue, WriteRow,
       DeadlockDetected, Commit, StoreOffsets
  <2>3. /\ \A t \in Topics : UpToDate(t, committed[t])
        /\ \A v \in Workers : CurrentOf(v)
    BY <2>2 DEF CurrentInv
  <2>4. ASSUME NEW u \in Topics, Publish(u)
        PROVE  /\ \A t \in Topics : UpToDate(t, committed[t])'
               /\ \A v \in Workers : CurrentOf(v)'
    <3>1. UNCHANGED <<rows, blobs, committed, owner>> /\ \A v \in Workers : Keeps(v)
      BY <2>4 DEF Publish, storeVars, Keeps, clientVars, batchVars
    <3>2. \A v \in Workers : CurrentOf(v)'
      BY <2>1, <2>3, <3>1, CurrentKept
    <3>3. ASSUME NEW t \in Topics PROVE UpToDate(t, committed[t])'
      <4>1. committed[t] \in 0 .. Len(log[t]) /\ TypeOK
        <5>1. TypeOK /\ committed[t] <= Len(log[t])
          BY DEF IInv, QueueInv
        <5>2. log[t] \in Seq(Record) /\ committed[t] \in Nat
          BY <5>1 DEF TypeOK, Index
        <5>3. QED
          BY <5>1, <5>2
      <4>2. QED
        BY <2>1, <2>3, <3>1, <4>1, NothingWritten DEF UpToDate, RowsBelow, BlobsBelow
    <3>4. QED
      BY <3>2, <3>3
  <2>5. ASSUME NEW w \in Workers, Kafka(w) \/ Consume(w) \/ PushBatch(w)
        PROVE  /\ \A t \in Topics : UpToDate(t, committed[t])'
               /\ \A v \in Workers : CurrentOf(v)'
    <3>1. \A t \in Topics : UpToDate(t, committed[t])'
      BY <2>1, <2>3, <2>5, CommittedCurrent
    <3>2. \A v \in Workers \ {w} : CurrentOf(v)'
      BY <2>1, <2>3, <2>5, OthersCurrent
    <3>3. CurrentOf(w)'
      <4>1. TopicOf(w) \in Topics
        BY TopicOfType
      <4>2. QED
        BY <2>1, <2>3, <2>5, <4>1, KafkaCurrent, PushBatchCurrent
    <3>4. QED
      BY <3>1, <3>2, <3>3
  <2>6. QED
    BY <1>2, <2>4, <2>5 DEF Next
<1>3. QED
  BY <1>1, <1>2

\* What is up to date is not behind the latest record of any key.
LEMMA UpToDateIsCurrent ==
  ASSUME IInv, CurrentInv
  PROVE  CommittedIsCurrent
<1> SUFFICES ASSUME ~evicted, NEW t \in Topics, NEW k \in Keys
             PROVE  /\ rows[t][k] >= LatestBelow(t, k, committed[t],
                                                 LAMBDA r : r.outcome # "no-status")
                    /\ blobs[t][k] >= LatestBelow(t, k, committed[t],
                                                  LAMBDA r : r.outcome = "success")
  BY DEF CommittedIsCurrent
<1>1. /\ UpToDate(t, committed[t]) /\ committed[t] \in Nat
      /\ rows[t][k] \in Nat /\ blobs[t][k] \in Nat
  BY DEF CurrentInv, IInv, TypeOK, Index
<1> DEFINE R == {i \in 1 .. committed[t] : log[t][i].key = k /\ log[t][i].outcome # "no-status"}
           B == {i \in 1 .. committed[t] : log[t][i].key = k /\ log[t][i].outcome = "success"}
<1>2. ASSUME NEW S \in SUBSET (1 .. committed[t]), S # {}
      PROVE  (CHOOSE i \in S : \A j \in S : j <= i) \in S
  <2>1. \E i \in S : \A j \in S : j <= i
    <3>1. S \in SUBSET (0 .. committed[t])
      BY <1>1
    <3>2. QED
      BY <1>1, <1>2, <3>1, GreatestExists
  <2>2. QED
    BY <2>1
<1>3. rows[t][k] >= IF R = {} THEN 0 ELSE CHOOSE i \in R : \A j \in R : j <= i
  <2>1. \A i \in R : i <= rows[t][k]
    BY <1>1 DEF UpToDate, RowsBelow
  <2>2. CASE R = {}
    BY <1>1, <2>2
  <2>3. CASE R # {}
    <3>1. PICK m \in R : m = CHOOSE i \in R : \A j \in R : j <= i
      BY <1>2, <2>3
    <3>2. m <= rows[t][k] /\ m \in Nat
      BY <1>1, <2>1
    <3>3. QED
      BY <1>1, <2>3, <3>1, <3>2
  <2>4. QED
    BY <2>2, <2>3
<1>4. blobs[t][k] >= IF B = {} THEN 0 ELSE CHOOSE i \in B : \A j \in B : j <= i
  <2>1. \A i \in B : i <= blobs[t][k]
    BY <1>1 DEF UpToDate, BlobsBelow, Documented
  <2>2. CASE B = {}
    BY <1>1, <2>2
  <2>3. CASE B # {}
    <3>1. PICK m \in B : m = CHOOSE i \in B : \A j \in B : j <= i
      BY <1>2, <2>3
    <3>2. m <= blobs[t][k] /\ m \in Nat
      BY <1>1, <2>1
    <3>3. QED
      BY <1>1, <2>3, <3>1, <3>2
  <2>4. QED
    BY <2>2, <2>3
<1>5. QED
  BY <1>3, <1>4 DEF LatestBelow

\* Crashes, redeliveries and rebalances never leave a table or S3 behind the committed offset,
\* as long as no worker lost its topic in the middle of a batch.
THEOREM TablesAreCurrent == Spec => []CommittedIsCurrent
<1>1. Init => CurrentInv
  BY DEF Init, CurrentInv, UpToDate, RowsBelow, BlobsBelow, CurrentOf
<1>2. Spec => []CurrentInv
  BY <1>1, CurrentStep, PersistInductive, PTL DEF Spec
<1>3. IInv /\ CurrentInv => CommittedIsCurrent
  BY UpToDateIsCurrent
<1>4. QED
  BY <1>2, <1>3, PersistInductive, PTL
=============================================================================
