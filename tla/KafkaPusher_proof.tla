------------------------- MODULE KafkaPusher_proof -------------------------
(***************************************************************************)
(* For any number of workers and partitions, any batch size and any        *)
(* sequence of crashes, evictions and rebalances: the run loop processes   *)
(* each message at least once (CommittedIsHandled), implements the         *)
(* abstract queue WorkQueue, jumps over messages only where retention has  *)
(* overtaken the group (EstablishedNeverSkips), settles each message once  *)
(* as long as nothing disturbs the group (HandledOnce), and, with timeouts *)
(* that fit the poll interval and take effect, keeps its partitions while  *)
(* it processes (KeepsAssignment).                                         *)
(***************************************************************************)
EXTENDS KafkaPusher, FiniteSetTheorems, TLAPS

USE LogLenAssumption, PusherAssumption

-----------------------------------------------------------------------------
(* Type correctness.                                                       *)

\* The record a worker is at is a message of the topic.
LEMMA CurrentIsMessage ==
  ASSUME TypeOK, NEW w \in Workers, NEW p \in Partitions, cursor[w][p] < limit[w][p]
  PROVE  Current(w, p) \in Message /\ NextRecord(w, p) \in Offset
BY DEF TypeOK, Current, Message, Offset, NextRecord

\* The end of a process leaves every variable in its type.
LEMMA DownTypeOK ==
  ASSUME TypeOK, NEW w \in Workers, Down(w), disturbances' \in Nat
  PROVE  TypeOK'
BY DEF TypeOK, SinkTypeOK, Down, Lose, Offset, PC

\* Settling a record leaves every variable in its type.
LEMMA FinishTypeOK ==
  ASSUME TypeOK, NEW w \in Workers, NEW p \in Partitions, At(w, p),
         NEW rs \in SUBSET Result, Finish(w, p, rs)
  PROVE  TypeOK'
<1>1. Current(w, p) \in Message /\ NextRecord(w, p) \in Offset
  BY CurrentIsMessage DEF At
<1>2. SinkTypeOK'
  BY DEF TypeOK, SinkTypeOK, Finish, Produce, QueuedAfter
<1>3. QED
  BY <1>1, <1>2 DEF TypeOK, Finish, brokerVars, clientVars

\* A result of the current record is a result.
LEMMA CurrentResult ==
  ASSUME TypeOK, NEW w \in Workers, NEW p \in Partitions, At(w, p)
  PROVE  {<<Current(w, p), "result">>, <<Current(w, p), "timeout">>} \in SUBSET Result
<1>1. Current(w, p) \in Message
  BY CurrentIsMessage DEF At
<1>2. QED
  BY <1>1 DEF Result

LEMMA CoordinatorTypeOK ==
  ASSUME TypeOK, Coordinator
  PROVE  TypeOK'
<1>1. CASE \E p \in Partitions : Publish(p)
  BY <1>1 DEF TypeOK, Publish, Offset, clientVars, loopVars, historyVars, sinkVars, SinkTypeOK
<1>2. CASE \E w \in Workers : Evict(w)
  BY <1>2 DEF TypeOK, Evict, Disturb, clientVars, loopVars, sinkVars, SinkTypeOK
<1>8. CASE \E p \in Partitions : Expire(p)
  BY <1>8 DEF TypeOK, Expire, Disturb, Offset, clientVars, loopVars, sinkVars, SinkTypeOK
<1>9. ASSUME NEW w \in Workers, NEW p \in Partitions, OutOfRange(w, p)
      PROVE  TypeOK'
  <2>1. {p} \X (position[w][p] .. logEnd[p] - 1) \subseteq Message
    BY DEF TypeOK, Message, Offset
  <2>2. skipped' \in SUBSET Message
    BY <1>9, <2>1 DEF TypeOK, OutOfRange
  <2>3. position' \in [Workers -> [Partitions -> Offset]]
    BY <1>9 DEF TypeOK, OutOfRange
  <2>4. QED
    BY <1>9, <2>2, <2>3 DEF TypeOK, OutOfRange, brokerVars, loopVars, sinkVars, SinkTypeOK
<1>3. ASSUME NEW w \in Workers, NEW p \in Partitions, Assign(w, p)
      PROVE  TypeOK'
  <2>1. ResetPosition(p) \in Offset
    BY DEF TypeOK, ResetPosition, Offset, NoOffset
  <2>2. JumpedOver(p) \in SUBSET Message
    BY <2>1 DEF JumpedOver, Message, Offset
  <2>3. NoOffset \in Offset \cup {NoOffset}
    OBVIOUS
  <2>4. QED
    BY <1>3, <2>1, <2>2, <2>3 DEF TypeOK, Assign, loopVars, sinkVars, SinkTypeOK
<1>4. ASSUME NEW w \in Workers, NEW p \in Partitions, Revoke(w, p)
      PROVE  TypeOK'
  <2>1. committed' \in [Partitions -> Offset \cup {NoOffset}]
    <3>1. stored[w][p] \in Offset \cup {NoOffset}
      BY DEF TypeOK
    <3>2. CASE committed' = [committed EXCEPT ![p] = stored[w][p]]
      BY <3>1, <3>2 DEF TypeOK
    <3>3. CASE UNCHANGED committed
      BY <3>3 DEF TypeOK
    <3>4. QED
      BY <1>4, <3>2, <3>3 DEF Revoke
  <2>2. assigned' \in [Workers -> SUBSET Partitions]
        /\ stored' \in [Workers -> [Partitions -> Offset \cup {NoOffset}]]
    BY <1>4 DEF TypeOK, Revoke, Unassign
  <2>3. owner' \in [Partitions -> Workers \cup {NoOne}] /\ disturbances' \in Nat
    BY <1>4 DEF TypeOK, Revoke, Disturb
  <2>4. QED
    BY <1>4, <2>1, <2>2, <2>3 DEF TypeOK, Revoke, Unassign, loopVars, sinkVars, SinkTypeOK
<1>5. ASSUME NEW w \in Workers, NEW p \in Partitions, DiscoverLoss(w, p)
      PROVE  TypeOK'
  BY <1>5 DEF TypeOK, DiscoverLoss, Unassign, brokerVars, loopVars, historyVars, sinkVars,
              SinkTypeOK
<1>6. ASSUME NEW w \in Workers, NEW p \in Partitions, AutoCommit(w, p)
      PROVE  TypeOK'
  BY <1>6 DEF TypeOK, AutoCommit, clientVars, loopVars, historyVars, sinkVars, SinkTypeOK
<1>7. QED
  BY <1>1, <1>2, <1>3, <1>4, <1>5, <1>6, <1>8, <1>9 DEF Coordinator

LEMMA RecordTypeOK ==
  ASSUME TypeOK, NEW w \in Workers, NEW p \in Partitions, Record(w, p)
  PROVE  TypeOK'
<1>1. CASE Answer(w, p)
  BY <1>1, FinishTypeOK, CurrentResult DEF Answer
<1>2. CASE Ignore(w, p)
  <2>1. Current(w, p) \in Message /\ NextRecord(w, p) \in Offset
    BY <1>2, CurrentIsMessage DEF Ignore, At
  <2>2. QED
    BY <1>2, <2>1 DEF TypeOK, Ignore, brokerVars, clientVars, sinkVars, SinkTypeOK
<1>3. CASE TimeOut(w, p)
  BY <1>3, FinishTypeOK, CurrentResult DEF TimeOut
<1>4. CASE TimeOutInSink(w, p)
  BY <1>4, FinishTypeOK, CurrentResult DEF TimeOutInSink
<1>5. CASE BailOut(w, p) \/ Raise(w, p)
  BY <1>5, DownTypeOK DEF BailOut, Raise, TypeOK
<1>6. CASE Backoff(w, p)
  <2>1. pc' \in [Workers -> PC] /\ paused' \in [Workers -> SUBSET Partitions]
    BY <1>6 DEF TypeOK, Backoff, PC
  <2>2. retrying' \in [Workers -> SUBSET Partitions] /\ attempts' \in [Workers -> Nat]
    BY <1>6 DEF TypeOK, Backoff, AttemptsAfterBackoff
  <2>3. swallowed' \in [Workers -> SUBSET Message]
    BY <1>6 DEF TypeOK, Backoff
  <2>4. QED
    BY <1>6, <2>1, <2>2, <2>3 DEF TypeOK, Backoff, brokerVars, historyVars, sinkVars, SinkTypeOK
<1>7. CASE SwallowAlarm(w, p)
  <2>1. Current(w, p) \in Message
    BY <1>7, CurrentIsMessage DEF SwallowAlarm, At
  <2>2. QED
    BY <1>7, <2>1 DEF TypeOK, SwallowAlarm, brokerVars, clientVars, historyVars, sinkVars,
                      SinkTypeOK
<1>8. QED
  BY <1>1, <1>2, <1>3, <1>4, <1>5, <1>6, <1>7 DEF Record

LEMMA WorkerTypeOK ==
  ASSUME TypeOK, NEW w \in Workers, Worker(w)
  PROVE  TypeOK'
<1>1. CASE Consume(w)
  <2>1. PICK upTo \in [Partitions -> Offset] :
          /\ inBatch' = [inBatch EXCEPT ![w] = {p \in Partitions : upTo[p] # position[w][p]}]
          /\ cursor' = [cursor EXCEPT ![w] = position[w]]
          /\ limit' = [limit EXCEPT ![w] = upTo]
          /\ position' = [position EXCEPT ![w] = upTo]
    BY <1>1 DEF Consume
  <2>2. QED
    BY <1>1, <2>1 DEF TypeOK, Consume, PC, brokerVars, historyVars, sinkVars, SinkTypeOK
<1>2. CASE PollWhilePaused(w) \/ PushBatchRaises(w) \/ StoreOffsetsRefused(w)
  BY <1>2, DownTypeOK DEF PollWhilePaused, PushBatchRaises, StoreOffsetsRefused, TypeOK
<1>3. CASE Crash(w)
  BY <1>3, DownTypeOK DEF Crash, Disturb, TypeOK
<1>4. CASE Resume(w)
  BY <1>4 DEF TypeOK, Resume, PC, brokerVars, historyVars, sinkVars, SinkTypeOK
<1>5. CASE PushBatch(w)
  BY <1>5 DEF TypeOK, PushBatch, brokerVars, clientVars, sinkVars, SinkTypeOK
<1>6. CASE StoreOffsets(w)
  <2>1. stored' \in [Workers -> [Partitions -> Offset \cup {NoOffset}]]
    BY <1>6 DEF TypeOK, StoreOffsets
  <2>2. pc' \in [Workers -> PC] /\ inBatch' \in [Workers -> SUBSET Partitions]
    BY <1>6 DEF TypeOK, StoreOffsets, PC
  <2>3. QED
    BY <1>6, <2>1, <2>2 DEF TypeOK, StoreOffsets, brokerVars, historyVars, sinkVars, SinkTypeOK
<1>7. CASE Restart(w)
  BY <1>7 DEF TypeOK, Restart, PC, brokerVars, clientVars, historyVars, sinkVars, SinkTypeOK
<1>8. CASE SinkDeliver(w)
  BY <1>8 DEF TypeOK, SinkDeliver, Deliver, brokerVars, clientVars, loopVars, historyVars,
              SinkTypeOK
<1>9. CASE SinkError(w)
  BY <1>9 DEF TypeOK, SinkError, DeliveryError, Disturb, brokerVars, clientVars, loopVars,
              SinkTypeOK
<1>10. CASE \E p \in Partitions : Record(w, p) \/ CommitRefused(w, p)
  BY <1>10, RecordTypeOK, DownTypeOK DEF CommitRefused, TypeOK
<1>11. QED
  BY <1>1, <1>2, <1>3, <1>4, <1>5, <1>6, <1>7, <1>8, <1>9, <1>10 DEF Worker

\* Every variable keeps its type: offsets stay within the log, batches within the partitions.
THEOREM TypeCorrect == Spec => []TypeOK
<1>1. Init => TypeOK
  <2>1. ASSUME Init PROVE committed \in [Partitions -> Offset \cup {NoOffset}]
    BY <2>1 DEF Init, Offset
  <2>2. ASSUME Init PROVE stored \in [Workers -> [Partitions -> Offset \cup {NoOffset}]]
    BY <2>2 DEF Init
  <2>3. ASSUME Init PROVE SinkTypeOK
    BY <2>3 DEF Init, SinkInit, SinkTypeOK
  <2>4. ASSUME Init
        PROVE  /\ logStart \in [Partitions -> Offset]
               /\ logEnd \in [Partitions -> Offset]
               /\ position \in [Workers -> [Partitions -> Offset]]
               /\ cursor \in [Workers -> [Partitions -> Offset]]
               /\ limit \in [Workers -> [Partitions -> Offset]]
    BY <2>4 DEF Init, Offset
  <2>5. ASSUME Init
        PROVE  /\ owner \in [Partitions -> Workers \cup {NoOne}]
               /\ pc \in [Workers -> PC]
               /\ attempts \in [Workers -> Nat]
               /\ swallowed \in [Workers -> SUBSET Message]
    BY <2>5 DEF Init, PC
  <2>6. ASSUME Init
        PROVE  /\ assigned \in [Workers -> SUBSET Partitions]
               /\ paused \in [Workers -> SUBSET Partitions]
               /\ inBatch \in [Workers -> SUBSET Partitions]
               /\ retrying \in [Workers -> SUBSET Partitions]
    BY <2>6 DEF Init
  <2>7. ASSUME Init
        PROVE  /\ handled \in SUBSET Message /\ skipped \in SUBSET Message
               /\ disturbances \in Nat /\ everDown \in BOOLEAN
    BY <2>7 DEF Init
  <2>8. QED
    BY <2>1, <2>2, <2>3, <2>4, <2>5, <2>6, <2>7 DEF TypeOK
<1>2. TypeOK /\ [Next]_vars => TypeOK'
  <2>1. ASSUME TypeOK, Next PROVE TypeOK'
    BY <2>1, CoordinatorTypeOK, WorkerTypeOK DEF Next
  <2>2. ASSUME TypeOK, UNCHANGED vars PROVE TypeOK'
    BY <2>2 DEF TypeOK, vars, brokerVars, clientVars, loopVars, historyVars, sinkVars, SinkTypeOK
  <2>3. QED
    BY <2>1, <2>2
<1>3. QED
  BY <1>1, <1>2, PTL DEF Spec
-----------------------------------------------------------------------------
(* At-least-once processing.  What is accounted for stays so, because      *)
(* handled and skipped only grow; so each action only has to account for   *)
(* the offsets it moves.                                                   *)

HistoryGrows ==
  /\ handled \subseteq handled'
  /\ skipped \subseteq skipped'
  /\ \A p \in Partitions : logEnd[p] <= logEnd'[p]

OffsetsInv ==
  CommittedIsHandled /\ StoredIsHandled /\ BatchIsHandledBelow /\ FetchedIsHeld /\ WithinLog

\* The batch of a worker, and where it resumes fetching.
batchVars == <<assigned, position, inBatch, cursor, limit>>

\* No worker enters "polling" or "down" with a batch.
BatchesOnlyWhileBusy ==
  \A w \in Workers : pc'[w] \in {"polling", "down"} => pc[w] \in {"polling", "down"}

\* An account is never reopened.
LEMMA AccountedGrows ==
  ASSUME HistoryGrows, NEW p \in Partitions, NEW n, Accounted(p, n)
  PROVE  Accounted(p, n)'
BY DEF HistoryGrows, Accounted

\* A step that moves no offset preserves the invariant.
LEMMA QuietStep ==
  ASSUME TypeOK, TypeOK', OffsetsInv, HistoryGrows, BatchesOnlyWhileBusy,
         UNCHANGED <<committed, stored, batchVars>>
  PROVE  OffsetsInv'
<1>1. CommittedIsHandled' /\ StoredIsHandled'
  BY DEF OffsetsInv, CommittedIsHandled, StoredIsHandled, HistoryGrows, Accounted
<1>2. BatchIsHandledBelow'
  BY DEF OffsetsInv, BatchIsHandledBelow, BatchesOnlyWhileBusy, HistoryGrows, Accounted, batchVars
<1>3. FetchedIsHeld'
  BY DEF OffsetsInv, FetchedIsHeld, HistoryGrows, batchVars
<1>4. WithinLog'
  <2>1. ASSUME NEW p \in Partitions
        PROVE  /\ logEnd[p] \in Nat /\ logEnd'[p] \in Nat /\ logEnd[p] <= logEnd'[p]
               /\ committed[p] \in Int
               /\ \A w \in Workers : position[w][p] \in Nat /\ limit[w][p] \in Nat
               /\ \A w \in Workers : stored[w][p] \in Int
    BY DEF TypeOK, Offset, NoOffset, HistoryGrows
  <2>2. \A w \in Workers : assigned[w] \subseteq Partitions /\ inBatch[w] \subseteq Partitions
    BY DEF TypeOK
  <2>3. WithinLog
    BY DEF OffsetsInv
  <2>4. \A p \in Partitions : committed'[p] <= logEnd'[p]
    BY <2>1, <2>3 DEF WithinLog
  <2>5. \A w \in Workers, p \in Partitions : stored'[w][p] <= logEnd'[p]
    BY <2>1, <2>3 DEF WithinLog
  <2>6. ASSUME NEW w \in Workers, NEW p \in assigned[w]
        PROVE  position[w][p] <= logEnd'[p]
    BY <2>1, <2>2, <2>3 DEF WithinLog
  <2>7. ASSUME NEW w \in Workers, NEW p \in inBatch[w]
        PROVE  limit[w][p] <= logEnd'[p]
    BY <2>1, <2>2, <2>3 DEF WithinLog
  <2>8. QED
    BY <2>4, <2>5, <2>6, <2>7 DEF WithinLog, batchVars
<1>5. QED
  BY <1>1, <1>2, <1>3, <1>4 DEF OffsetsInv

\* A process that ends forgets offsets and moves none.
LEMMA DownStep ==
  ASSUME TypeOK, OffsetsInv, NEW w \in Workers, Down(w)
  PROVE  OffsetsInv'
<1>1. CommittedIsHandled'
  BY DEF OffsetsInv, CommittedIsHandled, Down, Accounted
<1>2. StoredIsHandled'
  <2>1. ASSUME NEW v \in Workers, NEW p \in Partitions
        PROVE  Accounted(p, stored[v][p])'
    <3>1. CASE v = w
      <4>1. stored'[v][p] = -1
        BY <3>1 DEF Down, TypeOK, NoOffset
      <4>2. QED
        BY <4>1 DEF Accounted
    <3>2. CASE v # w
      BY <3>2 DEF OffsetsInv, StoredIsHandled, Down, Accounted, TypeOK
    <3>3. QED
      BY <3>1, <3>2
  <2>2. QED
    BY <2>1 DEF StoredIsHandled
<1>3. BatchIsHandledBelow'
  <2>1. inBatch'[w] = {}
    BY DEF Down, TypeOK
  <2>2. ASSUME NEW v \in Workers \ {w}
        PROVE  /\ pc'[v] = pc[v] /\ inBatch'[v] = inBatch[v] /\ cursor'[v] = cursor[v]
               /\ limit'[v] = limit[v]
    BY DEF Down, TypeOK
  <2>3. UNCHANGED <<handled, skipped>>
    BY DEF Down
  <2>4. QED
    BY <2>1, <2>2, <2>3 DEF OffsetsInv, BatchIsHandledBelow, Accounted
<1>4. FetchedIsHeld'
  <2>1. assigned'[w] = {} /\ UNCHANGED <<handled, skipped>>
    BY DEF Down, TypeOK
  <2>2. ASSUME NEW v \in Workers \ {w}
        PROVE  /\ assigned'[v] = assigned[v] /\ position'[v] = position[v]
               /\ inBatch'[v] = inBatch[v] /\ cursor'[v] = cursor[v] /\ limit'[v] = limit[v]
    BY DEF Down, TypeOK
  <2>3. QED
    BY <2>1, <2>2 DEF OffsetsInv, FetchedIsHeld
<1>5. WithinLog'
  <2>1. \A p \in Partitions : committed'[p] <= logEnd'[p]
    BY DEF OffsetsInv, WithinLog, Down
  <2>2. \A v \in Workers, p \in Partitions : stored'[v][p] <= logEnd'[p]
    BY DEF OffsetsInv, WithinLog, Down, TypeOK, Offset, NoOffset
  <2>3. \A v \in Workers : \A p \in assigned'[v] : position'[v][p] <= logEnd'[p]
    BY DEF OffsetsInv, WithinLog, Down, TypeOK
  <2>4. \A v \in Workers : \A p \in inBatch'[v] : limit'[v][p] <= logEnd'[p]
    BY DEF OffsetsInv, WithinLog, Down, TypeOK
  <2>5. QED
    BY <2>1, <2>2, <2>3, <2>4 DEF WithinLog
<1>6. QED
  BY <1>1, <1>2, <1>3, <1>4, <1>5 DEF OffsetsInv

\* The record at the cursor is handled and the cursor moves past it.
LEMMA SettleStep ==
  ASSUME TypeOK, OffsetsInv, NEW w \in Workers, NEW p \in Partitions, At(w, p),
         cursor' = [cursor EXCEPT ![w][p] = NextRecord(w, p)],
         handled' = handled \cup {Current(w, p)},
         UNCHANGED <<logEnd, committed, stored, skipped, pc, assigned, position, inBatch, limit>>
  PROVE  OffsetsInv'
<1>1. HistoryGrows
  BY DEF HistoryGrows, TypeOK, Offset
<1>2. CommittedIsHandled' /\ StoredIsHandled'
  BY DEF OffsetsInv, CommittedIsHandled, StoredIsHandled, Accounted
<1>3. cursor[w][p] \in Nat /\ limit[w][p] \in Nat /\ cursor[w][p] < limit[w][p]
  BY DEF TypeOK, Offset, At
<1>4. \A v \in Workers, q \in Partitions :
        cursor'[v][q] = IF v = w /\ q = p THEN cursor[w][p] + 1 ELSE cursor[v][q]
  BY DEF TypeOK, NextRecord
<1>5. BatchIsHandledBelow'
  <2>1. \A v \in Workers : pc'[v] \in {"polling", "down"} => inBatch'[v] = {}
    BY DEF OffsetsInv, BatchIsHandledBelow
  <2>2. ASSUME NEW v \in Workers, NEW q \in inBatch'[v]
        PROVE  cursor'[v][q] <= limit'[v][q] /\ Accounted(q, cursor[v][q])'
    <3>1. /\ q \in Partitions /\ cursor[v][q] \in Nat
          /\ cursor[v][q] <= limit[v][q] /\ Accounted(q, cursor[v][q])
      BY DEF OffsetsInv, BatchIsHandledBelow, TypeOK, Offset
    <3>2. CASE v = w /\ q = p
      BY <1>3, <1>4, <3>1, <3>2 DEF Accounted, Current
    <3>3. CASE ~(v = w /\ q = p)
      BY <1>4, <3>1, <3>3 DEF Accounted
    <3>4. QED
      BY <3>2, <3>3
  <2>3. QED
    BY <2>1, <2>2 DEF BatchIsHandledBelow
<1>6. FetchedIsHeld'
  <2>1. ASSUME NEW v \in Workers, NEW q \in assigned'[v], NEW o \in 0 .. position'[v][q] - 1
        PROVE  \/ <<q, o>> \in handled' \cup skipped'
               \/ q \in inBatch'[v] /\ o \in cursor'[v][q] .. limit'[v][q] - 1
    <3>1. /\ q \in Partitions /\ o \in Int
          /\ cursor[v][q] \in Nat /\ limit[v][q] \in Nat
      BY DEF TypeOK, Offset
    <3>2. \/ <<q, o>> \in handled \cup skipped
          \/ q \in inBatch[v] /\ o \in cursor[v][q] .. limit[v][q] - 1
      BY DEF OffsetsInv, FetchedIsHeld
    <3>3. CASE v = w /\ q = p /\ o = cursor[w][p]
      BY <3>3 DEF Current
    <3>4. CASE ~(v = w /\ q = p /\ o = cursor[w][p])
      BY <1>3, <1>4, <3>1, <3>2, <3>4
    <3>5. QED
      BY <3>3, <3>4
  <2>2. QED
    BY <2>1 DEF FetchedIsHeld
<1>7. WithinLog'
  BY DEF OffsetsInv, WithinLog
<1>8. QED
  BY <1>2, <1>5, <1>6, <1>7 DEF OffsetsInv
\* A new assignment starts from the committed offset, or records what it jumps over.
LEMMA AssignStep ==
  ASSUME TypeOK, TypeOK', OffsetsInv, NEW w \in Workers, NEW p \in Partitions, Assign(w, p)
  PROVE  OffsetsInv'
<1>1. HistoryGrows
  BY DEF Assign, HistoryGrows, TypeOK, Offset
<1>2. /\ logEnd[p] \in Nat /\ committed[p] \in Int
      /\ ResetPosition(p) \in Nat /\ ResetPosition(p) <= logEnd[p]
  BY DEF TypeOK, Offset, ResetPosition, OffsetsInv, WithinLog, NoOffset
<1>3. Accounted(p, ResetPosition(p))'
  <2>1. CASE committed[p] < logStart[p]
    BY <1>2, <2>1 DEF Accounted, ResetPosition, Assign, JumpedOver
  <2>2. CASE ~(committed[p] < logStart[p])
    BY <1>2, <2>2 DEF Accounted, ResetPosition, Assign, OffsetsInv, CommittedIsHandled
  <2>3. QED
    BY <2>1, <2>2
<1>4. ResetPosition(p)' = ResetPosition(p)
  BY DEF Assign, ResetPosition
<1>5. \A v \in Workers, q \in Partitions :
        /\ stored'[v][q] = IF v = w /\ q = p THEN -1 ELSE stored[v][q]
        /\ position'[v][q] = IF v = w /\ q = p THEN ResetPosition(p) ELSE position[v][q]
  BY DEF Assign, TypeOK, NoOffset
<1>6. /\ assigned'[w] = assigned[w] \cup {p}
      /\ \A v \in Workers \ {w} : assigned'[v] = assigned[v]
  BY DEF Assign, TypeOK
<1>7. CommittedIsHandled' /\ BatchIsHandledBelow'
  BY <1>1 DEF OffsetsInv, CommittedIsHandled, BatchIsHandledBelow, Assign, Accounted, loopVars,
              HistoryGrows
<1>8. StoredIsHandled'
  <2>1. ASSUME NEW v \in Workers, NEW q \in Partitions
        PROVE  Accounted(q, stored[v][q])'
    <3>1. Accounted(q, stored[v][q])
      BY DEF OffsetsInv, StoredIsHandled
    <3>2. stored'[v][q] = -1 \/ stored'[v][q] = stored[v][q]
      BY <1>5
    <3>3. QED
      BY <1>1, <3>1, <3>2 DEF Accounted, HistoryGrows
  <2>2. QED
    BY <2>1 DEF StoredIsHandled
<1>9. FetchedIsHeld'
  <2>1. ASSUME NEW v \in Workers, NEW q \in assigned'[v], NEW o \in 0 .. position'[v][q] - 1
        PROVE  \/ <<q, o>> \in handled' \cup skipped'
               \/ q \in inBatch'[v] /\ o \in cursor'[v][q] .. limit'[v][q] - 1
    <3>1. CASE v = w /\ q = p
      BY <1>3, <1>4, <1>5, <3>1 DEF Accounted
    <3>2. CASE ~(v = w /\ q = p)
      <4>1. q \in assigned[v] /\ q \in Partitions
        BY <1>6, <3>2 DEF TypeOK
      <4>2. QED
        BY <1>1, <1>5, <3>2, <4>1 DEF OffsetsInv, FetchedIsHeld, HistoryGrows, Assign, loopVars
    <3>3. QED
      BY <3>1, <3>2
  <2>2. QED
    BY <2>1 DEF FetchedIsHeld
<1>10. WithinLog'
  <2>1. \A q \in Partitions : committed'[q] <= logEnd'[q]
    BY DEF Assign, OffsetsInv, WithinLog
  <2>2. \A v \in Workers, q \in Partitions : stored'[v][q] <= logEnd'[q]
    BY <1>2, <1>5 DEF Assign, OffsetsInv, WithinLog
  <2>3. \A v \in Workers : \A q \in assigned'[v] : position'[v][q] <= logEnd'[q]
    BY <1>2, <1>5, <1>6 DEF Assign, OffsetsInv, WithinLog, TypeOK
  <2>4. \A v \in Workers : \A q \in inBatch'[v] : limit'[v][q] <= logEnd'[q]
    BY DEF Assign, OffsetsInv, WithinLog, loopVars
  <2>5. QED
    BY <2>1, <2>2, <2>3, <2>4 DEF WithinLog
<1>11. QED
  BY <1>7, <1>8, <1>9, <1>10 DEF OffsetsInv

\* What a position that is moved to the end of the log leaves behind is skipped.
LEMMA OutOfRangeStep ==
  ASSUME TypeOK, TypeOK', OffsetsInv, NEW w \in Workers, NEW p \in Partitions,
         OutOfRange(w, p)
  PROVE  OffsetsInv'
<1>1. HistoryGrows
  BY DEF OutOfRange, HistoryGrows, brokerVars, TypeOK, Offset
<1>2. /\ UNCHANGED <<committed, stored, assigned, pc, inBatch, cursor, limit, logEnd, handled>>
      /\ p \in assigned[w]
      /\ skipped' = skipped \cup (({p} \X (position[w][p] .. logEnd[p] - 1)) \ handled)
  BY DEF OutOfRange, brokerVars, loopVars
<1>3. \A v \in Workers, q \in Partitions :
        position'[v][q] = IF v = w /\ q = p THEN logEnd[p] ELSE position[v][q]
  BY DEF OutOfRange, TypeOK
<1>4. CommittedIsHandled' /\ StoredIsHandled' /\ BatchIsHandledBelow'
  BY <1>1, <1>2 DEF OffsetsInv, CommittedIsHandled, StoredIsHandled, BatchIsHandledBelow,
                    Accounted, HistoryGrows
<1>5. FetchedIsHeld'
  <2>1. ASSUME NEW v \in Workers, NEW q \in assigned[v], NEW o \in 0 .. position'[v][q] - 1
        PROVE  \/ <<q, o>> \in handled \cup skipped'
               \/ q \in inBatch[v] /\ o \in cursor[v][q] .. limit[v][q] - 1
    <3>1. q \in Partitions /\ position[v][q] \in Nat /\ logEnd[q] \in Nat
      BY DEF TypeOK, Offset
    <3>2. CASE o < position[v][q]
      <4>1. o \in 0 .. position[v][q] - 1
        BY <1>3, <3>1, <3>2
      <4>2. QED
        BY <1>2, <4>1 DEF OffsetsInv, FetchedIsHeld
    <3>3. CASE ~(o < position[v][q])
      <4>1. v = w /\ q = p /\ o \in position[w][p] .. logEnd[p] - 1
        BY <1>3, <3>1, <3>3
      <4>2. QED
        BY <1>2, <4>1
    <3>4. QED
      BY <3>2, <3>3
  <2>2. QED
    BY <1>2, <2>1 DEF FetchedIsHeld
<1>6. WithinLog'
  <2>1. \A v \in Workers : \A q \in assigned'[v] : position'[v][q] <= logEnd'[q]
    <3>1. \A q \in Partitions : logEnd[q] \in Nat
      BY DEF TypeOK, Offset
    <3>2. \A v \in Workers : assigned[v] \subseteq Partitions
      BY DEF TypeOK
    <3>3. QED
      BY <1>2, <1>3, <3>1, <3>2 DEF OffsetsInv, WithinLog
  <2>2. QED
    BY <1>2, <2>1 DEF OffsetsInv, WithinLog
<1>7. QED
  BY <1>4, <1>5, <1>6 DEF OffsetsInv

\* Dropping a partition, committing what was stored for it or not.
LEMMA UnassignStep ==
  ASSUME TypeOK, TypeOK', OffsetsInv, NEW w \in Workers, NEW p \in Partitions,
         Unassign(w, p),
         \/ committed' = [committed EXCEPT ![p] = stored[w][p]]
         \/ UNCHANGED committed,
         UNCHANGED <<logEnd, loopVars, handled, skipped>>
  PROVE  OffsetsInv'
<1>1. \A q \in Partitions : committed'[q] = committed[q] \/ committed'[q] = stored[w][q]
  BY DEF TypeOK
<1>2. \A v \in Workers, q \in Partitions :
        stored'[v][q] = IF v = w /\ q = p THEN -1 ELSE stored[v][q]
  BY DEF Unassign, TypeOK, NoOffset
<1>3. \A v \in Workers : assigned'[v] \subseteq assigned[v]
  BY DEF Unassign, TypeOK
<1>4. CommittedIsHandled'
  <2>1. ASSUME NEW q \in Partitions PROVE Accounted(q, committed[q])'
    <3>1. Accounted(q, committed[q]) /\ Accounted(q, stored[w][q])
      BY DEF OffsetsInv, CommittedIsHandled, StoredIsHandled
    <3>2. QED
      BY <1>1, <3>1 DEF Accounted
  <2>2. QED
    BY <2>1 DEF CommittedIsHandled
<1>5. StoredIsHandled'
  <2>1. ASSUME NEW v \in Workers, NEW q \in Partitions
        PROVE  Accounted(q, stored[v][q])'
    <3>1. Accounted(q, stored[v][q])
      BY DEF OffsetsInv, StoredIsHandled
    <3>2. stored'[v][q] = -1 \/ stored'[v][q] = stored[v][q]
      BY <1>2
    <3>3. QED
      BY <3>1, <3>2 DEF Accounted
  <2>2. QED
    BY <2>1 DEF StoredIsHandled
<1>6. BatchIsHandledBelow'
  BY DEF OffsetsInv, BatchIsHandledBelow, Accounted, loopVars
<1>7. FetchedIsHeld'
  BY <1>3 DEF OffsetsInv, FetchedIsHeld, Unassign, loopVars
<1>8. WithinLog'
  <2>1. \A q \in Partitions : committed'[q] <= logEnd'[q]
    BY <1>1 DEF OffsetsInv, WithinLog
  <2>2. \A v \in Workers, q \in Partitions : stored'[v][q] <= logEnd'[q]
    <3>1. \A q \in Partitions : logEnd[q] \in Nat
      BY DEF TypeOK, Offset
    <3>2. QED
      BY <1>2, <3>1 DEF OffsetsInv, WithinLog
  <2>3. \A v \in Workers : \A q \in assigned'[v] : position'[v][q] <= logEnd'[q]
    BY <1>3 DEF OffsetsInv, WithinLog, Unassign
  <2>4. \A v \in Workers : \A q \in inBatch'[v] : limit'[v][q] <= logEnd'[q]
    BY DEF OffsetsInv, WithinLog, loopVars
  <2>5. QED
    BY <2>1, <2>2, <2>3, <2>4 DEF WithinLog
<1>9. QED
  BY <1>4, <1>5, <1>6, <1>7, <1>8 DEF OffsetsInv

\* The committed offset becomes the stored one.
LEMMA AutoCommitStep ==
  ASSUME TypeOK, OffsetsInv, NEW w \in Workers, NEW p \in Partitions, AutoCommit(w, p)
  PROVE  OffsetsInv'
<1>1. \A q \in Partitions : committed'[q] = committed[q] \/ committed'[q] = stored[w][q]
  BY DEF AutoCommit, TypeOK
<1>2. CommittedIsHandled'
  <2>1. ASSUME NEW q \in Partitions PROVE Accounted(q, committed[q])'
    <3>1. Accounted(q, committed[q]) /\ Accounted(q, stored[w][q])
      BY DEF OffsetsInv, CommittedIsHandled, StoredIsHandled
    <3>2. QED
      BY <1>1, <3>1 DEF Accounted, AutoCommit, historyVars
  <2>2. QED
    BY <2>1 DEF CommittedIsHandled
<1>3. StoredIsHandled' /\ BatchIsHandledBelow' /\ FetchedIsHeld'
  BY DEF OffsetsInv, StoredIsHandled, BatchIsHandledBelow, FetchedIsHeld, Accounted, AutoCommit,
         historyVars, clientVars, loopVars
<1>4. WithinLog'
  BY <1>1 DEF OffsetsInv, WithinLog, AutoCommit, clientVars, loopVars
<1>5. QED
  BY <1>2, <1>3, <1>4 DEF OffsetsInv

\* A batch starts where fetching stood, with nothing left over from the batch before.
LEMMA ConsumeStep ==
  ASSUME TypeOK, TypeOK', OffsetsInv, NEW w \in Workers, Consume(w)
  PROVE  OffsetsInv'
<1>1. PICK upTo \in [Partitions -> Offset] :
        /\ \A p \in Partitions :
             IF p \in assigned[w] THEN position[w][p] <= upTo[p] /\ upTo[p] <= logEnd[p]
                                  ELSE upTo[p] = position[w][p]
        /\ inBatch' = [inBatch EXCEPT ![w] = {p \in Partitions : upTo[p] # position[w][p]}]
        /\ cursor' = [cursor EXCEPT ![w] = position[w]]
        /\ limit' = [limit EXCEPT ![w] = upTo]
        /\ position' = [position EXCEPT ![w] = upTo]
  BY DEF Consume
<1>2. /\ inBatch'[w] \subseteq assigned[w] /\ inBatch'[w] \subseteq Partitions
      /\ cursor'[w] = position[w] /\ limit'[w] = upTo /\ position'[w] = upTo
  BY <1>1 DEF TypeOK
<1>3. \A v \in Workers \ {w} :
        /\ inBatch'[v] = inBatch[v] /\ cursor'[v] = cursor[v]
        /\ limit'[v] = limit[v] /\ position'[v] = position[v] /\ pc'[v] = pc[v]
  BY <1>1 DEF TypeOK, Consume
<1>4. inBatch[w] = {} /\ pc'[w] = "processing"
  BY DEF OffsetsInv, BatchIsHandledBelow, Consume, TypeOK
<1>5. UNCHANGED <<logEnd, committed, assigned, stored, handled, skipped>>
  BY DEF Consume, brokerVars, historyVars
<1>6. \A p \in assigned[w] : Accounted(p, position[w][p])
  BY <1>4 DEF OffsetsInv, FetchedIsHeld, Accounted
<1>7. \A p \in Partitions : /\ position[w][p] \in Nat /\ upTo[p] \in Nat
                            /\ position[w][p] <= upTo[p]
  BY <1>1 DEF TypeOK, Offset
<1>8. CommittedIsHandled' /\ StoredIsHandled'
  BY <1>5 DEF OffsetsInv, CommittedIsHandled, StoredIsHandled, Accounted
<1>9. BatchIsHandledBelow'
  <2>1. ASSUME NEW v \in Workers
        PROVE  /\ pc'[v] \in {"polling", "down"} => inBatch'[v] = {}
               /\ \A p \in inBatch'[v] :
                    cursor'[v][p] <= limit'[v][p] /\ Accounted(p, cursor[v][p])'
    <3>1. CASE v = w
      BY <1>2, <1>4, <1>5, <1>6, <1>7, <3>1 DEF Accounted
    <3>2. CASE v # w
      BY <1>3, <1>5, <3>2 DEF OffsetsInv, BatchIsHandledBelow, Accounted
    <3>3. QED
      BY <3>1, <3>2
  <2>2. QED
    BY <2>1 DEF BatchIsHandledBelow
<1>10. FetchedIsHeld'
  <2>1. ASSUME NEW v \in Workers, NEW q \in assigned'[v], NEW o \in 0 .. position'[v][q] - 1
        PROVE  \/ <<q, o>> \in handled' \cup skipped'
               \/ q \in inBatch'[v] /\ o \in cursor'[v][q] .. limit'[v][q] - 1
    <3>1. q \in Partitions
      BY DEF TypeOK
    <3>2. CASE v = w /\ o < position[w][q]
      BY <1>5, <1>6, <1>7, <3>1, <3>2 DEF Accounted
    <3>3. CASE v = w /\ ~(o < position[w][q])
      <4>1. upTo[q] # position[w][q] /\ o \in position[w][q] .. upTo[q] - 1
        BY <1>2, <1>7, <3>1, <3>3
      <4>2. q \in inBatch'[w]
        BY <1>1, <3>1, <4>1 DEF TypeOK
      <4>3. QED
        BY <1>2, <3>3, <4>1, <4>2
    <3>4. CASE v # w
      BY <1>3, <1>5, <3>4 DEF OffsetsInv, FetchedIsHeld
    <3>5. QED
      BY <3>2, <3>3, <3>4
  <2>2. QED
    BY <2>1 DEF FetchedIsHeld
<1>11. WithinLog'
  <2>1. \A v \in Workers : \A p \in assigned'[v] : position'[v][p] <= logEnd'[p]
    BY <1>1, <1>2, <1>3, <1>5 DEF OffsetsInv, WithinLog, TypeOK
  <2>2. \A v \in Workers : \A p \in inBatch'[v] : limit'[v][p] <= logEnd'[p]
    BY <1>1, <1>2, <1>3, <1>5 DEF OffsetsInv, WithinLog, TypeOK
  <2>3. QED
    BY <1>5, <2>1, <2>2 DEF OffsetsInv, WithinLog
<1>12. QED
  BY <1>8, <1>9, <1>10, <1>11 DEF OffsetsInv
\* A transaction handles the whole batch and moves every cursor to its end.
LEMMA PushBatchStep ==
  ASSUME TypeOK, TypeOK', OffsetsInv, NEW w \in Workers, PushBatch(w)
  PROVE  OffsetsInv'
<1>1. /\ UNCHANGED <<logEnd, committed, assigned, stored, position, pc, inBatch, limit, skipped>>
      /\ cursor' = [cursor EXCEPT ![w] = limit[w]]
  BY DEF PushBatch, brokerVars, clientVars
<1>2. HistoryGrows
  BY <1>1 DEF HistoryGrows, PushBatch, TypeOK, Offset
<1>3. \A p \in inBatch[w] : \A o \in cursor[w][p] .. limit[w][p] - 1 : <<p, o>> \in handled'
  <2>1. ASSUME NEW p \in inBatch[w], NEW o \in cursor[w][p] .. limit[w][p] - 1
        PROVE  <<p, o>> \in handled'
    <3>1. /\ p \in Partitions
          /\ cursor[w][p] \in 0 .. LogLen /\ limit[w][p] \in 0 .. LogLen
      BY DEF TypeOK, Offset
    <3>2. o \in 0 .. LogLen - 1
      BY <3>1
    <3>3. <<p, o>> \in Message
      BY <3>1, <3>2 DEF Message
    <3>4. QED
      BY <3>3 DEF PushBatch
  <2>2. QED
    BY <2>1
<1>4. /\ cursor'[w] = limit[w]
      /\ \A v \in Workers \ {w} : cursor'[v] = cursor[v]
  BY <1>1 DEF TypeOK
<1>5. CommittedIsHandled' /\ StoredIsHandled'
  BY <1>1, <1>2 DEF OffsetsInv, CommittedIsHandled, StoredIsHandled, Accounted, HistoryGrows
<1>6. BatchIsHandledBelow'
  <2>1. ASSUME NEW v \in Workers
        PROVE  /\ pc'[v] \in {"polling", "down"} => inBatch'[v] = {}
               /\ \A p \in inBatch'[v] :
                    cursor'[v][p] <= limit'[v][p] /\ Accounted(p, cursor[v][p])'
    <3>1. pc'[v] \in {"polling", "down"} => inBatch'[v] = {}
      BY <1>1 DEF OffsetsInv, BatchIsHandledBelow
    <3>2. ASSUME NEW p \in inBatch[v]
          PROVE  cursor'[v][p] <= limit[v][p] /\ Accounted(p, cursor[v][p])'
      <4>1. /\ cursor[v][p] \in Nat /\ limit[v][p] \in Nat
            /\ cursor[v][p] <= limit[v][p] /\ Accounted(p, cursor[v][p])
        BY DEF OffsetsInv, BatchIsHandledBelow, TypeOK, Offset
      <4>2. CASE v = w
        BY <1>2, <1>3, <1>4, <4>1, <4>2 DEF Accounted, HistoryGrows
      <4>3. CASE v # w
        BY <1>2, <1>4, <4>1, <4>3 DEF Accounted, HistoryGrows
      <4>4. QED
        BY <4>2, <4>3
    <3>3. QED
      BY <1>1, <3>1, <3>2
  <2>2. QED
    BY <2>1 DEF BatchIsHandledBelow
<1>7. FetchedIsHeld'
  <2>1. ASSUME NEW v \in Workers, NEW q \in assigned[v], NEW o \in 0 .. position[v][q] - 1
        PROVE  \/ <<q, o>> \in handled' \cup skipped'
               \/ q \in inBatch[v] /\ o \in cursor'[v][q] .. limit[v][q] - 1
    <3>1. \/ <<q, o>> \in handled \cup skipped
          \/ q \in inBatch[v] /\ o \in cursor[v][q] .. limit[v][q] - 1
      BY DEF OffsetsInv, FetchedIsHeld
    <3>2. QED
      BY <1>2, <1>3, <1>4, <3>1 DEF HistoryGrows
  <2>2. QED
    BY <1>1, <2>1 DEF FetchedIsHeld
<1>8. WithinLog'
  BY <1>1 DEF OffsetsInv, WithinLog
<1>9. QED
  BY <1>5, <1>6, <1>7, <1>8 DEF OffsetsInv

\* Only a batch that is handled to its end is stored.
LEMMA StoreOffsetsStep ==
  ASSUME TypeOK, TypeOK', OffsetsInv, NEW w \in Workers, StoreOffsets(w)
  PROVE  OffsetsInv'
<1>1. /\ UNCHANGED <<logEnd, committed, assigned, position, cursor, limit, handled, skipped>>
      /\ inBatch'[w] = {} /\ \A v \in Workers \ {w} : inBatch'[v] = inBatch[v]
      /\ \A v \in Workers \ {w} : stored'[v] = stored[v] /\ pc'[v] = pc[v]
  BY DEF StoreOffsets, brokerVars, historyVars, TypeOK
<1>2. \A p \in inBatch[w] : cursor[w][p] = limit[w][p]
  BY DEF StoreOffsets, BatchDone
<1>3. ASSUME NEW v \in Workers, NEW p \in Partitions
      PROVE  \/ stored'[v][p] = stored[v][p]
             \/ v = w /\ p \in inBatch[w] /\ stored'[v][p] = limit[w][p]
  BY <1>1 DEF StoreOffsets, TypeOK
<1>4. CommittedIsHandled'
  BY <1>1 DEF OffsetsInv, CommittedIsHandled, Accounted
<1>5. StoredIsHandled'
  <2>1. ASSUME NEW v \in Workers, NEW p \in Partitions
        PROVE  Accounted(p, stored[v][p])'
    <3>1. CASE stored'[v][p] = stored[v][p]
      BY <1>1, <3>1 DEF OffsetsInv, StoredIsHandled, Accounted
    <3>2. CASE v = w /\ p \in inBatch[w] /\ stored'[v][p] = limit[w][p]
      BY <1>1, <1>2, <3>2 DEF OffsetsInv, BatchIsHandledBelow, Accounted
    <3>3. QED
      BY <1>3, <3>1, <3>2
  <2>2. QED
    BY <2>1 DEF StoredIsHandled
<1>6. BatchIsHandledBelow'
  BY <1>1 DEF OffsetsInv, BatchIsHandledBelow, Accounted
<1>7. FetchedIsHeld'
  <2>1. ASSUME NEW v \in Workers, NEW q \in assigned[v], NEW o \in 0 .. position[v][q] - 1
        PROVE  \/ <<q, o>> \in handled \cup skipped
               \/ q \in inBatch'[v] /\ o \in cursor[v][q] .. limit[v][q] - 1
    <3>1. \/ <<q, o>> \in handled \cup skipped
          \/ q \in inBatch[v] /\ o \in cursor[v][q] .. limit[v][q] - 1
      BY DEF OffsetsInv, FetchedIsHeld
    <3>2. cursor[v][q] \in Nat /\ limit[v][q] \in Nat
      BY DEF TypeOK, Offset
    <3>3. QED
      BY <1>1, <1>2, <3>1, <3>2
  <2>2. QED
    BY <1>1, <2>1 DEF FetchedIsHeld
<1>8. WithinLog'
  <2>1. \A v \in Workers, p \in Partitions : stored'[v][p] <= logEnd[p]
    BY <1>3 DEF OffsetsInv, WithinLog
  <2>2. QED
    BY <1>1, <2>1 DEF OffsetsInv, WithinLog
<1>9. QED
  BY <1>4, <1>5, <1>6, <1>7, <1>8 DEF OffsetsInv

LEMMA CoordinatorStep ==
  ASSUME TypeOK, TypeOK', OffsetsInv, Coordinator
  PROVE  OffsetsInv'
<1>1. ASSUME NEW p \in Partitions, Publish(p)
      PROVE  OffsetsInv'
  <2>1. HistoryGrows
    BY <1>1 DEF Publish, HistoryGrows, historyVars, TypeOK, Offset
  <2>2. QED
    BY <1>1, <2>1, QuietStep DEF Publish, BatchesOnlyWhileBusy, clientVars, loopVars, batchVars
<1>2. ASSUME NEW w \in Workers, Evict(w)
      PROVE  OffsetsInv'
  <2>1. HistoryGrows
    BY <1>2 DEF Evict, HistoryGrows, TypeOK, Offset
  <2>2. QED
    BY <1>2, <2>1, QuietStep DEF Evict, BatchesOnlyWhileBusy, clientVars, loopVars, batchVars
<1>3. ASSUME NEW w \in Workers, NEW p \in Partitions, Revoke(w, p)
      PROVE  OffsetsInv'
  BY <1>3, UnassignStep DEF Revoke
<1>4. ASSUME NEW w \in Workers, NEW p \in Partitions, DiscoverLoss(w, p)
      PROVE  OffsetsInv'
  BY <1>4, UnassignStep DEF DiscoverLoss, brokerVars, historyVars
<1>5. ASSUME NEW p \in Partitions, Expire(p)
      PROVE  OffsetsInv'
  <2>1. HistoryGrows
    BY <1>5 DEF Expire, HistoryGrows, TypeOK, Offset
  <2>2. QED
    BY <1>5, <2>1, QuietStep DEF Expire, BatchesOnlyWhileBusy, clientVars, loopVars, batchVars
<1>6. QED
  BY <1>1, <1>2, <1>3, <1>4, <1>5, AssignStep, OutOfRangeStep, AutoCommitStep DEF Coordinator

LEMMA RecordStep ==
  ASSUME TypeOK, TypeOK', OffsetsInv, NEW w \in Workers, NEW p \in Partitions, Record(w, p)
  PROVE  OffsetsInv'
<1>1. CASE Answer(w, p) \/ TimeOut(w, p) \/ TimeOutInSink(w, p)
  BY <1>1, SettleStep DEF Answer, TimeOut, TimeOutInSink, Finish, brokerVars, clientVars
<1>2. CASE Ignore(w, p)
  BY <1>2, SettleStep DEF Ignore, brokerVars, clientVars
<1>3. CASE BailOut(w, p) \/ Raise(w, p)
  BY <1>3, DownStep DEF BailOut, Raise
<1>4. CASE Backoff(w, p)
  <2>1. HistoryGrows
    BY <1>4 DEF Backoff, HistoryGrows, brokerVars, historyVars, TypeOK, Offset
  <2>2. BatchesOnlyWhileBusy
    BY <1>4 DEF Backoff, BatchesOnlyWhileBusy, TypeOK
  <2>3. QED
    BY <1>4, <2>1, <2>2, QuietStep DEF Backoff, brokerVars, batchVars
<1>5. CASE SwallowAlarm(w, p)
  <2>1. HistoryGrows
    BY <1>5 DEF SwallowAlarm, HistoryGrows, brokerVars, historyVars, TypeOK, Offset
  <2>2. QED
    BY <1>5, <2>1, QuietStep
       DEF SwallowAlarm, BatchesOnlyWhileBusy, brokerVars, clientVars, batchVars
<1>6. QED
  BY <1>1, <1>2, <1>3, <1>4, <1>5 DEF Record

LEMMA WorkerStep ==
  ASSUME TypeOK, TypeOK', OffsetsInv, NEW w \in Workers, Worker(w)
  PROVE  OffsetsInv'
<1>1. CASE PollWhilePaused(w) \/ PushBatchRaises(w) \/ StoreOffsetsRefused(w) \/ Crash(w)
  BY <1>1, DownStep DEF PollWhilePaused, PushBatchRaises, StoreOffsetsRefused, Crash
<1>5. CASE \E p \in Partitions : CommitRefused(w, p)
  BY <1>5, DownStep DEF CommitRefused
<1>2. CASE Resume(w) \/ Restart(w)
  <2>1. HistoryGrows
    BY <1>2 DEF Resume, Restart, HistoryGrows, brokerVars, historyVars, TypeOK, Offset
  <2>2. BatchesOnlyWhileBusy
    BY <1>2 DEF Resume, Restart, BatchesOnlyWhileBusy, TypeOK
  <2>3. QED
    BY <1>2, <2>1, <2>2, QuietStep DEF Resume, Restart, brokerVars, clientVars, batchVars
<1>3. CASE SinkDeliver(w) \/ SinkError(w)
  <2>1. HistoryGrows
    BY <1>3 DEF SinkDeliver, SinkError, HistoryGrows, brokerVars, historyVars, TypeOK, Offset
  <2>2. QED
    BY <1>3, <2>1, QuietStep
       DEF SinkDeliver, SinkError, BatchesOnlyWhileBusy, brokerVars, clientVars, loopVars, batchVars
<1>4. QED
  BY <1>1, <1>2, <1>3, <1>5, ConsumeStep, PushBatchStep, StoreOffsetsStep, RecordStep
     DEF Worker

\* The invariant holds initially and every step preserves it.
THEOREM Inductive == Spec => []IInv
<1>1. Init => OffsetsInv
  <2>1. ASSUME Init
        PROVE  /\ \A p \in Partitions : committed[p] \in {-1, 0} /\ logEnd[p] = 0
               /\ \A w \in Workers, p \in Partitions : stored[w][p] = -1
               /\ \A w \in Workers : assigned[w] = {} /\ inBatch[w] = {}
    BY <2>1 DEF Init, NoOffset
  <2>2. ASSUME Init PROVE CommittedIsHandled /\ StoredIsHandled
    BY <2>1, <2>2 DEF CommittedIsHandled, StoredIsHandled, Accounted
  <2>3. ASSUME Init PROVE BatchIsHandledBelow /\ FetchedIsHeld /\ WithinLog
    BY <2>1, <2>3 DEF BatchIsHandledBelow, FetchedIsHeld, WithinLog
  <2>4. QED
    BY <2>2, <2>3 DEF OffsetsInv
<1>2. TypeOK /\ TypeOK' /\ OffsetsInv /\ [Next]_vars => OffsetsInv'
  <2>1. ASSUME TypeOK, TypeOK', OffsetsInv, Next PROVE OffsetsInv'
    BY <2>1, CoordinatorStep, WorkerStep DEF Next
  <2>2. ASSUME TypeOK, TypeOK', OffsetsInv, UNCHANGED vars PROVE OffsetsInv'
    BY <2>2, QuietStep DEF vars, brokerVars, clientVars, loopVars, historyVars, batchVars,
       HistoryGrows, BatchesOnlyWhileBusy, TypeOK, Offset
  <2>3. QED
    BY <2>1, <2>2
<1>3. TypeOK /\ OffsetsInv => IInv
  BY DEF IInv, OffsetsInv
<1>4. QED
  BY <1>1, <1>2, <1>3, TypeCorrect, PTL DEF Spec

\* At-least-once processing, for every group, topic and batch size: no committed offset
\* passes a message that no worker has handled.
THEOREM AtLeastOnce == Spec => []CommittedIsHandled
BY Inductive, PTL DEF IInv

\* No message is lost between fetching and committing.
THEOREM NothingFallsBetween == Spec => []FetchedIsHeld
BY Inductive, PTL DEF IInv
-----------------------------------------------------------------------------
(* The group implements the abstract queue: each step is one of WorkQueue, *)
(* or leaves the log, the watermark and what is done alone.                *)

\* Committing a stored offset is a Commit of the queue.
LEMMA CommitRefines ==
  ASSUME IInv, NEW w \in Workers, NEW p \in Partitions, stored[w][p] # NoOffset,
         committed' = [committed EXCEPT ![p] = stored[w][p]],
         UNCHANGED <<logStart, logEnd, handled, skipped>>
  PROVE  Queue!Commit(p)
<1>1. stored[w][p] \in 0 .. logEnd[p]
  BY DEF IInv, TypeOK, WithinLog, Offset, NoOffset
<1>2. Queue!Settled(p, stored[w][p])
  BY DEF IInv, StoredIsHandled, Accounted, Queue!Settled
<1>3. QED
  BY <1>1, <1>2 DEF Queue!Commit

\* Settling a record is a Handle of the queue.
LEMMA SettleRefines ==
  ASSUME IInv, NEW w \in Workers, NEW p \in Partitions, At(w, p),
         handled' = handled \cup {Current(w, p)},
         UNCHANGED <<logStart, logEnd, committed, skipped>>
  PROVE  Queue!Handle
<1>1. Current(w, p) \in Message
  BY CurrentIsMessage DEF At, IInv
<1>2. cursor[w][p] < logEnd[p]
  BY DEF IInv, TypeOK, WithinLog, At, Offset
<1>3. {Current(w, p)} \in SUBSET Queue!Message
  BY <1>1 DEF Message, Queue!Message
<1>4. \A m \in {Current(w, p)} : m[2] < logEnd[m[1]]
  BY <1>2 DEF Current
<1>5. QED
  BY <1>3, <1>4 DEF Queue!Handle

\* So is the transaction of a persist worker.
LEMMA PushBatchRefines ==
  ASSUME IInv, NEW w \in Workers, PushBatch(w)
  PROVE  Queue!Handle
<1> DEFINE done == {m \in Message : m[1] \in inBatch[w]
                                    /\ m[2] \in cursor[w][m[1]] .. limit[w][m[1]] - 1}
<1>1. done \in SUBSET Queue!Message
  BY DEF Message, Queue!Message
<1>2. ASSUME NEW m \in done PROVE m[2] < logEnd[m[1]]
  <2>1. m[1] \in Partitions /\ m[1] \in inBatch[w] /\ m[2] \in cursor[w][m[1]] .. limit[w][m[1]] - 1
    BY DEF Message
  <2>2. /\ cursor[w][m[1]] \in Int /\ limit[w][m[1]] \in Int /\ logEnd[m[1]] \in Int
        /\ limit[w][m[1]] <= logEnd[m[1]]
    BY <2>1 DEF IInv, TypeOK, Offset, WithinLog
  <2>3. QED
    BY <2>1, <2>2
<1>3. handled' = handled \cup done
  BY DEF PushBatch
<1>4. UNCHANGED <<logStart, logEnd, skipped, committed>>
  BY DEF PushBatch, brokerVars
<1>5. QED
  BY <1>1, <1>2, <1>3, <1>4 DEF Queue!Handle

LEMMA CoordinatorRefines ==
  ASSUME IInv, Coordinator
  PROVE  Queue!Next \/ UNCHANGED Queue!vars
<1>1. ASSUME NEW p \in Partitions, Publish(p)
      PROVE  Queue!Next
  BY <1>1 DEF Publish, Queue!Next, Queue!Publish, historyVars
<1>2. ASSUME NEW w \in Workers, Evict(w)
      PROVE  UNCHANGED Queue!vars
  BY <1>2 DEF Evict, Queue!vars
<1>3. ASSUME NEW w \in Workers, NEW p \in Partitions, Assign(w, p)
      PROVE  Queue!Next \/ UNCHANGED Queue!vars
  <2>1. CASE committed[p] < logStart[p]
    <3>1. committed[p] = NoOffset \/ logStart[p] > 0
      BY <2>1 DEF IInv, TypeOK, Offset, NoOffset
    <3>2. skipped' = skipped \cup (({p} \X (0 .. logEnd[p] - 1)) \ handled)
      BY <1>3, <2>1 DEF Assign, JumpedOver, ResetPosition
    <3>3. 0 \in 0 .. logEnd[p]
      BY DEF IInv, TypeOK, Offset
    <3>4. Queue!Skip(p)
      BY <1>3, <3>1, <3>2, <3>3 DEF Assign, Queue!Skip, NoOffset, Queue!NoOffset
    <3>5. QED
      BY <3>4 DEF Queue!Next
  <2>2. CASE ~(committed[p] < logStart[p])
    <3>1. JumpedOver(p) \subseteq skipped
      BY <2>2 DEF IInv, CommittedIsHandled, Accounted, JumpedOver, ResetPosition
    <3>2. QED
      BY <1>3, <3>1 DEF Assign, Queue!vars
  <2>3. QED
    BY <2>1, <2>2
<1>4. ASSUME NEW w \in Workers, NEW p \in Partitions, Revoke(w, p)
      PROVE  Queue!Next \/ UNCHANGED Queue!vars
  BY <1>4, CommitRefines DEF Revoke, Queue!Next, Queue!vars
<1>5. ASSUME NEW w \in Workers, NEW p \in Partitions, DiscoverLoss(w, p)
      PROVE  UNCHANGED Queue!vars
  BY <1>5 DEF DiscoverLoss, Queue!vars, brokerVars, historyVars
<1>6. ASSUME NEW w \in Workers, NEW p \in Partitions, AutoCommit(w, p)
      PROVE  Queue!Next
  BY <1>6, CommitRefines DEF AutoCommit, Queue!Next, historyVars
<1>7. ASSUME NEW p \in Partitions, Expire(p)
      PROVE  Queue!Next
  BY <1>7 DEF Expire, Queue!Next, Queue!Expire
<1>8. ASSUME NEW w \in Workers, NEW p \in Partitions, OutOfRange(w, p)
      PROVE  Queue!Next
  <2>1. logStart[p] > 0 /\ position[w][p] \in 0 .. logEnd[p]
    BY <1>8 DEF IInv, TypeOK, Offset, OutOfRange, WithinLog
  <2>2. Queue!Skip(p)
    BY <1>8, <2>1 DEF OutOfRange, Queue!Skip, brokerVars
  <2>3. QED
    BY <2>2 DEF Queue!Next
<1>9. QED
  BY <1>1, <1>2, <1>3, <1>4, <1>5, <1>6, <1>7, <1>8 DEF Coordinator

LEMMA WorkerRefines ==
  ASSUME IInv, NEW w \in Workers, Worker(w)
  PROVE  Queue!Next \/ UNCHANGED Queue!vars
<1>1. CASE \/ PollWhilePaused(w) \/ PushBatchRaises(w) \/ StoreOffsetsRefused(w)
           \/ Crash(w) \/ \E p \in Partitions : BailOut(w, p) \/ Raise(w, p)
           \/ \E p \in Partitions : CommitRefused(w, p)
  <2>1. Down(w)
    BY <1>1 DEF PollWhilePaused, PushBatchRaises, StoreOffsetsRefused, Crash, BailOut, Raise,
                CommitRefused
  <2>2. QED
    BY <2>1 DEF Down, Queue!vars
<1>2. CASE Consume(w) \/ Resume(w) \/ StoreOffsets(w) \/ Restart(w) \/ SinkDeliver(w)
  BY <1>2 DEF Consume, Resume, StoreOffsets, Restart, SinkDeliver, Queue!vars,
              brokerVars, historyVars
<1>3. CASE SinkError(w)
  BY <1>3 DEF SinkError, Queue!vars, brokerVars
<1>4. CASE PushBatch(w)
  BY <1>4, PushBatchRefines DEF Queue!Next
<1>5. ASSUME NEW p \in Partitions, Record(w, p)
      PROVE  Queue!Next \/ UNCHANGED Queue!vars
  <2>1. CASE Settle(w, p)
    <3>1. Queue!Handle
      BY <2>1, SettleRefines
         DEF Settle, Answer, Ignore, TimeOut, TimeOutInSink, Finish, brokerVars
    <3>2. QED
      BY <3>1 DEF Queue!Next
  <2>2. CASE Backoff(w, p) \/ SwallowAlarm(w, p)
    BY <2>2 DEF Backoff, SwallowAlarm, Queue!vars, brokerVars, historyVars
  <2>3. CASE BailOut(w, p) \/ Raise(w, p)
    BY <1>1, <2>3
  <2>4. QED
    BY <1>5, <2>1, <2>2, <2>3 DEF Record, Settle
<1>6. QED
  BY <1>1, <1>2, <1>3, <1>4, <1>5 DEF Worker

\* The run loops, coordinator and broker together implement the abstract queue: what a
\* reader of the topic may rely on is WorkQueue and nothing else.
THEOREM Refinement == Spec => ImplementsQueue
<1>1. Init => Queue!Init
  BY DEF Init, Queue!Init, NoOffset, Queue!NoOffset
<1>2. IInv /\ [Next]_vars => [Queue!Next]_Queue!vars
  <2>1. ASSUME IInv, Next PROVE Queue!Next \/ UNCHANGED Queue!vars
    BY <2>1, CoordinatorRefines, WorkerRefines DEF Next
  <2>2. ASSUME UNCHANGED vars PROVE UNCHANGED Queue!vars
    BY <2>2 DEF vars, brokerVars, historyVars, Queue!vars
  <2>3. QED
    BY <2>1, <2>2
<1>3. QED
  BY <1>1, <1>2, Inductive, PTL DEF Spec, ImplementsQueue, Queue!Spec

-----------------------------------------------------------------------------
(* auto.offset.reset.                                                      *)

LEMMA WorkersNeverSkip ==
  ASSUME NEW w \in Workers, Worker(w)
  PROVE  skipped' = skipped
<1>1. ASSUME NEW p \in Partitions, Record(w, p) PROVE skipped' = skipped
  BY <1>1 DEF Record, Answer, Ignore, TimeOut, TimeOutInSink, SwallowAlarm, BailOut, Raise,
              Backoff, Finish, Down, historyVars
<1>2. CASE Consume(w) \/ Resume(w) \/ PushBatch(w) \/ StoreOffsets(w) \/ Restart(w)
  BY <1>2 DEF Consume, Resume, PushBatch, StoreOffsets, Restart, historyVars
<1>3. CASE \/ PollWhilePaused(w) \/ PushBatchRaises(w) \/ StoreOffsetsRefused(w) \/ Crash(w)
           \/ SinkDeliver(w) \/ SinkError(w) \/ \E p \in Partitions : CommitRefused(w, p)
  BY <1>3 DEF PollWhilePaused, PushBatchRaises, StoreOffsetsRefused, Crash, Down, SinkDeliver,
              SinkError, CommitRefused, historyVars
<1>4. QED
  BY <1>1, <1>2, <1>3 DEF Worker

\* A new owner whose group's offset is in range starts there: what it jumps over was handled,
\* or jumped over before.
LEMMA AssignInRange ==
  ASSUME IInv, NEW w \in Workers, NEW p \in Partitions, Assign(w, p), InRange(p)
  PROVE  skipped' = skipped
<1>1. ~(committed[p] < logStart[p])
  <2>1. committed[p] \in Int /\ logStart[p] \in Int
    BY DEF IInv, TypeOK, Offset, NoOffset
  <2>2. logStart[p] <= committed[p]
    BY DEF InRange
  <2>3. QED
    BY <2>1, <2>2
<1>2. JumpedOver(p) \subseteq skipped
  BY <1>1 DEF IInv, CommittedIsHandled, Accounted, JumpedOver, ResetPosition
<1>3. QED
  BY <1>2 DEF Assign

\* The position of an owner is reset only when it is no longer in range.
LEMMA OwnerInRange ==
  ASSUME IInv, NEW w \in Workers, NEW p \in Partitions, OutOfRange(w, p), InRange(p)
  PROVE  FALSE
<1>1. committed[p] <= position[w][p] /\ logStart[p] <= committed[p]
  BY DEF OutOfRange, InRange
<1>2. committed[p] \in Int /\ position[w][p] \in Int /\ logStart[p] \in Int
  BY DEF IInv, TypeOK, Offset, NoOffset
<1>3. QED
  BY <1>1, <1>2 DEF OutOfRange

\* A group jumps over messages of a partition only where it has no offset or where retention
\* has overtaken it, for every group, topic and history.
THEOREM EstablishedGroupsNeverSkip == Spec => EstablishedNeverSkips
<1> DEFINE Keeps == \A p \in Partitions, o \in 0 .. LogLen - 1 :
             InRange(p) /\ <<p, o>> \notin skipped => <<p, o>> \notin skipped'
<1>1. ASSUME IInv, Next PROVE Keeps
  <2>1. CASE skipped' = skipped
    BY <2>1
  <2>2. ASSUME NEW w \in Workers, NEW q \in Partitions, Assign(w, q)
        PROVE  Keeps
    <3>1. skipped' \subseteq skipped \cup ({q} \X Int)
      BY <1>1, <2>2 DEF Assign, JumpedOver, IInv, TypeOK, ResetPosition, Offset
    <3>2. QED
      BY <1>1, <2>2, <3>1, AssignInRange
  <2>3. ASSUME NEW w \in Workers, NEW q \in Partitions, OutOfRange(w, q)
        PROVE  Keeps
    <3>1. skipped' \subseteq skipped \cup ({q} \X Int)
      BY <1>1, <2>3 DEF OutOfRange, IInv, TypeOK, Offset
    <3>2. QED
      BY <1>1, <2>3, <3>1, OwnerInRange
  <2>4. CASE Coordinator
    BY <2>1, <2>2, <2>3, <2>4
       DEF Coordinator, Publish, Expire, Evict, Revoke, DiscoverLoss, AutoCommit, historyVars
  <2>5. QED
    BY <1>1, <2>1, <2>4, WorkersNeverSkip DEF Next
<1>2. IInv /\ [Next]_vars => [Keeps]_vars
  BY <1>1
<1>3. QED
  BY <1>2, Inductive, PTL DEF Spec, EstablishedNeverSkips
-----------------------------------------------------------------------------
(* Once each, while nothing disturbs the group.                            *)

\* What OnceInv says of a group that nothing has disturbed yet.
Undisturbed == disturbances = 0 /\ ~everDown

HandledIsOwned == \A m \in handled : owner[m[1]] # NoOne

OnceHeldBy(w) ==
  /\ \A p \in assigned[w] : owner[p] = w
  /\ \A p \in inBatch[w] : p \in assigned[w] /\ limit[w][p] <= position[w][p]
  /\ \A m \in handled :
       /\ m[1] \in assigned[w] => m[2] < position[w][m[1]]
       /\ m[1] \in inBatch[w] => m[2] < cursor[w][m[1]]

LEMMA OnceInvParts ==
  OnceInv <=> (Undisturbed => HandledIsOwned /\ \A w \in Workers : OnceHeldBy(w))
BY DEF OnceInv, Undisturbed, HandledIsOwned, OnceHeldBy

\* The same after a step.
LEMMA OnceInvPartsNext ==
  ASSUME Undisturbed' => HandledIsOwned' /\ \A w \in Workers : OnceHeldBy(w)'
  PROVE  OnceInv'
BY DEF OnceInv, Undisturbed, HandledIsOwned, OnceHeldBy

\* A step that handles, fetches and reassigns nothing: it may end a batch.
LEMMA OnceQuietStep ==
  ASSUME OnceInv, Undisturbed' => Undisturbed,
         UNCHANGED <<handled, owner, assigned, position, cursor, limit>>,
         \A w \in Workers : inBatch'[w] \subseteq inBatch[w]
  PROVE  OnceInv'
<1> SUFFICES ASSUME Undisturbed' PROVE HandledIsOwned' /\ \A w \in Workers : OnceHeldBy(w)'
  BY OnceInvPartsNext
<1>1. HandledIsOwned /\ \A w \in Workers : OnceHeldBy(w)
  BY OnceInvParts
<1>2. QED
  BY <1>1 DEF HandledIsOwned, OnceHeldBy

\* A partition that nobody owned has no handled message, so its new owner starts afresh.
LEMMA OnceAssign ==
  ASSUME TypeOK, OnceInv, NEW w \in Workers, NEW p \in Partitions, Assign(w, p)
  PROVE  OnceInv'
<1> SUFFICES ASSUME Undisturbed' PROVE HandledIsOwned' /\ \A v \in Workers : OnceHeldBy(v)'
  BY OnceInvPartsNext
<1>1. Undisturbed
  BY DEF Assign, Undisturbed
<1>2. HandledIsOwned /\ \A v \in Workers : OnceHeldBy(v)
  BY <1>1, OnceInvParts
<1>3. UNCHANGED <<handled, inBatch, cursor, limit>> /\ owner[p] = NoOne
  BY DEF Assign, loopVars
<1>4. \A m \in handled : m[1] \in Partitions /\ m[1] # p
  BY <1>2, <1>3 DEF HandledIsOwned, TypeOK, Message
<1>5. \A q \in Partitions : owner'[q] = IF q = p THEN w ELSE owner[q]
  BY DEF Assign, TypeOK
<1>6. HandledIsOwned'
  BY <1>2, <1>3, <1>4, <1>5 DEF HandledIsOwned
<1>7. ASSUME NEW v \in Workers PROVE OnceHeldBy(v)'
  <2>1. assigned[v] \subseteq Partitions /\ inBatch[v] \subseteq Partitions
    BY DEF TypeOK
  <2>2. p \notin assigned[v]
    BY <1>2, <1>3 DEF OnceHeldBy
  <2>3. /\ assigned'[v] = IF v = w THEN assigned[v] \cup {p} ELSE assigned[v]
        /\ \A q \in Partitions : q # p => position'[v][q] = position[v][q]
    BY DEF Assign, TypeOK
  <2>4. \A q \in assigned'[v] : owner'[q] = v
    BY <1>2, <1>5, <2>1, <2>2, <2>3 DEF OnceHeldBy
  <2>5. \A q \in inBatch'[v] : q \in assigned'[v] /\ limit'[v][q] <= position'[v][q]
    BY <1>2, <1>3, <2>1, <2>2, <2>3 DEF OnceHeldBy
  <2>6. ASSUME NEW m \in handled'
        PROVE  /\ m[1] \in assigned'[v] => m[2] < position'[v][m[1]]
               /\ m[1] \in inBatch'[v] => m[2] < cursor'[v][m[1]]
    BY <1>2, <1>3, <1>4, <2>3 DEF OnceHeldBy
  <2>7. QED
    BY <2>4, <2>5, <2>6 DEF OnceHeldBy
<1>8. QED
  BY <1>6, <1>7

\* A batch starts where the worker's position was, and ends where it is then.
LEMMA OnceConsume ==
  ASSUME TypeOK, OnceInv, NEW w \in Workers, Consume(w)
  PROVE  OnceInv'
<1> SUFFICES ASSUME Undisturbed' PROVE HandledIsOwned' /\ \A v \in Workers : OnceHeldBy(v)'
  BY OnceInvPartsNext
<1>1. Undisturbed
  BY DEF Consume, Undisturbed, historyVars
<1>2. HandledIsOwned /\ \A v \in Workers : OnceHeldBy(v)
  BY <1>1, OnceInvParts
<1>3. UNCHANGED <<handled, owner, assigned>>
  BY DEF Consume, historyVars, brokerVars
<1>4. PICK upTo \in [Partitions -> Offset] :
        /\ \A p \in Partitions :
             IF p \in assigned[w] THEN position[w][p] <= upTo[p] /\ upTo[p] <= logEnd[p]
                                  ELSE upTo[p] = position[w][p]
        /\ inBatch' = [inBatch EXCEPT ![w] = {p \in Partitions : upTo[p] # position[w][p]}]
        /\ cursor' = [cursor EXCEPT ![w] = position[w]]
        /\ limit' = [limit EXCEPT ![w] = upTo]
        /\ position' = [position EXCEPT ![w] = upTo]
  BY DEF Consume
<1>5. ASSUME NEW v \in Workers, v # w PROVE OnceHeldBy(v)'
  <2>1. /\ inBatch'[v] = inBatch[v] /\ cursor'[v] = cursor[v]
        /\ limit'[v] = limit[v] /\ position'[v] = position[v]
    BY <1>4, <1>5 DEF TypeOK
  <2>2. QED
    BY <1>2, <1>3, <2>1 DEF OnceHeldBy
<1>6. OnceHeldBy(w)'
  <2>1. /\ inBatch'[w] = {p \in Partitions : upTo[p] # position[w][p]}
        /\ cursor'[w] = position[w] /\ limit'[w] = upTo /\ position'[w] = upTo
    BY <1>4 DEF TypeOK
  <2>2. \A p \in inBatch'[w] : p \in assigned[w]
    BY <1>4, <2>1
  <2>3. \A p \in Partitions : upTo[p] \in Int /\ position[w][p] \in Int /\ position[w][p] <= upTo[p]
    BY <1>4 DEF TypeOK, Offset
  <2>4. \A m \in handled : m[1] \in Partitions /\ m[2] \in Int
    BY DEF TypeOK, Message
  <2>5. ASSUME NEW m \in handled, m[1] \in assigned[w]
        PROVE  m[2] < position[w][m[1]] /\ m[2] < upTo[m[1]]
    BY <1>2, <2>3, <2>4, <2>5 DEF OnceHeldBy
  <2>6. \A p \in inBatch'[w] : limit'[w][p] <= position'[w][p]
    BY <2>1, <2>3
  <2>7. \A p \in assigned[w] : owner[p] = w
    BY <1>2 DEF OnceHeldBy
  <2>8. QED
    BY <1>3, <2>1, <2>2, <2>5, <2>6, <2>7 DEF OnceHeldBy
<1>7. HandledIsOwned'
  BY <1>2, <1>3 DEF HandledIsOwned
<1>8. QED
  BY <1>5, <1>6, <1>7

\* What is handled of a batch lies below its limit, and the cursor ends up behind it.
LEMMA OnceHandle ==
  ASSUME TypeOK, OnceInv, NEW w \in Workers, NEW done,
         Undisturbed' => Undisturbed,
         UNCHANGED <<owner, assigned, position, inBatch, limit>>,
         handled' = handled \cup done, done \subseteq Message,
         \A m \in done : /\ m[1] \in inBatch[w]
                         /\ m[2] < limit[w][m[1]] /\ m[2] < cursor'[w][m[1]],
         \A p \in inBatch[w] : cursor'[w][p] \in Int /\ cursor[w][p] <= cursor'[w][p],
         \A v \in Workers \ {w} : cursor'[v] = cursor[v]
  PROVE  OnceInv'
<1> SUFFICES ASSUME Undisturbed' PROVE HandledIsOwned' /\ \A v \in Workers : OnceHeldBy(v)'
  BY OnceInvPartsNext
<1>1. HandledIsOwned /\ \A v \in Workers : OnceHeldBy(v)
  BY OnceInvParts
<1>2. inBatch[w] \subseteq Partitions
  BY DEF TypeOK
<1>3. ASSUME NEW m \in done
      PROVE  /\ m[1] \in Partitions /\ m[2] \in Int /\ owner[m[1]] = w
             /\ m[2] < position[w][m[1]]
  <2>1. m[1] \in Partitions /\ m[2] \in Int
    BY DEF Message
  <2>2. m[1] \in assigned[w] /\ limit[w][m[1]] <= position[w][m[1]] /\ owner[m[1]] = w
    BY <1>1 DEF OnceHeldBy
  <2>3. limit[w][m[1]] \in Int /\ position[w][m[1]] \in Int
    BY <2>1 DEF TypeOK, Offset
  <2>4. QED
    BY <2>1, <2>2, <2>3
<1>4. HandledIsOwned'
  BY <1>1, <1>3 DEF HandledIsOwned
<1>5. ASSUME NEW v \in Workers, v # w PROVE OnceHeldBy(v)'
  <2>1. ASSUME NEW m \in done PROVE m[1] \notin assigned[v] /\ m[1] \notin inBatch[v]
    BY <1>1, <1>3, <1>5 DEF OnceHeldBy
  <2>2. cursor'[v] = cursor[v]
    BY <1>5
  <2>3. QED
    BY <1>1, <2>1, <2>2 DEF OnceHeldBy
<1>6. OnceHeldBy(w)'
  <2>1. ASSUME NEW m \in handled, m[1] \in inBatch[w] PROVE m[2] < cursor'[w][m[1]]
    <3>1. m[2] < cursor[w][m[1]] /\ cursor[w][m[1]] <= cursor'[w][m[1]]
      BY <1>1, <2>1 DEF OnceHeldBy
    <3>2. m[2] \in Int /\ cursor[w][m[1]] \in Int /\ cursor'[w][m[1]] \in Int
      BY <1>2, <2>1 DEF TypeOK, Message, Offset
    <3>3. QED
      BY <3>1, <3>2
  <2>2. QED
    BY <1>1, <1>3, <2>1 DEF OnceHeldBy
<1>7. QED
  BY <1>4, <1>5, <1>6

\* A step that disturbs the group leaves nothing to show.
LEMMA OnceDisturbed ==
  ASSUME ~Undisturbed'
  PROVE  OnceInv'
BY OnceInvPartsNext

\* A position that is moved to the end of the log moves forwards.
LEMMA OnceOutOfRange ==
  ASSUME TypeOK, WithinLog, OnceInv, NEW w \in Workers, NEW p \in Partitions,
         OutOfRange(w, p)
  PROVE  OnceInv'
<1> SUFFICES ASSUME Undisturbed' PROVE HandledIsOwned' /\ \A v \in Workers : OnceHeldBy(v)'
  BY OnceInvPartsNext
<1>1. HandledIsOwned /\ \A v \in Workers : OnceHeldBy(v)
  BY OnceInvParts DEF OutOfRange, Undisturbed
<1>2. UNCHANGED <<handled, owner, assigned, inBatch, cursor, limit>>
  BY DEF OutOfRange, brokerVars, loopVars
<1>3. \A v \in Workers, q \in Partitions :
        /\ position'[v][q] = IF v = w /\ q = p THEN logEnd[p] ELSE position[v][q]
        /\ position[v][q] \in Int /\ limit[v][q] \in Int /\ logEnd[q] \in Int
  BY DEF OutOfRange, TypeOK, Offset
<1>4. position[w][p] <= logEnd[p]
  BY DEF OutOfRange, WithinLog
<1>5. \A v \in Workers, q \in Partitions : position[v][q] <= position'[v][q]
  BY <1>3, <1>4
<1>6. ASSUME NEW v \in Workers PROVE OnceHeldBy(v)'
  <2>1. assigned[v] \subseteq Partitions /\ inBatch[v] \subseteq Partitions
    BY DEF TypeOK
  <2>2. \A q \in Partitions : position'[v][q] \in Int
    BY <1>3
  <2>3. \A m \in handled : m[1] \in Partitions /\ m[2] \in Int
    BY DEF TypeOK, Message
  <2>4. \A q \in inBatch[v] : q \in assigned[v] /\ limit[v][q] <= position'[v][q]
    BY <1>1, <1>3, <1>5, <2>1, <2>2 DEF OnceHeldBy
  <2>5. ASSUME NEW m \in handled, m[1] \in assigned[v] PROVE m[2] < position'[v][m[1]]
    <3>1. m[2] < position[v][m[1]] /\ position[v][m[1]] <= position'[v][m[1]]
      BY <1>1, <1>5, <2>3, <2>5 DEF OnceHeldBy
    <3>2. QED
      BY <1>3, <2>2, <2>3, <3>1
  <2>6. QED
    BY <1>1, <1>2, <2>4, <2>5 DEF OnceHeldBy
<1>7. HandledIsOwned'
  BY <1>1, <1>2 DEF HandledIsOwned
<1>8. QED
  BY <1>6, <1>7

LEMMA OnceCoordinator ==
  ASSUME TypeOK, WithinLog, OnceInv, Coordinator
  PROVE  OnceInv'
<1>1. ASSUME NEW p \in Partitions, Publish(p) PROVE OnceInv'
  BY <1>1, OnceQuietStep DEF Publish, Undisturbed, clientVars, loopVars, historyVars
<1>2. ASSUME NEW w \in Workers, Evict(w) PROVE OnceInv'
  BY <1>2, OnceDisturbed DEF Evict, Disturb, Undisturbed, TypeOK
<1>3. ASSUME NEW w \in Workers, NEW p \in Partitions, Revoke(w, p) PROVE OnceInv'
  BY <1>3, OnceDisturbed DEF Revoke, Disturb, Undisturbed, TypeOK
<1>4. ASSUME NEW w \in Workers, NEW p \in Partitions, DiscoverLoss(w, p) PROVE OnceInv'
  <2>1. ~Undisturbed
    BY <1>4, OnceInvParts DEF DiscoverLoss, OnceHeldBy
  <2>2. QED
    BY <1>4, <2>1, OnceDisturbed DEF DiscoverLoss, Undisturbed, historyVars
<1>5. ASSUME NEW w \in Workers, NEW p \in Partitions, AutoCommit(w, p) PROVE OnceInv'
  BY <1>5, OnceQuietStep DEF AutoCommit, Undisturbed, clientVars, loopVars, historyVars
<1>6. ASSUME NEW p \in Partitions, Expire(p) PROVE OnceInv'
  BY <1>6, OnceDisturbed DEF Expire, Disturb, Undisturbed, TypeOK
<1>7. QED
  BY <1>1, <1>2, <1>3, <1>4, <1>5, <1>6, OnceAssign, OnceOutOfRange DEF Coordinator

\* Settling a record handles the one at the cursor.
LEMMA OnceSettle ==
  ASSUME TypeOK, OnceInv, NEW w \in Workers, NEW p \in Partitions, Settle(w, p)
  PROVE  OnceInv'
<1> DEFINE done == {Current(w, p)}
<1>1. /\ At(w, p) /\ cursor' = [cursor EXCEPT ![w][p] = NextRecord(w, p)]
      /\ handled' = handled \cup {Current(w, p)}
      /\ UNCHANGED <<owner, assigned, position, inBatch, limit, disturbances, everDown>>
  BY DEF Settle, Answer, Ignore, TimeOut, TimeOutInSink, Finish, brokerVars, clientVars
<1>2. p \in inBatch[w] /\ cursor[w][p] < limit[w][p]
  BY <1>1 DEF At
<1>3. Current(w, p) \in Message
  BY <1>2, CurrentIsMessage
<1>4. \A v \in Workers, q \in Partitions :
        cursor'[v][q] = IF v = w /\ q = p THEN cursor[v][q] + 1 ELSE cursor[v][q]
  BY <1>1 DEF TypeOK, NextRecord
<1>5. \A v \in Workers, q \in Partitions : cursor[v][q] \in Int
  BY DEF TypeOK, Offset
<1>6. \A m \in done :
        m[1] \in inBatch[w] /\ m[2] < limit[w][m[1]] /\ m[2] < cursor'[w][m[1]]
  BY <1>2, <1>4, <1>5 DEF Current
<1>7. \A q \in inBatch[w] : cursor'[w][q] \in Int /\ cursor[w][q] <= cursor'[w][q]
  <2>1. inBatch[w] \subseteq Partitions
    BY DEF TypeOK
  <2>2. QED
    BY <1>4, <1>5, <2>1
<1>8. \A v \in Workers \ {w} : cursor'[v] = cursor[v]
  BY <1>1 DEF TypeOK
<1>9. Undisturbed' => Undisturbed
  BY <1>1 DEF Undisturbed
<1>10. done \subseteq Message /\ handled' = handled \cup done
  BY <1>1, <1>3
<1> HIDE DEF done
<1>11. QED
  BY <1>1, <1>6, <1>7, <1>8, <1>9, <1>10, OnceHandle

\* A persist worker handles what is left of its batch.
LEMMA OncePushBatch ==
  ASSUME TypeOK, BatchIsHandledBelow, OnceInv, NEW w \in Workers, PushBatch(w)
  PROVE  OnceInv'
<1> DEFINE done == {m \in Message : m[1] \in inBatch[w]
                                    /\ m[2] \in cursor[w][m[1]] .. limit[w][m[1]] - 1}
<1>1. /\ cursor' = [cursor EXCEPT ![w] = limit[w]] /\ handled' = handled \cup done
      /\ UNCHANGED <<owner, assigned, position, inBatch, limit, disturbances, everDown>>
  BY DEF PushBatch, brokerVars, clientVars
<1>2. cursor'[w] = limit[w] /\ \A v \in Workers \ {w} : cursor'[v] = cursor[v]
  BY <1>1 DEF TypeOK
<1>3. \A q \in Partitions : cursor[w][q] \in Int /\ limit[w][q] \in Int
  BY DEF TypeOK, Offset
<1>4. ASSUME NEW m \in done
      PROVE  m[1] \in inBatch[w] /\ m[2] < limit[w][m[1]] /\ m[2] < cursor'[w][m[1]]
  <2>1. m[1] \in Partitions
    BY DEF Message
  <2>2. QED
    BY <1>2, <1>3, <2>1
<1>5. \A q \in inBatch[w] : cursor'[w][q] \in Int /\ cursor[w][q] <= cursor'[w][q]
  BY <1>2, <1>3 DEF BatchIsHandledBelow, TypeOK
<1>6. done \subseteq Message
  OBVIOUS
<1>7. Undisturbed' => Undisturbed
  BY <1>1 DEF Undisturbed
<1> HIDE DEF done
<1>8. QED
  BY <1>1, <1>2, <1>4, <1>5, <1>6, <1>7, OnceHandle

LEMMA OnceWorker ==
  ASSUME TypeOK, BatchIsHandledBelow, OnceInv, NEW w \in Workers, Worker(w)
  PROVE  OnceInv'
<1>1. CASE \/ PollWhilePaused(w) \/ PushBatchRaises(w) \/ StoreOffsetsRefused(w)
           \/ Crash(w)
           \/ \E p \in Partitions : BailOut(w, p) \/ Raise(w, p) \/ CommitRefused(w, p)
  <2>1. Down(w)
    BY <1>1 DEF PollWhilePaused, PushBatchRaises, StoreOffsetsRefused, Crash, BailOut, Raise,
                CommitRefused
  <2>2. QED
    BY <2>1, OnceDisturbed DEF Down, Undisturbed
<1>2. CASE SinkError(w)
  BY <1>2, OnceDisturbed DEF SinkError, Disturb, Undisturbed, TypeOK
<1>3. CASE Resume(w) \/ Restart(w) \/ SinkDeliver(w)
  BY <1>3, OnceQuietStep DEF Resume, Restart, SinkDeliver, Undisturbed, brokerVars, clientVars,
                             loopVars, historyVars
<1>4. CASE StoreOffsets(w)
  <2>1. \A v \in Workers : inBatch'[v] \subseteq inBatch[v]
    BY <1>4 DEF StoreOffsets, TypeOK
  <2>2. QED
    BY <1>4, <2>1, OnceQuietStep DEF StoreOffsets, Undisturbed, brokerVars, historyVars
<1>5. ASSUME NEW p \in Partitions, Backoff(w, p) \/ SwallowAlarm(w, p) PROVE OnceInv'
  BY <1>5, OnceQuietStep DEF Backoff, SwallowAlarm, Undisturbed, brokerVars, clientVars,
                             historyVars
<1>6. CASE \E p \in Partitions : Settle(w, p)
  BY <1>6, OnceSettle
<1>7. CASE \E p \in Partitions : Record(w, p)
  BY <1>1, <1>5, <1>6, <1>7 DEF Record, Settle
<1>8. QED
  BY <1>1, <1>2, <1>3, <1>4, <1>7, OncePushBatch, OnceConsume DEF Worker

LEMMA OnceInductive == Spec => []OnceInv
<1>1. Init => OnceInv
  BY DEF Init, OnceInv
<1>2. IInv /\ OnceInv /\ [Next]_vars => OnceInv'
  <2> SUFFICES ASSUME IInv, OnceInv, [Next]_vars PROVE OnceInv'
    OBVIOUS
  <2>1. TypeOK /\ BatchIsHandledBelow /\ WithinLog
    BY DEF IInv
  <2>2. CASE Next
    BY <2>1, <2>2, OnceCoordinator, OnceWorker DEF Next
  <2>3. CASE UNCHANGED vars
    BY <2>3, OnceQuietStep
       DEF vars, brokerVars, clientVars, loopVars, historyVars, Undisturbed
  <2>4. QED
    BY <2>2, <2>3
<1>3. QED
  BY <1>1, <1>2, Inductive, PTL DEF Spec

\* In a group that no crash, eviction or rebalance has disturbed yet, no message is settled a
\* second time: the loop neither repeats a record nor fetches it twice.
THEOREM RecordsHandledOnce == Spec => HandledOnce
<1> DEFINE Once == \A w \in Workers, p \in Partitions :
             disturbances = 0 /\ ~everDown /\ Settle(w, p) => Current(w, p) \notin handled
<1>1. TypeOK /\ OnceInv => Once
  <2> SUFFICES ASSUME TypeOK, OnceInv, NEW w \in Workers, NEW p \in Partitions,
                      disturbances = 0, ~everDown, Settle(w, p)
               PROVE  Current(w, p) \notin handled
    OBVIOUS
  <2>1. p \in inBatch[w]
    BY DEF Settle, Answer, Ignore, TimeOut, TimeOutInSink, At
  <2>2. \A m \in handled : m[1] \in inBatch[w] => m[2] < cursor[w][m[1]]
    BY DEF OnceInv
  <2>3. ~(cursor[w][p] < cursor[w][p])
    BY DEF TypeOK, Offset
  <2>4. QED
    BY <2>1, <2>2, <2>3 DEF Current
<1>2. TypeOK /\ OnceInv /\ [Next]_vars => [Once]_vars
  BY <1>1
<1>3. QED
  BY <1>2, TypeCorrect, OnceInductive, PTL DEF Spec, HandledOnce
-----------------------------------------------------------------------------
(* The poll interval.                                                      *)

LEMMA MessageIsFinite == IsFiniteSet(Message)
<1>1. IsFiniteSet(0 .. LogLen - 1)
  BY FS_Interval
<1>2. IsFiniteSet(Partitions)
  OBVIOUS
<1> DEFINE offsets == 0 .. LogLen - 1
<1> HIDE DEF offsets
<1>3. IsFiniteSet(Partitions \X offsets)
  BY <1>1, <1>2, FS_Product DEF offsets
<1>4. QED
  BY <1>3 DEF Message, offsets

\* What is left of a batch is finitely many records.
LEMMA RemainingIsFinite ==
  ASSUME NEW w \in Workers
  PROVE  IsFiniteSet(Remaining(w)) /\ Cardinality(Remaining(w)) \in Nat
<1>1. Remaining(w) \subseteq Message
  BY DEF Remaining
<1>2. IsFiniteSet(Remaining(w))
  BY <1>1, MessageIsFinite, FS_Subset
<1>3. QED
  BY <1>2, FS_CardinalityType

\* The bound for one worker.
AttemptsFit(w) ==
  pc[w] \in {"processing", "backoff"} => attempts[w] + Cardinality(Remaining(w)) <= BatchSize

\* A step in which a worker's batch gets no longer and it has made no more attempts.
LEMMA AttemptsQuietStep ==
  ASSUME TypeOK, TypeOK', NEW w \in Workers, AttemptsFit(w),
         attempts'[w] <= attempts[w], Remaining(w)' \subseteq Remaining(w),
         pc'[w] \in {"processing", "backoff"} => pc[w] \in {"processing", "backoff"}
  PROVE  AttemptsFit(w)'
<1>1. IsFiniteSet(Remaining(w)) /\ Cardinality(Remaining(w)) \in Nat
  BY RemainingIsFinite
<1>2. IsFiniteSet(Remaining(w)') /\ Cardinality(Remaining(w)') <= Cardinality(Remaining(w))
  BY <1>1, FS_Subset
<1>3. Cardinality(Remaining(w)') \in Nat
  BY <1>2, FS_CardinalityType
<1>4. attempts[w] \in Nat /\ attempts'[w] \in Nat
  BY DEF TypeOK
<1>5. Cardinality(Remaining(w))' = Cardinality(Remaining(w)')
  OBVIOUS
<1>6. QED
  BY <1>1, <1>2, <1>3, <1>4 DEF AttemptsFit

\* A step that leaves the loop of the worker alone.
LEMMA AttemptsSameLoop ==
  ASSUME TypeOK, TypeOK', NEW w \in Workers, AttemptsFit(w),
         pc'[w] = pc[w], inBatch'[w] = inBatch[w], cursor'[w] = cursor[w],
         limit'[w] = limit[w], attempts'[w] = attempts[w]
  PROVE  AttemptsFit(w)'
<1>1. Remaining(w)' \subseteq Remaining(w)
  BY DEF Remaining
<1>2. attempts[w] \in Nat
  BY DEF TypeOK
<1>3. QED
  BY <1>1, <1>2, AttemptsQuietStep

\* A batch has no more records than consume() was asked for.
LEMMA AttemptsConsume ==
  ASSUME TypeOK, TypeOK', NEW w \in Workers, Consume(w)
  PROVE  AttemptsFit(w)'
<1>1. PICK upTo \in [Partitions -> Offset] :
        /\ BatchLength(w, upTo) <= BatchSize
        /\ inBatch' = [inBatch EXCEPT ![w] = {p \in Partitions : upTo[p] # position[w][p]}]
        /\ cursor' = [cursor EXCEPT ![w] = position[w]]
        /\ limit' = [limit EXCEPT ![w] = upTo]
  BY DEF Consume
<1> DEFINE batch == {m \in Message : position[w][m[1]] <= m[2] /\ m[2] < upTo[m[1]]}
<1>2. Remaining(w)' \subseteq batch
  BY <1>1 DEF Remaining, TypeOK
<1>3. IsFiniteSet(batch)
  BY MessageIsFinite, FS_Subset
<1>4. Cardinality(batch) <= BatchSize /\ Cardinality(batch) \in Nat
  BY <1>1, <1>3, FS_CardinalityType DEF BatchLength
<1> HIDE DEF batch
<1>5. IsFiniteSet(Remaining(w)') /\ Cardinality(Remaining(w)') <= Cardinality(batch)
  BY <1>2, <1>3, FS_Subset
<1>6. Cardinality(Remaining(w)') \in Nat
  BY <1>5, FS_CardinalityType
<1>7. attempts'[w] = 0
  BY DEF Consume, TypeOK
<1>8. Cardinality(Remaining(w))' = Cardinality(Remaining(w)')
  OBVIOUS
<1>9. QED
  BY <1>4, <1>5, <1>6, <1>7 DEF AttemptsFit

\* A settled record is one more attempt, and one record less.
LEMMA AttemptsSettle ==
  ASSUME TypeOK, TypeOK', NEW w \in Workers, NEW p \in Partitions, Settle(w, p), AttemptsFit(w)
  PROVE  AttemptsFit(w)'
<1>1. /\ At(w, p) /\ cursor' = [cursor EXCEPT ![w][p] = NextRecord(w, p)]
      /\ attempts' = [attempts EXCEPT ![w] = @ + 1]
      /\ UNCHANGED <<pc, inBatch, limit>>
  BY DEF Settle, Answer, Ignore, TimeOut, TimeOutInSink, Finish
<1>2. p \in inBatch[w] /\ cursor[w][p] < limit[w][p] /\ pc[w] = "processing"
  BY <1>1 DEF At
<1>3. Current(w, p) \in Message
  BY <1>2, CurrentIsMessage
<1>4. Current(w, p) \in Remaining(w)
  BY <1>2, <1>3 DEF Remaining, Current, TypeOK, Offset
<1>5. \A q \in Partitions :
        cursor'[w][q] = IF q = p THEN cursor[w][q] + 1 ELSE cursor[w][q]
  BY <1>1 DEF TypeOK, NextRecord
<1>6. \A q \in Partitions : cursor[w][q] \in Int
  BY DEF TypeOK, Offset
<1>7. Remaining(w)' \subseteq Remaining(w) \ {Current(w, p)}
  <2>1. ASSUME NEW m \in Remaining(w)'
        PROVE  m \in Remaining(w) /\ m # Current(w, p)
    <3>1. /\ m \in Message /\ m[1] \in Partitions /\ m[2] \in Int /\ m[1] \in inBatch[w]
          /\ cursor'[w][m[1]] <= m[2] /\ m[2] < limit[w][m[1]]
      BY <1>1 DEF Remaining, Message
    <3>2. cursor[w][m[1]] <= m[2]
      BY <1>5, <1>6, <3>1
    <3>3. m[1] = p => m[2] # cursor[w][p]
      BY <1>5, <1>6, <3>1
    <3>4. QED
      BY <3>1, <3>2, <3>3 DEF Remaining, Current
  <2>2. QED
    BY <2>1
<1>8. IsFiniteSet(Remaining(w)) /\ Cardinality(Remaining(w)) \in Nat
  BY RemainingIsFinite
<1>9. /\ IsFiniteSet(Remaining(w) \ {Current(w, p)})
      /\ Cardinality(Remaining(w) \ {Current(w, p)}) = Cardinality(Remaining(w)) - 1
  BY <1>4, <1>8, FS_RemoveElement
<1>10. /\ IsFiniteSet(Remaining(w)')
       /\ Cardinality(Remaining(w)') <= Cardinality(Remaining(w)) - 1
  BY <1>7, <1>9, FS_Subset
<1>11. Cardinality(Remaining(w)') \in Nat
  BY <1>10, FS_CardinalityType
<1>12. attempts[w] \in Nat /\ attempts'[w] = attempts[w] + 1
  BY <1>1 DEF TypeOK
<1>13. Cardinality(Remaining(w))' = Cardinality(Remaining(w)')
  OBVIOUS
<1>14. QED
  BY <1>2, <1>8, <1>10, <1>11, <1>12 DEF AttemptsFit

LEMMA AttemptsOwnStep ==
  ASSUME TypeOK, TypeOK', BatchIsHandledBelow, NEW w \in Workers, Worker(w), AttemptsFit(w)
  PROVE  AttemptsFit(w)'
<1>1. CASE \/ PollWhilePaused(w) \/ PushBatchRaises(w) \/ StoreOffsetsRefused(w)
           \/ Crash(w)
           \/ \E p \in Partitions : BailOut(w, p) \/ Raise(w, p) \/ CommitRefused(w, p)
  <2>1. Down(w)
    BY <1>1 DEF PollWhilePaused, PushBatchRaises, StoreOffsetsRefused, Crash, BailOut, Raise,
                CommitRefused
  <2>2. QED
    BY <2>1 DEF Down, AttemptsFit, TypeOK
<1>2. CASE Restart(w) \/ StoreOffsets(w)
  BY <1>2 DEF Restart, StoreOffsets, AttemptsFit, TypeOK
<1>3. CASE SinkError(w) \/ SinkDeliver(w)
  BY <1>3, AttemptsSameLoop DEF SinkError, SinkDeliver, loopVars
<1>4. CASE Resume(w) \/ \E p \in Partitions : Backoff(w, p)
  <2>1. attempts'[w] <= attempts[w]
    BY <1>4 DEF Resume, Backoff, AttemptsAfterBackoff, TypeOK
  <2>2. Remaining(w)' \subseteq Remaining(w)
    BY <1>4 DEF Resume, Backoff, Remaining
  <2>3. pc[w] \in {"processing", "backoff"}
    BY <1>4 DEF Resume, Backoff, At
  <2>4. QED
    BY <2>1, <2>2, <2>3, AttemptsQuietStep
<1>5. CASE PushBatch(w)
  <2>1. attempts'[w] <= attempts[w]
    BY <1>5 DEF PushBatch, TypeOK
  <2>2. pc[w] \in {"processing", "backoff"}
    BY <1>5 DEF PushBatch, Unfinished
  <2>3. cursor'[w] = limit[w] /\ UNCHANGED <<inBatch, limit>>
    BY <1>5 DEF PushBatch, TypeOK
  <2>4. Remaining(w)' = {}
    <3>1. ASSUME NEW m \in Remaining(w)' PROVE FALSE
      <4>1. m[1] \in Partitions /\ m[2] \in Int /\ limit[w][m[1]] \in Int
        BY DEF Remaining, Message, TypeOK, Offset
      <4>2. QED
        BY <2>3, <4>1 DEF Remaining
    <3>2. QED
      BY <3>1
  <2>5. QED
    BY <2>1, <2>2, <2>4, AttemptsQuietStep
<1>6. CASE \E p \in Partitions : Settle(w, p)
  BY <1>6, AttemptsSettle
<1>9. CASE \E p \in Partitions : SwallowAlarm(w, p)
  BY <1>9, AttemptsSameLoop DEF SwallowAlarm
<1>7. CASE \E p \in Partitions : Record(w, p)
  BY <1>1, <1>4, <1>6, <1>7, <1>9 DEF Record, Settle
<1>8. QED
  BY <1>1, <1>2, <1>3, <1>4, <1>5, <1>7, AttemptsConsume DEF Worker

\* A worker's step leaves the loop of every other worker alone.
LEMMA OthersLoop ==
  ASSUME TypeOK, NEW w \in Workers, Worker(w), NEW v \in Workers, v # w
  PROVE  /\ pc'[v] = pc[v] /\ inBatch'[v] = inBatch[v] /\ cursor'[v] = cursor[v]
         /\ limit'[v] = limit[v] /\ attempts'[v] = attempts[v]
<1>1. ASSUME Down(w)
      PROVE  /\ pc'[v] = pc[v] /\ inBatch'[v] = inBatch[v] /\ cursor'[v] = cursor[v]
             /\ limit'[v] = limit[v] /\ attempts'[v] = attempts[v]
  BY <1>1 DEF Down, TypeOK
<1>2. CASE \/ PollWhilePaused(w) \/ PushBatchRaises(w) \/ StoreOffsetsRefused(w) \/ Crash(w)
           \/ \E p \in Partitions : CommitRefused(w, p)
  BY <1>1, <1>2 DEF PollWhilePaused, PushBatchRaises, StoreOffsetsRefused, Crash, CommitRefused
<1>3. CASE Consume(w)
  BY <1>3 DEF Consume, TypeOK
<1>4. CASE Resume(w) \/ PushBatch(w) \/ StoreOffsets(w) \/ Restart(w)
  BY <1>4 DEF Resume, PushBatch, StoreOffsets, Restart, TypeOK
<1>5. CASE SinkDeliver(w) \/ SinkError(w)
  BY <1>5 DEF SinkDeliver, SinkError, loopVars
<1>6. ASSUME NEW p \in Partitions, Record(w, p)
      PROVE  /\ pc'[v] = pc[v] /\ inBatch'[v] = inBatch[v] /\ cursor'[v] = cursor[v]
             /\ limit'[v] = limit[v] /\ attempts'[v] = attempts[v]
  <2>1. CASE BailOut(w, p) \/ Raise(w, p)
    BY <1>1, <2>1 DEF BailOut, Raise
  <2>2. CASE Backoff(w, p) \/ SwallowAlarm(w, p)
    BY <2>2 DEF Backoff, SwallowAlarm, TypeOK
  <2>3. CASE Settle(w, p)
    BY <2>3 DEF Settle, Answer, Ignore, TimeOut, TimeOutInSink, Finish, TypeOK
  <2>4. QED
    BY <1>6, <2>1, <2>2, <2>3 DEF Record, Settle
<1>7. QED
  BY <1>2, <1>3, <1>4, <1>5, <1>6 DEF Worker

LEMMA AttemptsInductive == Spec => []AttemptsInv
<1>1. Init => AttemptsInv
  BY DEF Init, AttemptsInv
<1>2. IInv /\ TypeOK' /\ AttemptsInv /\ [Next]_vars => AttemptsInv'
  <2> SUFFICES ASSUME IInv, TypeOK', [Next]_vars, AttemptsInv, NEW w \in Workers
               PROVE  AttemptsFit(w)'
    BY DEF AttemptsInv, AttemptsFit
  <2>1. TypeOK /\ BatchIsHandledBelow /\ AttemptsFit(w)
    BY DEF IInv, AttemptsInv, AttemptsFit
  <2>2. CASE UNCHANGED loopVars
    BY <2>1, <2>2, AttemptsSameLoop DEF loopVars
  <2>3. CASE Coordinator
    BY <2>2, <2>3 DEF Coordinator, Publish, Expire, Evict, Assign, OutOfRange, Revoke,
                      DiscoverLoss, AutoCommit
  <2>4. ASSUME NEW v \in Workers, Worker(v) PROVE AttemptsFit(w)'
    <3>1. CASE v = w
      BY <2>1, <2>4, <3>1, AttemptsOwnStep
    <3>2. CASE v # w
      BY <2>1, <2>4, <3>2, OthersLoop, AttemptsSameLoop
    <3>3. QED
      BY <3>1, <3>2
  <2>5. QED
    BY <2>2, <2>3, <2>4 DEF Next, vars
<1>3. QED
  BY <1>1, <1>2, Inductive, TypeCorrect, PTL DEF Spec

\* Time does not run out within a batch of the size the configuration allows for, if each
\* record ends with its alarm at the latest.
LEMMA MoreTakesLonger ==
  ASSUME NEW a \in Nat, NEW b \in Nat, NEW t \in Nat, a <= b
  PROVE  a * t <= b * t
OBVIOUS

LEMMA NeverOverdue ==
  ASSUME TypeOK, AttemptsInv, ~PushBatches, BatchSize * ProcessTimeout <= MaxPollInterval,
         NEW w \in Workers, Evict(w), swallowed[w] = {}
  PROVE  FALSE
<1>1. PICK p \in inBatch[w] : cursor[w][p] < limit[w][p]
  BY DEF Evict, Unfinished
<1>2. p \in Partitions /\ pc[w] = "processing"
  BY <1>1 DEF TypeOK, Evict, Unfinished
<1>3. Current(w, p) \in Message
  BY <1>1, <1>2, CurrentIsMessage
<1>4. Current(w, p) \in Remaining(w)
  BY <1>1, <1>2, <1>3 DEF Remaining, Current, TypeOK, Offset
<1>5. IsFiniteSet(Remaining(w)) /\ Cardinality(Remaining(w)) \in Nat
  BY RemainingIsFinite
<1>6. Cardinality(Remaining(w)) # 0
  BY <1>4, <1>5, FS_EmptySet
<1>7. attempts[w] \in Nat /\ attempts[w] + Cardinality(Remaining(w)) <= BatchSize
  BY <1>2 DEF TypeOK, AttemptsInv
<1>8. attempts[w] + 1 <= BatchSize
  BY <1>5, <1>6, <1>7
<1>9. (attempts[w] + 1) * ProcessTimeout <= BatchSize * ProcessTimeout
  BY <1>7, <1>8, MoreTakesLonger
<1>10. (attempts[w] + 1) * ProcessTimeout > MaxPollInterval
  BY DEF Evict, PollOverdue, TimeSincePoll
<1>11. (attempts[w] + 1) * ProcessTimeout \in Int /\ BatchSize * ProcessTimeout \in Int
  BY <1>7
<1>12. QED
  BY <1>9, <1>10, <1>11

\* Where a record at a time is pushed, and a full batch of records that all time out still
\* takes no longer than max.poll.interval.ms, no worker whose alarms took effect since its
\* last poll loses a partition while it is processing, unless its process ends.
THEOREM PollsInTime ==
  ASSUME ~PushBatches, BatchSize * ProcessTimeout <= MaxPollInterval
  PROVE  Spec => KeepsAssignment
<1> DEFINE Keeps == \A w \in Workers, p \in Partitions :
             owner[p] = w /\ pc[w] = "processing" /\ swallowed[w] = {} =>
               owner'[p] = w \/ pc'[w] = "down"
<1>1. TypeOK /\ AttemptsInv /\ [Next]_vars => [Keeps]_vars
  <2> SUFFICES ASSUME TypeOK, AttemptsInv, Next, NEW w \in Workers, NEW p \in Partitions,
                      owner[p] = w, pc[w] = "processing", swallowed[w] = {}
               PROVE  owner'[p] = w \/ pc'[w] = "down"
    OBVIOUS
  <2>1. ASSUME NEW v \in Workers, Down(v) PROVE owner'[p] = w \/ pc'[w] = "down"
    BY <2>1 DEF Down, TypeOK
  <2>2. ASSUME NEW v \in Workers, NEW q \in Partitions, Record(v, q)
        PROVE  owner'[p] = w \/ pc'[w] = "down"
    <3>1. CASE Settle(v, q) \/ Backoff(v, q) \/ SwallowAlarm(v, q)
      BY <3>1 DEF Settle, Answer, Ignore, TimeOut, TimeOutInSink, Finish, Backoff,
                  SwallowAlarm, brokerVars
    <3>2. CASE BailOut(v, q) \/ Raise(v, q)
      BY <2>1, <3>2 DEF BailOut, Raise
    <3>3. QED
      BY <2>2, <3>1, <3>2 DEF Record, Settle
  <2>3. ASSUME NEW v \in Workers, Worker(v) PROVE owner'[p] = w \/ pc'[w] = "down"
    <3>1. CASE \/ PollWhilePaused(v) \/ PushBatchRaises(v) \/ StoreOffsetsRefused(v)
               \/ Crash(v) \/ \E q \in Partitions : CommitRefused(v, q)
      BY <2>1, <3>1 DEF PollWhilePaused, PushBatchRaises, StoreOffsetsRefused, Crash,
                        CommitRefused
    <3>2. CASE \/ Consume(v) \/ Resume(v) \/ PushBatch(v) \/ StoreOffsets(v) \/ Restart(v)
               \/ SinkDeliver(v) \/ SinkError(v)
      BY <3>2 DEF Consume, Resume, PushBatch, StoreOffsets, Restart, SinkDeliver, SinkError,
                  brokerVars
    <3>3. QED
      BY <2>2, <2>3, <3>1, <3>2 DEF Worker
  <2>4. CASE Coordinator
    <3>1. ASSUME NEW v \in Workers, NEW q \in Partitions, Assign(v, q) \/ Revoke(v, q)
          PROVE  owner'[p] = w
      BY <3>1 DEF Assign, Revoke, ServesCallbacks, TypeOK
    <3>2. ASSUME NEW v \in Workers, NEW q \in Partitions,
                 DiscoverLoss(v, q) \/ AutoCommit(v, q) \/ OutOfRange(v, q) \/ Publish(q)
                 \/ Expire(q)
          PROVE  owner'[p] = w
      BY <3>2 DEF DiscoverLoss, AutoCommit, OutOfRange, Publish, Expire, brokerVars
    <3>3. ASSUME NEW v \in Workers, Evict(v) PROVE owner'[p] = w
      <4>1. v # w
        BY <3>3, NeverOverdue
      <4>2. QED
        BY <3>3, <4>1 DEF Evict
    <3>4. QED
      BY <2>4, <3>1, <3>2, <3>3 DEF Coordinator
  <2>5. QED
    BY <2>3, <2>4 DEF Next
<1>2. QED
  BY <1>1, TypeCorrect, AttemptsInductive, PTL DEF Spec, KeepsAssignment
=============================================================================
