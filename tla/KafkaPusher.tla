---------------------------- MODULE KafkaPusher ----------------------------
(***************************************************************************)
(* The run loop every long-lived sandcrawler process executes: workers.py  *)
(* KafkaJsonPusher.run around SandcrawlerWorker.push_record_timeout or     *)
(* push_batch, for the processes of one consumer group, together with the  *)
(* group coordinator and the offsets the broker keeps for the group.       *)
(*                                                                         *)
(* A batch is kept as one range of offsets per partition, [cursor, limit). *)
(* The order in which the records of different partitions follow each      *)
(* other in the list consume() returned is chosen as they are processed.   *)
(***************************************************************************)
EXTENDS KafkaSink, FiniteSets

CONSTANTS
  NoOne,               \* a partition that no worker owns
  BatchSize,           \* batch_size
  ProcessTimeout,      \* process_timeout_sec, in minutes (300 s = 5)
  MaxPollInterval,     \* max.poll.interval.ms, in minutes (360000 ms = 6)
  PushBatches,         \* push_batches: the persist workers
  HasTimeoutResponse,  \* the worker overrides timeout_response()
  SwallowsAlarm,       \* process() may catch the TimeoutError of the alarm itself
  Poison,              \* messages whose process() always raises
  MaxDisturbances      \* bound: crashes, evictions, rebalances, retention, delivery errors

ASSUME PusherAssumption ==
  /\ NoOne \notin Workers
  /\ IsFiniteSet(Partitions)
  /\ BatchSize \in Nat \ {0}
  /\ ProcessTimeout \in Nat
  /\ MaxPollInterval \in Nat
  /\ PushBatches \in BOOLEAN
  /\ HasTimeoutResponse \in BOOLEAN
  /\ SwallowsAlarm \in BOOLEAN
  /\ Poison \subseteq Message
  /\ MaxDisturbances \in Nat

NoOffset == -1         \* librdkafka's OFFSET_INVALID

\* The broker: the log and the state of the consumer group.
VARIABLES logStart,    \* [partition -> offset of the oldest message still kept]
          logEnd,      \* [partition -> number of messages published]
          committed,   \* [partition -> committed offset of the group, or NoOffset]
          owner        \* [partition -> the worker the coordinator gave it to, or NoOne]

\* Each worker: librdkafka's consumer, then the local variables of run().
VARIABLES assigned,    \* partitions the client believes to be its own
          position,    \* next offset to fetch
          stored,      \* offset auto-commit will commit, or NoOffset
          paused,      \* partitions paused while backing off
          pc,          \* "polling", "processing", "backoff" or "down"
          inBatch,     \* partitions with messages in the current batch
          cursor,      \* next record of the batch, per partition
          limit,       \* end of the batch, per partition
          retrying,    \* the partition of the record being retried, as a set
          attempts,    \* records attempted since the last poll of the consumer
          swallowed    \* records since the last poll that went on after their alarm

\* History variables: no guard reads them, except the bound on disturbances.
VARIABLES handled,     \* messages the worker has returned from
          skipped,     \* messages jumped over by auto.offset.reset
          disturbances,
          everDown     \* TRUE once some worker's process has ended

brokerVars == <<logStart, logEnd, committed, owner>>
clientVars == <<assigned, position, stored, paused>>
loopVars == <<pc, inBatch, cursor, limit, retrying, attempts, swallowed>>
historyVars == <<handled, skipped, disturbances, everDown>>
vars == <<brokerVars, clientVars, loopVars, historyVars, sinkVars>>

Offset == 0 .. LogLen
PC == {"polling", "processing", "backoff", "down"}

TypeOK ==
  /\ logStart \in [Partitions -> Offset]
  /\ logEnd \in [Partitions -> Offset]
  /\ committed \in [Partitions -> Offset \cup {NoOffset}]
  /\ owner \in [Partitions -> Workers \cup {NoOne}]
  /\ assigned \in [Workers -> SUBSET Partitions]
  /\ position \in [Workers -> [Partitions -> Offset]]
  /\ stored \in [Workers -> [Partitions -> Offset \cup {NoOffset}]]
  /\ paused \in [Workers -> SUBSET Partitions]
  /\ pc \in [Workers -> PC]
  /\ inBatch \in [Workers -> SUBSET Partitions]
  /\ cursor \in [Workers -> [Partitions -> Offset]]
  /\ limit \in [Workers -> [Partitions -> Offset]]
  /\ retrying \in [Workers -> SUBSET Partitions]
  /\ attempts \in [Workers -> Nat]
  /\ swallowed \in [Workers -> SUBSET Message]
  /\ handled \in SUBSET Message
  /\ skipped \in SUBSET Message
  /\ disturbances \in Nat
  /\ everDown \in BOOLEAN
  /\ SinkTypeOK

\* A new group has no committed offset; one that has run before has.
Init ==
  /\ logStart = [p \in Partitions |-> 0]
  /\ logEnd = [p \in Partitions |-> 0]
  /\ committed \in [Partitions -> {NoOffset, 0}]
  /\ owner = [p \in Partitions |-> NoOne]
  /\ assigned = [w \in Workers |-> {}]
  /\ position = [w \in Workers |-> [p \in Partitions |-> 0]]
  /\ stored = [w \in Workers |-> [p \in Partitions |-> NoOffset]]
  /\ paused = [w \in Workers |-> {}]
  /\ pc = [w \in Workers |-> "polling"]
  /\ inBatch = [w \in Workers |-> {}]
  /\ cursor = [w \in Workers |-> [p \in Partitions |-> 0]]
  /\ limit = [w \in Workers |-> [p \in Partitions |-> 0]]
  /\ retrying = [w \in Workers |-> {}]
  /\ attempts = [w \in Workers |-> 0]
  /\ swallowed = [w \in Workers |-> {}]
  /\ handled = {}
  /\ skipped = {}
  /\ disturbances = 0
  /\ everDown = FALSE
  /\ SinkInit

-----------------------------------------------------------------------------
(* The broker and the group coordinator.                                   *)

\* Another process (an enqueuing script, a sink) adds a message to the topic.
Publish(p) ==
  /\ logEnd[p] < LogLen
  /\ logEnd' = [logEnd EXCEPT ![p] = @ + 1]
  /\ UNCHANGED <<logStart, committed, owner, clientVars, loopVars, historyVars, sinkVars>>

Disturb ==
  /\ disturbances < MaxDisturbances
  /\ disturbances' = disturbances + 1

\* retention.ms passes: the broker deletes the oldest message of p, read or not.
Expire(p) ==
  /\ logStart[p] < logEnd[p]
  /\ Disturb
  /\ logStart' = [logStart EXCEPT ![p] = @ + 1]
  /\ UNCHANGED <<logEnd, committed, owner, clientVars, loopVars, handled, skipped, everDown,
                 sinkVars>>

\* Rebalance callbacks are served inside consume() and the poll(0) of the backoff loop.
ServesCallbacks(w) == pc[w] \in {"polling", "backoff"}

ResetPositionAlwaysLatest(p) == logEnd[p]
ResetPositionPastEnd(p) == IF committed[p] = NoOffset THEN logEnd[p] + 1 ELSE committed[p]

\* Where fetching starts: the group's committed offset.  If there is none, or its message is
\* deleted already (logStart is never below 0), auto.offset.reset = latest applies.
ResetPosition(p) == IF committed[p] < logStart[p] THEN logEnd[p] ELSE committed[p]

\* What fetching from there jumps over.
JumpedOver(p) == ({p} \X (0 .. ResetPosition(p) - 1)) \ handled

\* A rebalance gives w an unowned partition; a new assignment is not paused.
Assign(w, p) ==
  /\ ServesCallbacks(w)
  /\ owner[p] = NoOne
  /\ p \notin assigned[w]
  /\ owner' = [owner EXCEPT ![p] = w]
  /\ assigned' = [assigned EXCEPT ![w] = @ \cup {p}]
  /\ position' = [position EXCEPT ![w][p] = ResetPosition(p)]
  /\ stored' = [stored EXCEPT ![w][p] = NoOffset]
  /\ paused' = [paused EXCEPT ![w] = @ \ {p}]
  /\ skipped' = skipped \cup JumpedOver(p)
  /\ UNCHANGED <<logStart, logEnd, committed, loopVars, handled, disturbances, everDown,
                 sinkVars>>

\* Retention has overtaken the place where w fetches: auto.offset.reset moves it to the end.
\* What was fetched before may still be consumed instead, and a client that was thrown out of
\* the group fetches nothing until it has noticed.
OutOfRange(w, p) ==
  /\ p \in assigned[w] \ paused[w]
  /\ owner[p] = w
  /\ position[w][p] < logStart[p]
  /\ position' = [position EXCEPT ![w][p] = logEnd[p]]
  /\ skipped' = skipped \cup (({p} \X (position[w][p] .. logEnd[p] - 1)) \ handled)
  /\ UNCHANGED <<brokerVars, assigned, stored, paused, loopVars, handled, disturbances,
                 everDown, sinkVars>>

\* w stops fetching p: what it had stored for p is forgotten.
Unassign(w, p) ==
  /\ assigned' = [assigned EXCEPT ![w] = @ \ {p}]
  /\ stored' = [stored EXCEPT ![w][p] = NoOffset]
  /\ UNCHANGED <<position, paused>>

\* A rebalance takes p from w.  The client commits what it has stored, if the broker still
\* accepts it.
Revoke(w, p) ==
  /\ ServesCallbacks(w)
  /\ p \in assigned[w]
  /\ owner[p] = w
  /\ Disturb
  /\ owner' = [owner EXCEPT ![p] = NoOne]
  /\ \/ stored[w][p] # NoOffset /\ committed' = [committed EXCEPT ![p] = stored[w][p]]
     \/ UNCHANGED committed
  /\ Unassign(w, p)
  /\ UNCHANGED <<logStart, logEnd, loopVars, handled, skipped, everDown, sinkVars>>

\* w is inside the push of some record of its batch.
Unfinished(w) ==
  /\ pc[w] = "processing"
  /\ \E p \in inBatch[w] : cursor[w][p] < limit[w][p]

\* How long w may have been away from poll() when its present record ends, each record before
\* it and itself having been ended by the alarm at the latest.
TimeSincePoll(w) == (attempts[w] + 1) * ProcessTimeout

\* push_record_timeout bounds each record, unless its alarm is swallowed; push_batch has no
\* bound at all.
PollOverdue(w) ==
  \/ PushBatches
  \/ swallowed[w] # {}
  \/ TimeSincePoll(w) > MaxPollInterval

\* max.poll.interval.ms passes inside the worker: the coordinator takes its partitions away,
\* and the client only finds out at its next poll.
Evict(w) ==
  /\ Unfinished(w)
  /\ PollOverdue(w)
  /\ \E p \in Partitions : owner[p] = w
  /\ Disturb
  /\ owner' = [p \in Partitions |-> IF owner[p] = w THEN NoOne ELSE owner[p]]
  /\ UNCHANGED <<logStart, logEnd, committed, clientVars, loopVars, handled, skipped, everDown,
                 sinkVars>>

\* The next poll of an evicted worker serves the revocation.
DiscoverLoss(w, p) ==
  /\ ServesCallbacks(w)
  /\ p \in assigned[w]
  /\ owner[p] # w
  /\ Unassign(w, p)
  /\ UNCHANGED <<brokerVars, loopVars, historyVars, sinkVars>>

\* librdkafka's timer commits the stored offset.
AutoCommit(w, p) ==
  /\ pc[w] # "down"
  /\ p \in assigned[w]
  /\ owner[p] = w
  /\ stored[w][p] \notin {NoOffset, committed[p]}
  /\ committed' = [committed EXCEPT ![p] = stored[w][p]]
  /\ UNCHANGED <<logStart, logEnd, owner, clientVars, loopVars, historyVars, sinkVars>>

-----------------------------------------------------------------------------
(* The process of a worker.                                                *)

\* The process ends without consumer.close() or producer.flush().
Down(w) ==
  /\ pc' = [pc EXCEPT ![w] = "down"]
  /\ owner' = [p \in Partitions |-> IF owner[p] = w THEN NoOne ELSE owner[p]]
  /\ assigned' = [assigned EXCEPT ![w] = {}]
  /\ stored' = [stored EXCEPT ![w] = [p \in Partitions |-> NoOffset]]
  /\ position' = [position EXCEPT ![w] = [p \in Partitions |-> 0]]
  /\ paused' = [paused EXCEPT ![w] = {}]
  /\ inBatch' = [inBatch EXCEPT ![w] = {}]
  /\ cursor' = [cursor EXCEPT ![w] = [p \in Partitions |-> 0]]
  /\ limit' = [limit EXCEPT ![w] = [p \in Partitions |-> 0]]
  /\ retrying' = [retrying EXCEPT ![w] = {}]
  /\ attempts' = [attempts EXCEPT ![w] = 0]
  /\ swallowed' = [swallowed EXCEPT ![w] = {}]
  /\ everDown' = TRUE
  /\ Lose(w)
  /\ UNCHANGED <<logStart, logEnd, committed, handled, skipped>>

\* Killed, out of memory, or an exception run() does not catch, at any point.
Crash(w) ==
  /\ pc[w] # "down"
  /\ Disturb
  /\ Down(w)

\* The service manager starts the process again.
Restart(w) ==
  /\ pc[w] = "down"
  /\ pc' = [pc EXCEPT ![w] = "polling"]
  /\ UNCHANGED <<brokerVars, clientVars, inBatch, cursor, limit, retrying, attempts,
                 swallowed, historyVars, sinkVars>>

\* The broker refuses the commit of a worker it has thrown out; the next poll tells, and
\* on_commit (fail_fast) raises.
CommitRefused(w, p) ==
  /\ ServesCallbacks(w)
  /\ p \in assigned[w]
  /\ owner[p] # w
  /\ stored[w][p] \notin {NoOffset, committed[p]}
  /\ Down(w)
  /\ UNCHANGED disturbances

\* How many messages the batch has when fetching goes on to upTo[p] in each partition.
BatchLength(w, upTo) ==
  Cardinality({m \in Message : position[w][m[1]] <= m[2] /\ m[2] < upTo[m[1]]})

\* consumer.consume(num_messages=batch_size): up to BatchSize messages, from any of the
\* partitions the client believes it owns.
Consume(w) ==
  /\ pc[w] = "polling"
  /\ \E upTo \in [Partitions -> Offset] :
       /\ \A p \in Partitions :
            IF p \in assigned[w] THEN position[w][p] <= upTo[p] /\ upTo[p] <= logEnd[p]
                                 ELSE upTo[p] = position[w][p]
       /\ upTo # position[w]
       /\ BatchLength(w, upTo) <= BatchSize
       /\ inBatch' = [inBatch EXCEPT ![w] = {p \in Partitions : upTo[p] # position[w][p]}]
       /\ cursor' = [cursor EXCEPT ![w] = position[w]]
       /\ limit' = [limit EXCEPT ![w] = upTo]
       /\ position' = [position EXCEPT ![w] = upTo]
  /\ pc' = [pc EXCEPT ![w] = "processing"]
  /\ attempts' = [attempts EXCEPT ![w] = 0]
  /\ swallowed' = [swallowed EXCEPT ![w] = {}]
  /\ UNCHANGED <<brokerVars, assigned, stored, paused, retrying, historyVars, sinkVars>>

\* The record the for loop of run() is at may be the next one of partition p.
At(w, p) ==
  /\ pc[w] = "processing"
  /\ ~PushBatches
  /\ p \in inBatch[w]
  /\ cursor[w][p] < limit[w][p]
  /\ retrying[w] \subseteq {p}

Current(w, p) == <<p, cursor[w][p]>>

NextRecordStuck(w, p) == cursor[w][p]

\* break out of "while not done", on to the next record.
NextRecord(w, p) == cursor[w][p] + 1

\* The record is done with, and results rs went to the sink.
Finish(w, p, rs) ==
  /\ cursor' = [cursor EXCEPT ![w][p] = NextRecord(w, p)]
  /\ retrying' = [retrying EXCEPT ![w] = {}]
  /\ attempts' = [attempts EXCEPT ![w] = @ + 1]
  /\ handled' = handled \cup {Current(w, p)}
  /\ Produce(w, rs)
  /\ UNCHANGED <<brokerVars, clientVars, pc, inBatch, limit, swallowed, skipped, disturbances,
                 everDown>>

\* push_record: process() returned a result, which goes to the sink.
Answer(w, p) ==
  /\ At(w, p)
  /\ Current(w, p) \notin Poison
  /\ Finish(w, p, {<<Current(w, p), "result">>})

\* push_record: the record is not wanted, or process() returned nothing.
Ignore(w, p) ==
  /\ At(w, p)
  /\ Current(w, p) \notin Poison
  /\ cursor' = [cursor EXCEPT ![w][p] = NextRecord(w, p)]
  /\ retrying' = [retrying EXCEPT ![w] = {}]
  /\ attempts' = [attempts EXCEPT ![w] = @ + 1]
  /\ handled' = handled \cup {Current(w, p)}
  /\ UNCHANGED <<brokerVars, clientVars, pc, inBatch, limit, swallowed, skipped, disturbances,
                 everDown, sinkVars>>

\* The alarm goes off where process() or a library it calls catches it (the arxiv hack, a
\* session that retries): the record goes on, and the one alarm it had is gone.
SwallowAlarm(w, p) ==
  /\ At(w, p)
  /\ SwallowsAlarm
  /\ Current(w, p) \notin swallowed[w]
  /\ swallowed' = [swallowed EXCEPT ![w] = @ \cup {Current(w, p)}]
  /\ UNCHANGED <<brokerVars, clientVars, pc, inBatch, cursor, limit, retrying, attempts,
                 historyVars, sinkVars>>

\* push_record_timeout: the alarm interrupts process(); the timeout response, if the worker
\* has one, is the only output.
TimeOut(w, p) ==
  /\ At(w, p)
  /\ HasTimeoutResponse
  /\ Current(w, p) \notin swallowed[w]
  /\ Current(w, p) \notin Poison
  /\ Finish(w, p, {<<Current(w, p), "timeout">>})

\* The alarm fires after sink.push_record() queued the result: both go out.
TimeOutInSink(w, p) ==
  /\ At(w, p)
  /\ HasTimeoutResponse
  /\ Current(w, p) \notin swallowed[w]
  /\ Current(w, p) \notin Poison
  /\ Finish(w, p, {<<Current(w, p), "result">>, <<Current(w, p), "timeout">>})

\* A delivery error of an earlier result is raised by the poll(0) of this push.
BailOut(w, p) ==
  /\ At(w, p)
  /\ failed[w] # {}
  /\ Down(w)
  /\ UNCHANGED disturbances

\* process() raises: nothing above it in the stack catches the exception.
Raise(w, p) ==
  /\ At(w, p)
  /\ Current(w, p) \in Poison
  /\ Down(w)
  /\ UNCHANGED disturbances

AttemptsKept(w) == attempts[w] + 1
\* The poll(0) calls of the backoff loop restart the poll interval.
AttemptsAfterBackoff(w) == 0

\* SandcrawlerBackoffError: pause what is assigned, and poll without consuming.
Backoff(w, p) ==
  /\ At(w, p)
  /\ pc' = [pc EXCEPT ![w] = "backoff"]
  /\ paused' = [paused EXCEPT ![w] = assigned[w]]
  /\ retrying' = [retrying EXCEPT ![w] = {p}]
  /\ attempts' = [attempts EXCEPT ![w] = AttemptsAfterBackoff(w)]
  /\ swallowed' = [swallowed EXCEPT ![w] = {}]
  /\ UNCHANGED <<brokerVars, assigned, position, stored, inBatch, cursor, limit, historyVars,
                 sinkVars>>

\* A poll(0) of the backoff loop returns a message: "assert not empty_batch" fails.
PollWhilePaused(w) ==
  /\ pc[w] = "backoff"
  /\ \E p \in assigned[w] \ paused[w] : position[w][p] < logEnd[p]
  /\ Down(w)
  /\ UNCHANGED disturbances

\* The pause is over: resume, and try the same record again.
Resume(w) ==
  /\ pc[w] = "backoff"
  /\ pc' = [pc EXCEPT ![w] = "processing"]
  /\ paused' = [paused EXCEPT ![w] = {}]
  /\ UNCHANGED <<brokerVars, assigned, position, stored, inBatch, cursor, limit, retrying,
                 attempts, swallowed, historyVars, sinkVars>>

\* push_batch of a persist worker: one transaction for the batch, no sink.
PushBatch(w) ==
  /\ Unfinished(w)
  /\ PushBatches
  /\ \A p \in inBatch[w] : \A o \in cursor[w][p] .. limit[w][p] - 1 : <<p, o>> \notin Poison
  /\ handled' = handled \cup
       {m \in Message : m[1] \in inBatch[w] /\ m[2] \in cursor[w][m[1]] .. limit[w][m[1]] - 1}
  /\ cursor' = [cursor EXCEPT ![w] = limit[w]]
  /\ UNCHANGED <<brokerVars, clientVars, pc, inBatch, limit, retrying, attempts, swallowed,
                 skipped, disturbances, everDown, sinkVars>>

\* push_batch() raises, and the transaction is rolled back.
PushBatchRaises(w) ==
  /\ pc[w] = "processing"
  /\ PushBatches
  /\ \E p \in inBatch[w] : \E o \in cursor[w][p] .. limit[w][p] - 1 : <<p, o>> \in Poison
  /\ Down(w)
  /\ UNCHANGED disturbances

BatchDoneAlways(w) == pc[w] = "processing"
\* Every record of the batch has been pushed.
BatchDone(w) ==
  /\ pc[w] = "processing"
  /\ \A p \in inBatch[w] : cursor[w][p] = limit[w][p]

\* store_offsets() of each message of the batch: the last one of a partition counts.
StoreOffsets(w) ==
  /\ BatchDone(w)
  /\ inBatch[w] \subseteq assigned[w]
  /\ stored' = [stored EXCEPT ![w] =
                  [p \in Partitions |-> IF p \in inBatch[w] THEN limit[w][p] ELSE @[p]]]
  /\ pc' = [pc EXCEPT ![w] = "polling"]
  /\ inBatch' = [inBatch EXCEPT ![w] = {}]
  /\ UNCHANGED <<brokerVars, assigned, position, paused, cursor, limit, retrying, attempts,
                 swallowed, historyVars, sinkVars>>

\* store_offsets() of a partition that was revoked while backing off raises.
StoreOffsetsRefused(w) ==
  /\ BatchDone(w)
  /\ ~(inBatch[w] \subseteq assigned[w])
  /\ Down(w)
  /\ UNCHANGED disturbances

-----------------------------------------------------------------------------
Coordinator ==
  \/ \E p \in Partitions : Publish(p) \/ Expire(p)
  \/ \E w \in Workers : Evict(w)
  \/ \E w \in Workers, p \in Partitions :
       \/ Assign(w, p) \/ OutOfRange(w, p) \/ Revoke(w, p) \/ DiscoverLoss(w, p)
       \/ AutoCommit(w, p)

SinkDeliver(w) ==
  /\ Deliver(w)
  /\ UNCHANGED <<brokerVars, clientVars, loopVars, historyVars>>

SinkError(w) ==
  /\ DeliveryError(w)
  /\ Disturb
  /\ UNCHANGED <<brokerVars, clientVars, loopVars, handled, skipped, everDown>>

Record(w, p) ==
  \/ Answer(w, p) \/ Ignore(w, p) \/ TimeOut(w, p) \/ TimeOutInSink(w, p)
  \/ SwallowAlarm(w, p) \/ BailOut(w, p) \/ Raise(w, p) \/ Backoff(w, p)

Worker(w) ==
  \/ Consume(w) \/ PollWhilePaused(w) \/ Resume(w) \/ PushBatch(w) \/ PushBatchRaises(w)
  \/ StoreOffsets(w) \/ StoreOffsetsRefused(w)
  \/ Crash(w) \/ Restart(w)
  \/ SinkDeliver(w) \/ SinkError(w)
  \/ \E p \in Partitions : Record(w, p) \/ CommitRefused(w, p)

Next == Coordinator \/ \E w \in Workers : Worker(w)

Spec == Init /\ [][Next]_vars

\* What a worker does for a record that is not a crash, a failure or a backoff.
Settle(w, p) == Answer(w, p) \/ Ignore(w, p) \/ TimeOut(w, p) \/ TimeOutInSink(w, p)

(***************************************************************************)
(* The run loop never stops of its own accord, so its steps are weakly     *)
(* fair.  Rebalances need a member that polls, which is so only now and    *)
(* then: strongly fair.  A record that is tried again and again is finally *)
(* settled (strong fairness of Settle): the service that asks for backoff  *)
(* has room again at some time.  The service manager restarts a process    *)
(* that ended.                                                             *)
(***************************************************************************)
Fairness ==
  /\ \A w \in Workers :
       /\ WF_vars(Consume(w)) /\ WF_vars(Resume(w)) /\ WF_vars(PushBatch(w))
       /\ WF_vars(StoreOffsets(w)) /\ WF_vars(StoreOffsetsRefused(w)) /\ WF_vars(Restart(w))
       /\ \A p \in Partitions :
            /\ WF_vars(AutoCommit(w, p)) /\ SF_vars(DiscoverLoss(w, p))
            /\ SF_vars(Settle(w, p)) /\ WF_vars(BailOut(w, p))
  /\ \A p \in Partitions : SF_vars(\E w \in Workers : Assign(w, p))

FairSpec == Spec /\ Fairness

-----------------------------------------------------------------------------
(* Properties.                                                             *)

\* Every message of p below offset n has been handled, or was jumped over by a reset.
Accounted(p, n) == \A o \in 0 .. n - 1 : <<p, o>> \in handled \cup skipped

\* At-least-once processing: the group's committed offset never passes a message that no
\* worker has handled, whatever crashes, evictions and rebalances happened
\* (store_offsets after the push, auto.offset.store off).
CommittedIsHandled ==
  \A p \in Partitions : Accounted(p, committed[p])

\* A message a worker has fetched from a partition it holds, or believes to hold, is handled
\* or still in the batch it is working on: no record falls between two batches or is passed
\* over by a retry after backoff.
FetchedIsHeld ==
  \A w \in Workers : \A p \in assigned[w] :
    \A o \in 0 .. position[w][p] - 1 :
      \/ <<p, o>> \in handled \cup skipped
      \/ p \in inBatch[w] /\ o \in cursor[w][p] .. limit[w][p] - 1

\* The inductive strengthening of CommittedIsHandled: what will be committed (stored), what
\* will be stored (the batch) and what will be fetched next (position) are all accounted
\* for, and nothing points past the end of the log.
StoredIsHandled ==
  \A w \in Workers, p \in Partitions : Accounted(p, stored[w][p])

BatchIsHandledBelow ==
  \A w \in Workers :
    /\ pc[w] \in {"polling", "down"} => inBatch[w] = {}
    /\ \A p \in inBatch[w] : cursor[w][p] <= limit[w][p] /\ Accounted(p, cursor[w][p])

WithinLog ==
  /\ \A p \in Partitions : committed[p] <= logEnd[p]
  /\ \A w \in Workers, p \in Partitions : stored[w][p] <= logEnd[p]
  /\ \A w \in Workers : \A p \in assigned[w] : position[w][p] <= logEnd[p]
  /\ \A w \in Workers : \A p \in inBatch[w] : limit[w][p] <= logEnd[p]

IInv ==
  /\ TypeOK
  /\ CommittedIsHandled /\ StoredIsHandled /\ BatchIsHandledBelow /\ FetchedIsHeld
  /\ WithinLog

\* The broker still has the message the group would go on with, and so has the owner's
\* position.  (A worker that is given a partition again while it backs off may fetch from
\* behind the offset it commits at the end of its batch.)
InRange(p) ==
  /\ logStart[p] <= committed[p]
  /\ \A w \in Workers : owner[p] = w /\ p \in assigned[w] => committed[p] <= position[w][p]

\* A group with a committed offset jumps over messages only after retention has overtaken it:
\* auto.offset.reset = latest, which skips to the end of the log, is for new groups and for
\* those that have fallen behind by all the broker keeps.
EstablishedNeverSkips ==
  [][\A p \in Partitions, o \in 0 .. LogLen - 1 :
       InRange(p) /\ <<p, o>> \notin skipped => <<p, o>> \notin skipped']_vars

\* With no crash, eviction or rebalance each message is handled once: the loop neither
\* repeats a record nor fetches it twice.
HandledOnce ==
  [][\A w \in Workers, p \in Partitions :
       disturbances = 0 /\ ~everDown /\ Settle(w, p) => Current(w, p) \notin handled]_vars

\* Its inductive strengthening: as long as nothing has disturbed the group, who has a
\* partition owns it, only what was assigned once is handled, and what is handled lies
\* behind the position and behind the batch.
OnceInv ==
  disturbances = 0 /\ ~everDown =>
    /\ \A m \in handled : owner[m[1]] # NoOne
    /\ \A w \in Workers :
         /\ \A p \in assigned[w] : owner[p] = w
         /\ \A p \in inBatch[w] : p \in assigned[w] /\ limit[w][p] <= position[w][p]
         /\ \A m \in handled :
              /\ m[1] \in assigned[w] => m[2] < position[w][m[1]]
              /\ m[1] \in inBatch[w] => m[2] < cursor[w][m[1]]

\* A worker that pushes record by record is not thrown out of the group for being away from
\* poll() ("use timeouts; don't want kafka itself to timeout"), unless an alarm was swallowed
\* since the last poll: retries and the records before this one do not add up past
\* max.poll.interval.ms.
KeepsAssignment ==
  [][\A w \in Workers, p \in Partitions :
       owner[p] = w /\ pc[w] = "processing" /\ swallowed[w] = {} =>
         owner'[p] = w \/ pc'[w] = "down"]_vars

\* Its inductive strengthening: the records tried since the last poll and those still to come
\* are no more than a batch.
Remaining(w) ==
  {m \in Message : /\ m[1] \in inBatch[w]
                   /\ cursor[w][m[1]] <= m[2] /\ m[2] < limit[w][m[1]]}
AttemptsInv ==
  \A w \in Workers : pc[w] \in {"processing", "backoff"} =>
    attempts[w] + Cardinality(Remaining(w)) <= BatchSize

\* Every message published is in the end handled, or jumped over.
EveryMessageSettled ==
  \A p \in Partitions, o \in 0 .. LogLen - 1 :
    (o < logEnd[p]) ~> (<<p, o>> \in handled \cup skipped)

Queue == INSTANCE WorkQueue
ImplementsQueue == Queue!Spec
=============================================================================
