----------------------------- MODULE KafkaSink -----------------------------
(***************************************************************************)
(* The producing end of a worker: workers.py KafkaSink and its variant     *)
(* KafkaCompressSink.  produce() only queues a message inside the client;  *)
(* the broker confirms it, or reports a delivery error, at some later      *)
(* time.  An error is noticed by the producer.poll(0) of the NEXT          *)
(* push_record, whose callback _fail_fast raises.  flush() is only reached *)
(* through finish(), which KafkaJsonPusher.run never gets to call, so what *)
(* is still queued when the process dies is lost.                          *)
(***************************************************************************)
EXTENDS Integers

CONSTANTS Workers,     \* the processes of one consumer group
          Partitions,  \* the partitions of the topic they consume
          LogLen       \* bound: messages published to one partition

ASSUME LogLenAssumption == LogLen \in Nat

VARIABLES inflight,    \* [worker -> results queued in its producer]
          failed,      \* [worker -> results whose delivery error is not yet noticed]
          delivered    \* results in the output topic

sinkVars == <<inflight, failed, delivered>>

\* A message of the consumed topic is a partition and an offset in it.
Message == Partitions \X (0 .. LogLen - 1)

\* What a worker pushes for a message: its process() result, or its timeout_response().
Result == Message \X {"result", "timeout"}

SinkTypeOK ==
  /\ inflight \in [Workers -> SUBSET Result]
  /\ failed \in [Workers -> SUBSET Result]
  /\ delivered \in SUBSET Result

SinkInit ==
  /\ inflight = [w \in Workers |-> {}]
  /\ failed = [w \in Workers |-> {}]
  /\ delivered = {}

\* The producer's queue once produce() has been called for each result of rs.
QueuedAfter(w, rs) == inflight[w] \cup rs

\* push_record: produce(), then producer.poll(0) with no error to report.
Produce(w, rs) ==
  /\ failed[w] = {}
  /\ inflight' = [inflight EXCEPT ![w] = QueuedAfter(w, rs)]
  /\ UNCHANGED <<failed, delivered>>

\* The broker confirms a message of w (request.required.acks -1).
Deliver(w) ==
  \E r \in inflight[w] :
    /\ inflight' = [inflight EXCEPT ![w] = @ \ {r}]
    /\ delivered' = delivered \cup {r}
    /\ UNCHANGED failed

\* A message of w is given up after message.timeout.ms, or refused.
DeliveryError(w) ==
  \E r \in inflight[w] :
    /\ inflight' = [inflight EXCEPT ![w] = @ \ {r}]
    /\ failed' = [failed EXCEPT ![w] = @ \cup {r}]
    /\ UNCHANGED delivered

\* The process of w ends: its queue is gone, and so is every unread error report.
Lose(w) ==
  /\ inflight' = [inflight EXCEPT ![w] = {}]
  /\ failed' = [failed EXCEPT ![w] = {}]
  /\ UNCHANGED delivered
=============================================================================
