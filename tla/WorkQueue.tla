----------------------------- MODULE WorkQueue -----------------------------
(***************************************************************************)
(* What a Kafka topic read by one group of sandcrawler workers promises,   *)
(* with no worker, batch or rebalance in sight: messages are added,        *)
(* handled in any order and any number of times, and a watermark per       *)
(* partition says from where work resumes.  The watermark may move back    *)
(* but never covers a message that is neither handled nor skipped, and     *)
(* messages are skipped only in a partition without a watermark or of      *)
(* which the oldest messages were deleted.                                 *)
(***************************************************************************)
EXTENDS Integers

CONSTANTS Partitions, LogLen

NoOffset == -1
Message == Partitions \X (0 .. LogLen - 1)

VARIABLES logStart,   \* [partition -> number of messages deleted]
          logEnd,     \* [partition -> number of messages published]
          handled,    \* messages some worker has returned from
          skipped,    \* messages jumped over
          committed   \* [partition -> watermark, or NoOffset]

vars == <<logStart, logEnd, handled, skipped, committed>>

Init ==
  /\ logStart = [p \in Partitions |-> 0]
  /\ logEnd = [p \in Partitions |-> 0]
  /\ handled = {}
  /\ skipped = {}
  /\ committed \in [Partitions -> {NoOffset, 0}]

Settled(p, n) == \A o \in 0 .. n - 1 : <<p, o>> \in handled \cup skipped

Publish(p) ==
  /\ logEnd[p] < LogLen
  /\ logEnd' = [logEnd EXCEPT ![p] = @ + 1]
  /\ UNCHANGED <<logStart, handled, skipped, committed>>

\* Retention deletes the oldest message.
Expire(p) ==
  /\ logStart[p] < logEnd[p]
  /\ logStart' = [logStart EXCEPT ![p] = @ + 1]
  /\ UNCHANGED <<logEnd, handled, skipped, committed>>

\* A record, or a batch of them, is handled.
Handle ==
  \E done \in SUBSET Message :
    /\ \A m \in done : m[2] < logEnd[m[1]]
    /\ handled' = handled \cup done
    /\ UNCHANGED <<logStart, logEnd, skipped, committed>>

\* Work goes on at the end of a partition without a watermark, or with deleted messages.
Skip(p) ==
  /\ committed[p] = NoOffset \/ logStart[p] > 0
  /\ \E o \in 0 .. logEnd[p] :
       skipped' = skipped \cup (({p} \X (o .. logEnd[p] - 1)) \ handled)
  /\ UNCHANGED <<logStart, logEnd, handled, committed>>

Commit(p) ==
  \E n \in 0 .. logEnd[p] :
    /\ Settled(p, n)
    /\ committed' = [committed EXCEPT ![p] = n]
    /\ UNCHANGED <<logStart, logEnd, handled, skipped>>

Next == Handle \/ \E p \in Partitions : Publish(p) \/ Expire(p) \/ Skip(p) \/ Commit(p)

Spec == Init /\ [][Next]_vars
=============================================================================
