---------------------------- MODULE PersistBatch ----------------------------
(***************************************************************************)
(* push_batch of PersistGrobidWorker and PersistPdfTextWorker              *)
(* (persist.py): the blobs of a batch go to S3 one by one, then its rows   *)
(* and their file_meta rows to Postgres in one transaction (db.py), then   *)
(* KafkaJsonPusher stores the offsets.  Both kinds of worker write the     *)
(* file_meta table, so that their transactions wait for each other.        *)
(*                                                                         *)
(* Records of one PDF have its sha1 as their key and share a partition:    *)
(* each topic is one partition here, and its group has committed offsets.  *)
(* Record i of a topic has offset i - 1.                                   *)
(***************************************************************************)
EXTENDS Integers, Sequences

CONSTANTS
  GrobidWorkers, PdfTextWorkers,   \* the processes of the two groups
  NoOne,
  Keys,                            \* sha1hex of PDFs
  GrobidOutcomes, PdfTextOutcomes, \* what is published to the two topics
  LogLen,                          \* bound: records in a topic
  BatchSize,
  MaxDisturbances                  \* bound: crashes, evictions, revocations

Workers == GrobidWorkers \cup PdfTextWorkers
TopicOf(w) == IF w \in GrobidWorkers THEN "grobid" ELSE "pdftext"
Topics == {TopicOf(w) : w \in Workers}
WorkersOf(t) == {w \in Workers : TopicOf(w) = t}

\* What a record says of its PDF.  "success" is one with a document; the text of a PDF may be
\* empty though its status is success.
Outcome == {"success", "no-text", "failure", "no-status"}
Record == [key : Keys, outcome : Outcome]

ASSUME PersistAssumption ==
  /\ GrobidWorkers \cap PdfTextWorkers = {}
  /\ NoOne \notin Workers
  \* Only GROBID results can lack a status_code: push_batch of pdftext has no such check.
  /\ GrobidOutcomes \subseteq Outcome
  /\ PdfTextOutcomes \subseteq Outcome \ {"no-status"}
  /\ LogLen \in Nat
  /\ BatchSize \in Nat \ {0}
  /\ MaxDisturbances \in Nat

VARIABLES
  log,         \* [topic -> its records]
  committed,   \* [topic -> committed offset of the group]
  owner,       \* [topic -> the worker the coordinator gave it to]
  blobs,       \* [topic -> [key -> the record whose document S3 has, or 0]]
  rows         \* [topic -> [key -> the record whose row Postgres has, or 0]]

\* Each worker: its consumer, then where push_batch is.
VARIABLES
  holds,       \* TRUE when the client believes the topic is its own
  position,    \* next offset to fetch
  stored,      \* offset auto-commit will commit
  pc,          \* "polling", "blobs", "rows", "file_meta", "committed" or "down"
  first, last, \* the batch: records first .. last
  next,        \* the record of the batch the present pass is at
  queued       \* workers Postgres has queued for a locked row

\* History variables.
VARIABLES
  persisted,   \* messages whose transaction has committed
  disturbances,
  evicted      \* TRUE once a worker lost its topic while it worked on a batch

storeVars == <<blobs, rows, persisted>>
clientVars == <<holds, position, stored>>
batchVars == <<first, last, next>>
vars == <<log, committed, owner, storeVars, clientVars, pc, batchVars, queued, disturbances,
          evicted>>

PC == {"polling", "blobs", "rows", "file_meta", "committed", "down"}
Index == 0 .. LogLen

TypeOK ==
  /\ log \in [Topics -> Seq(Record)] /\ \A t \in Topics : Len(log[t]) <= LogLen
  /\ committed \in [Topics -> Index]
  /\ owner \in [Topics -> Workers \cup {NoOne}]
  /\ blobs \in [Topics -> [Keys -> Index]]
  /\ rows \in [Topics -> [Keys -> Index]]
  /\ holds \in [Workers -> BOOLEAN]
  /\ position \in [Workers -> Index]
  /\ stored \in [Workers -> Index]
  /\ pc \in [Workers -> PC]
  /\ first \in [Workers -> 1 .. LogLen + 1]
  /\ last \in [Workers -> Index]
  /\ next \in [Workers -> 1 .. LogLen + 1]
  /\ queued \in SUBSET Workers
  /\ persisted \in SUBSET (Topics \X (0 .. LogLen - 1))
  /\ disturbances \in Nat
  /\ evicted \in BOOLEAN

Init ==
  /\ log = [t \in Topics |-> <<>>]
  /\ committed = [t \in Topics |-> 0]
  /\ owner = [t \in Topics |-> NoOne]
  /\ blobs = [t \in Topics |-> [k \in Keys |-> 0]]
  /\ rows = [t \in Topics |-> [k \in Keys |-> 0]]
  /\ holds = [w \in Workers |-> FALSE]
  /\ position = [w \in Workers |-> 0]
  /\ stored = [w \in Workers |-> 0]
  /\ pc = [w \in Workers |-> "polling"]
  /\ first = [w \in Workers |-> 1]
  /\ last = [w \in Workers |-> 0]
  /\ next = [w \in Workers |-> 1]
  /\ queued = {}
  /\ persisted = {}
  /\ disturbances = 0
  /\ evicted = FALSE

-----------------------------------------------------------------------------
(* Kafka: what KafkaPusher says of a worker with push_batches.             *)

Outcomes(t) == IF t = "grobid" THEN GrobidOutcomes ELSE PdfTextOutcomes

Publish(t) ==
  /\ Len(log[t]) < LogLen
  /\ \E k \in Keys, o \in Outcomes(t) :
       log' = [log EXCEPT ![t] = Append(@, [key |-> k, outcome |-> o])]
  /\ UNCHANGED <<committed, owner, storeVars, clientVars, pc, batchVars, queued,
                 disturbances, evicted>>

Disturb ==
  /\ disturbances < MaxDisturbances
  /\ disturbances' = disturbances + 1

Assign(w) ==
  LET t == TopicOf(w) IN
  /\ pc[w] = "polling"
  /\ ~holds[w]
  /\ owner[t] = NoOne
  /\ owner' = [owner EXCEPT ![t] = w]
  /\ holds' = [holds EXCEPT ![w] = TRUE]
  /\ position' = [position EXCEPT ![w] = committed[t]]
  /\ stored' = [stored EXCEPT ![w] = committed[t]]
  /\ UNCHANGED <<log, committed, storeVars, pc, batchVars, queued, disturbances, evicted>>

\* A rebalance while w polls; the client may still commit what it has stored.
Revoke(w) ==
  LET t == TopicOf(w) IN
  /\ pc[w] = "polling"
  /\ owner[t] = w
  /\ Disturb
  /\ owner' = [owner EXCEPT ![t] = NoOne]
  /\ holds' = [holds EXCEPT ![w] = FALSE]
  /\ committed' \in {committed, [committed EXCEPT ![t] = stored[w]]}
  /\ UNCHANGED <<log, storeVars, position, stored, pc, batchVars, queued, evicted>>

InBatch(w) == pc[w] \in {"blobs", "rows", "file_meta", "committed"}

\* Nothing bounds the time push_batch takes: max.poll.interval.ms may pass inside it.
Evict(w) ==
  /\ InBatch(w)
  /\ owner[TopicOf(w)] = w
  /\ Disturb
  /\ owner' = [owner EXCEPT ![TopicOf(w)] = NoOne]
  /\ evicted' = TRUE
  /\ UNCHANGED <<log, committed, storeVars, clientVars, pc, batchVars, queued>>

DiscoverLoss(w) ==
  /\ pc[w] = "polling"
  /\ holds[w] /\ owner[TopicOf(w)] # w
  /\ holds' = [holds EXCEPT ![w] = FALSE]
  /\ UNCHANGED <<log, committed, owner, storeVars, position, stored, pc, batchVars,
                 queued, disturbances, evicted>>

AutoCommit(w) ==
  LET t == TopicOf(w) IN
  /\ pc[w] # "down"
  /\ holds[w] /\ owner[t] = w
  /\ stored[w] # committed[t]
  /\ committed' = [committed EXCEPT ![t] = stored[w]]
  /\ UNCHANGED <<log, owner, storeVars, clientVars, pc, batchVars, queued, disturbances,
                 evicted>>

Consume(w) ==
  /\ pc[w] = "polling"
  /\ holds[w]
  /\ \E n \in 1 .. BatchSize :
       /\ position[w] + n <= Len(log[TopicOf(w)])
       /\ last' = [last EXCEPT ![w] = position[w] + n]
       /\ position' = [position EXCEPT ![w] = position[w] + n]
  /\ first' = [first EXCEPT ![w] = position[w] + 1]
  /\ next' = [next EXCEPT ![w] = position[w] + 1]
  /\ pc' = [pc EXCEPT ![w] = "blobs"]
  /\ UNCHANGED <<log, committed, owner, storeVars, holds, stored, queued, disturbances,
                 evicted>>

\* run() forgets the batch.
NoBatch(w) ==
  /\ first' = [first EXCEPT ![w] = 1]
  /\ last' = [last EXCEPT ![w] = 0]
  /\ next' = [next EXCEPT ![w] = 1]

Down(w) ==
  /\ pc' = [pc EXCEPT ![w] = "down"]
  /\ owner' = [t \in Topics |-> IF owner[t] = w THEN NoOne ELSE owner[t]]
  /\ holds' = [holds EXCEPT ![w] = FALSE]
  /\ position' = [position EXCEPT ![w] = 0]
  /\ stored' = [stored EXCEPT ![w] = 0]
  /\ NoBatch(w)
  /\ queued' = queued \ {w}
  /\ UNCHANGED <<log, committed, storeVars, evicted>>

\* Killed, or an error of S3 or Postgres: an open transaction is rolled back.
Crash(w) ==
  /\ pc[w] # "down"
  /\ Disturb
  /\ Down(w)

Restart(w) ==
  /\ pc[w] = "down"
  /\ pc' = [pc EXCEPT ![w] = "polling"]
  /\ UNCHANGED <<log, committed, owner, storeVars, clientVars, batchVars, queued,
                 disturbances, evicted>>

-----------------------------------------------------------------------------
(* push_batch.                                                             *)

Rec(w, i) == log[TopicOf(w)][i]

\* GROBID's TEI-XML or pdftotext's text is there to be stored.
HasDocument(w, i) == Rec(w, i).outcome = "success"

\* "filter out bad missing status_code timeout rows"
Inserted(w, i) == Rec(w, i).outcome # "no-status"

\* Every GROBID result has file_meta; from_pdftext_dict drops it from a failure.
HasFileMeta(w, i) ==
  Inserted(w, i) /\ (w \in GrobidWorkers \/ Rec(w, i).outcome \in {"success", "no-text"})

NextRecordStuck(w) == next[w]
NextRecord(w) == next[w] + 1

PassOverEarly(w) == next[w] >= last[w]
\* The for loop over the batch is through.
PassOver(w) == next[w] > last[w]

\* s3.put_blob, for a record with a document; it replaces an older blob of the key.
PutBlob(w) ==
  LET t == TopicOf(w) IN
  /\ pc[w] = "blobs"
  /\ ~PassOver(w)
  /\ blobs' = IF HasDocument(w, next[w])
              THEN [blobs EXCEPT ![t][Rec(w, next[w]).key] = next[w]] ELSE blobs
  /\ next' = [next EXCEPT ![w] = NextRecord(w)]
  /\ UNCHANGED <<log, committed, owner, rows, persisted, clientVars, pc, first, last,
                 queued, disturbances, evicted>>

\* The pass over the batch ends, and the next one begins.
NextPass(w) ==
  /\ pc[w] \in {"blobs", "rows"}
  /\ PassOver(w)
  /\ pc' = [pc EXCEPT ![w] = IF pc[w] = "blobs" THEN "rows" ELSE "file_meta"]
  /\ next' = [next EXCEPT ![w] = first[w]]
  /\ UNCHANGED <<log, committed, owner, storeVars, clientVars, first, last, queued,
                 disturbances,
                 evicted>>

\* The table rows the transaction of w has written, and so has locked until it ends.
Locks(w) ==
  IF pc[w] \notin {"rows", "file_meta"} THEN {} ELSE
  {<<TopicOf(w), Rec(w, i).key>> : i \in {j \in first[w] .. last[w] :
      Inserted(w, j) /\ (pc[w] = "rows" => j < next[w])}}
  \cup
  {<<"file_meta", Rec(w, i).key>> : i \in {j \in first[w] .. last[w] :
      HasFileMeta(w, j) /\ pc[w] = "file_meta" /\ j < next[w]}}

\* The row w writes next, as a set: none if the record has none.
Wants(w) ==
  IF PassOver(w) THEN {}
  ELSE IF pc[w] = "rows" /\ Inserted(w, next[w])
       THEN {<<TopicOf(w), Rec(w, next[w]).key>>}
  ELSE IF pc[w] = "file_meta" /\ HasFileMeta(w, next[w])
       THEN {<<"file_meta", Rec(w, next[w]).key>>} ELSE {}

\* The row w wants is locked by v.
WaitsFor(w, v) == v # w /\ Wants(w) \cap Locks(v) # {}

\* Those who wait for a row are queued, and go before those who come later.
Enqueue(w) ==
  /\ w \notin queued
  /\ \E v \in Workers : WaitsFor(w, v)
  /\ queued' = queued \cup {w}
  /\ UNCHANGED <<log, committed, owner, storeVars, clientVars, pc, batchVars, disturbances,
                 evicted>>

HasTurn(w) ==
  \/ w \in queued \/ Wants(w) \subseteq Locks(w)
  \/ \A v \in queued : Wants(w) \cap Wants(v) = {}

\* insert_grobid or insert_pdf_meta, then insert_file_meta, row by row in batch order.
WriteRow(w) ==
  /\ pc[w] \in {"rows", "file_meta"}
  /\ ~PassOver(w)
  /\ \A v \in Workers : ~WaitsFor(w, v)
  /\ HasTurn(w)
  /\ next' = [next EXCEPT ![w] = NextRecord(w)]
  /\ queued' = queued \ {w}
  /\ UNCHANGED <<log, committed, owner, storeVars, clientVars, pc, first, last, disturbances,
                 evicted>>

\* Postgres finds that w waits for itself, through others, and ends its transaction: nobody
\* catches psycopg2's DeadlockDetected.
DeadlockDetected(w) ==
  /\ \E ring \in SUBSET queued :
       /\ w \in ring
       /\ \A v \in ring : /\ \E u \in ring : WaitsFor(v, u)
                          /\ \E u \in ring : WaitsFor(u, v)
  /\ Down(w)
  /\ UNCHANGED disturbances

\* The records of the batch that have a row with key k.
RecordsOf(w, k) == {i \in first[w] .. last[w] : Rec(w, i).key = k /\ Inserted(w, i)}

RowForFirst(w, k) == {i \in RecordsOf(w, k) : \A j \in RecordsOf(w, k) : i <= j}
\* "filter out duplicate rows by key": row_dict keeps the last one, if there is any.
RowFor(w, k) == {i \in RecordsOf(w, k) : \A j \in RecordsOf(w, k) : j <= i}

\* db.commit(): the rows of the batch replace those of their keys.
Commit(w) ==
  LET t == TopicOf(w) IN
  /\ pc[w] = "file_meta"
  /\ PassOver(w)
  /\ rows' = [rows EXCEPT ![t] =
                [k \in Keys |-> IF RowFor(w, k) = {} THEN @[k]
                                ELSE CHOOSE i \in RowFor(w, k) : TRUE]]
  /\ persisted' = persisted \cup ({t} \X (first[w] - 1 .. last[w] - 1))
  /\ pc' = [pc EXCEPT ![w] = "committed"]
  /\ UNCHANGED <<log, committed, owner, blobs, clientVars, batchVars, queued, disturbances,
                 evicted>>

StoredOffsetLate(w) == position[w] + 1
StoredOffset(w) == last[w]

\* push_batch has returned: store_offsets() of each message of the batch.
StoreOffsets(w) ==
  /\ pc[w] = "committed"
  /\ stored' = [stored EXCEPT ![w] = StoredOffset(w)]
  /\ pc' = [pc EXCEPT ![w] = "polling"]
  /\ NoBatch(w)
  /\ UNCHANGED <<log, committed, owner, storeVars, holds, position, queued, disturbances,
                 evicted>>

-----------------------------------------------------------------------------
Kafka(w) ==
  \/ Assign(w) \/ Revoke(w) \/ Evict(w) \/ DiscoverLoss(w) \/ AutoCommit(w)
  \/ Crash(w) \/ Restart(w)

PushBatch(w) ==
  \/ PutBlob(w) \/ NextPass(w) \/ Enqueue(w) \/ WriteRow(w) \/ DeadlockDetected(w)
  \/ Commit(w) \/ StoreOffsets(w)

Next ==
  \/ \E t \in Topics : Publish(t)
  \/ \E w \in Workers : Kafka(w) \/ Consume(w) \/ PushBatch(w)

Spec == Init /\ [][Next]_vars

(***************************************************************************)
(* The run loop, S3 and Postgres keep going, and a process that ended is   *)
(* started again; a topic with no owner is given to some worker that polls *)
(* now and then.                                                           *)
(***************************************************************************)
Progress(w) == Consume(w) \/ PushBatch(w) \/ DiscoverLoss(w) \/ Restart(w)

Fairness ==
  /\ \A w \in Workers : WF_vars(Progress(w))
  /\ \A t \in Topics : SF_vars(\E w \in WorkersOf(t) : Assign(w))

FairSpec == Spec /\ Fairness

-----------------------------------------------------------------------------
(* Properties.                                                             *)

Documented(t, i) == log[t][i].outcome = "success"

\* The row of a record that came with a document has a document in S3, at every moment and
\* whoever wrote last.  Documents are put before the transaction, one by one, and a crash or
\* a redelivery may come between any two.  (A success without text has a row and no blob.)
RowHasBlob ==
  \A t \in Topics, k \in Keys :
    rows[t][k] # 0 /\ Documented(t, rows[t][k]) => blobs[t][k] # 0

\* The latest record of key k below offset n for which Keep holds, or 0.
LatestBelow(t, k, n, Keep(_)) ==
  LET I == {i \in 1 .. n : log[t][i].key = k /\ Keep(log[t][i])} IN
  IF I = {} THEN 0 ELSE CHOOSE i \in I : \A j \in I : j <= i

\* As long as no worker lost its topic in the middle of a batch, crashes, redeliveries and
\* rebalances never leave a table or S3 behind the committed offset: the row of a key is
\* that of its latest committed record, or of a later one.
CommittedIsCurrent ==
  ~evicted => \A t \in Topics, k \in Keys :
    /\ rows[t][k] >= LatestBelow(t, k, committed[t], LAMBDA r : r.outcome # "no-status")
    /\ blobs[t][k] >= LatestBelow(t, k, committed[t], LAMBDA r : r.outcome = "success")

\* A record published is in the end in a committed transaction, though transactions of the
\* two groups deadlock on file_meta and processes crash.
EveryRecordPersisted ==
  \A t \in Topics, o \in 0 .. LogLen - 1 : (o < Len(log[t])) ~> (<<t, o>> \in persisted)

\* The inductive strengthening.  For the queue: the committed offset, what auto-commit will
\* commit and what is fetched next are all preceded by persisted records only.
AllPersisted(t, n) == \A o \in 0 .. n - 1 : <<t, o>> \in persisted

QueueOf(w) ==
  LET t == TopicOf(w) IN
  /\ owner[t] = w => holds[w]
  /\ pc[w] = "down" => ~holds[w]
  /\ holds[w] => /\ AllPersisted(t, stored[w]) /\ stored[w] <= Len(log[t])
                 /\ position[w] <= Len(log[t])
  /\ holds[w] /\ pc[w] = "polling" => AllPersisted(t, position[w])
  /\ InBatch(w) => /\ holds[w] /\ first[w] <= last[w] /\ last[w] = position[w]
                   /\ AllPersisted(t, first[w] - 1)
  /\ pc[w] = "committed" => AllPersisted(t, last[w])

QueueInv ==
  /\ \A t \in Topics : AllPersisted(t, committed[t]) /\ committed[t] <= Len(log[t])
  /\ \A w \in Workers : QueueOf(w)

\* For the blobs: a row is that of a record of its key, and the documents of the records a
\* worker has passed, or of its whole batch once its transaction is open, are in S3.
RowOfKey ==
  \A t \in Topics, k \in Keys :
    rows[t][k] # 0 => rows[t][k] <= Len(log[t]) /\ log[t][rows[t][k]].key = k

BlobsOf(w) ==
  \A i \in first[w] .. last[w] :
    InBatch(w) /\ (pc[w] = "blobs" => i < next[w]) /\ HasDocument(w, i)
      => blobs[TopicOf(w)][Rec(w, i).key] # 0

BlobInv == RowHasBlob /\ RowOfKey /\ \A w \in Workers : BlobsOf(w)

IInv == TypeOK /\ QueueInv /\ BlobInv

\* For CommittedIsCurrent: tables and S3 are not behind the first n records of a topic.
RowsBelow(t, n) ==
  \A i \in 1 .. n : log[t][i].outcome # "no-status" => i <= rows[t][log[t][i].key]
BlobsBelow(t, n) == \A i \in 1 .. n : Documented(t, i) => i <= blobs[t][log[t][i].key]
UpToDate(t, n) == RowsBelow(t, n) /\ BlobsBelow(t, n)

\* With no eviction who holds a topic owns it, and writes only what is ahead of everything
\* that is committed or stored: the batches of successive owners follow each other.
CurrentOf(w) ==
  LET t == TopicOf(w) IN
  holds[w] =>
    /\ owner[t] = w /\ committed[t] <= stored[w] /\ stored[w] <= position[w]
    /\ UpToDate(t, stored[w])
    /\ pc[w] = "polling" => UpToDate(t, position[w])
    /\ InBatch(w) => stored[w] < first[w] /\ UpToDate(t, first[w] - 1)
    /\ pc[w] = "blobs" => first[w] <= next[w] /\ next[w] <= last[w] + 1
                          /\ BlobsBelow(t, next[w] - 1)
    /\ pc[w] \in {"rows", "file_meta", "committed"} => BlobsBelow(t, last[w])
    /\ pc[w] = "committed" => RowsBelow(t, last[w])

CurrentInv ==
  ~evicted => /\ \A t \in Topics : UpToDate(t, committed[t])
              /\ \A w \in Workers : CurrentOf(w)

\* The two topics are work queues whose messages are handled when their transaction has
\* committed: the committed offset never passes a record that is not in Postgres.  These topics
\* are compacted by key, not deleted by age.
Queue == INSTANCE WorkQueue WITH
  Partitions <- Topics, logStart <- [t \in Topics |-> 0],
  logEnd <- [t \in Topics |-> Len(log[t])], handled <- persisted, skipped <- {}
ImplementsQueue == Queue!Spec
=============================================================================
