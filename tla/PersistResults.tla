--------------------------- MODULE PersistResults ---------------------------
(***************************************************************************)
(* push_batch of PersistIngestFileResultWorker, PersistIngestRequestWorker *)
(* and PersistCdxWorker (persist.py) with the inserts of db.py: a batch of *)
(* ingest results becomes rows of several tables in one transaction.       *)
(*                                                                         *)
(* The results have no message key, so that those of one URL are spread    *)
(* over the partitions of the topic, each with a worker of its own.  What  *)
(* a partition goes through when its worker changes is in KafkaPusher, how *)
(* transactions wait for each other in PersistBatch: here a transaction is *)
(* one step.  A crash makes records be delivered again; a worker evicted   *)
(* inside push_batch may still commit its transaction at any later time.   *)
(***************************************************************************)
EXTENDS Integers, Sequences

CONSTANTS
  Partitions,
  Results,       \* the ingest results that are published
  Requests,      \* the ingest requests that are persisted from their own topic
  NoLink, NoFile,
  CdxImport,     \* rows PersistCdxWorker imports
  LogLen,        \* bound: results in a partition
  BatchSize,
  MaxCrashes     \* bound: crashes, evictions

RequestFields == {"type", "url", "link", "implied", "long"}
ResultFields == {"request", "hit", "status", "terminal", "cdx", "file", "html", "platform"}
Status == {"success", "failure", "existing", "none"}   \* "none": a field is missing

ASSUME ResultsAssumption ==
  /\ \A q \in Requests \cup {r.request : r \in Results} : DOMAIN q = RequestFields
  /\ \A r \in Results :
       /\ DOMAIN r = ResultFields
       /\ r.hit \in BOOLEAN /\ r.status \in Status
       /\ r.terminal \in {"none", "url", "huge-url"}
       /\ r.html => r.file # NoFile
  /\ LogLen \in Nat /\ BatchSize \in Nat \ {0} /\ MaxCrashes \in Nat

VARIABLES
  log,         \* [Partitions -> the results published]
  position,    \* results pushed by the worker of a partition
  committed,   \* committed offset
  requests, cdx, fileMeta,   \* tables whose rows are only inserted: their keys
  results, htmlMeta,         \* [key -> the result its row is from, or NoRow]
  late,        \* batches evicted workers have yet to commit: <<partition, first, last>>
  crashes

\* History variable: partitions a worker of which was evicted inside push_batch.
VARIABLE evicted

tables == <<requests, cdx, fileMeta, results, htmlMeta>>
evictionVars == <<late, evicted>>
vars == <<log, position, committed, tables, crashes, evictionVars>>

NoRow == <<>>
Source == {NoRow} \cup (Partitions \X (1 .. LogLen))
AllRequests == Requests \cup {r.request : r \in Results}
Files == {r.file : r \in Results} \ {NoFile}
CdxRows == CdxImport \cup UNION {r.cdx : r \in Results}

-----------------------------------------------------------------------------
(* From messages to rows.  A row is a set: none if the message has none.   *)

\* Old requests are about "file".
TypeOf(q) == IF q.type = "file" THEN "pdf" ELSE q.type

\* The link source of old requests follows from a DOI or from fatcat.
LinkOf(q) == IF q.link # NoLink THEN q.link ELSE q.implied

\* request_to_row: the primary key of its row.
RequestRow(q) ==
  IF LinkOf(q) # NoLink /\ TypeOf(q) \in {"pdf", "xml", "html"} /\ ~q.long
  THEN {<<LinkOf(q), TypeOf(q), q.url>>} ELSE {}

\* file_result_to_row: the primary key of its row.
ResultTypes == {"pdf", "xml", "html", "component", "src", "dataset", "dataset-file"}
ResultRow(r) ==
  IF r.status \notin {"none", "existing"} /\ TypeOf(r.request) \in ResultTypes
     /\ r.terminal # "huge-url"
  THEN {<<TypeOf(r.request), r.request.url>>} ELSE {}

\* Full CDX lines only: what is in liveweb has no lasting WARC path.
CdxRow(r) == IF r.hit THEN {c.key : c \in {d \in r.cdx : d.warc}} ELSE {}

FileRowOfArchived(r) == IF CdxRow(r) # {} THEN {r.file} \ {NoFile} ELSE {}
FileRow(r) == IF r.hit THEN {r.file} \ {NoFile} ELSE {}

\* result_to_html_meta.
HtmlRow(r) == IF r.hit /\ r.html THEN {r.file} ELSE {}

\* result_to_platform_row.
PlatformRow(r) ==
  IF r.request.type = "dataset" /\ r.platform /\ r.status \notin {"none", "existing"}
  THEN {<<r.request.type, r.request.url>>} ELSE {}

ResultKeys == UNION {ResultRow(r) : r \in Results}

TypeOK ==
  /\ log \in [Partitions -> Seq(Results)]
  /\ position \in [Partitions -> 0 .. LogLen] /\ committed \in [Partitions -> 0 .. LogLen]
  /\ \A p \in Partitions :
       committed[p] <= position[p] /\ position[p] <= Len(log[p]) /\ Len(log[p]) <= LogLen
  /\ requests \subseteq UNION {RequestRow(q) : q \in AllRequests}
  /\ cdx \subseteq {c.key : c \in CdxRows} /\ fileMeta \subseteq Files
  /\ results \in [ResultKeys -> Source] /\ htmlMeta \in [Files -> Source]
  /\ \A b \in late : /\ b \in Partitions \X (1 .. LogLen) \X (1 .. LogLen)
                     /\ b[3] <= Len(log[b[1]])
  /\ crashes \in 0 .. MaxCrashes /\ evicted \subseteq Partitions

Init ==
  /\ log = [p \in Partitions |-> <<>>]
  /\ position = [p \in Partitions |-> 0] /\ committed = [p \in Partitions |-> 0]
  /\ requests = {} /\ cdx = {} /\ fileMeta = {}
  /\ results = [k \in ResultKeys |-> NoRow] /\ htmlMeta = [f \in Files |-> NoRow]
  /\ late = {} /\ crashes = 0 /\ evicted = {}

-----------------------------------------------------------------------------
Publish(p) ==
  /\ Len(log[p]) < LogLen
  /\ \E r \in Results : log' = [log EXCEPT ![p] = Append(@, r)]
  /\ UNCHANGED <<position, committed, tables, crashes, evictionVars>>

RowsOf(p, B, Row(_)) == UNION {Row(log[p][i]) : i \in B}

FirstOf(I) == CHOOSE i \in I : \A j \in I : i <= j
LastOf(I) == CHOOSE i \in I : \A j \in I : j <= i

\* ON CONFLICT DO UPDATE; of the rows of one key in a batch the last one counts.
Upsert(table, p, B, Row(_)) ==
  [k \in DOMAIN table |->
     LET I == {i \in B : k \in Row(log[p][i])}
     IN  IF I = {} THEN table[k] ELSE <<p, LastOf(I)>>]

\* The inserts of db.py, for the records B of a partition.
InsertIngestRequest(p, B) ==
  requests' = requests \cup RowsOf(p, B, LAMBDA r : RequestRow(r.request))
InsertIngestFileResult(p, B) == results' = Upsert(results, p, B, ResultRow)
InsertCdx(p, B) == cdx' = cdx \cup RowsOf(p, B, CdxRow)
InsertFileMeta(p, B) == fileMeta' = fileMeta \cup RowsOf(p, B, FileRow)
InsertHtmlMeta(p, B) == htmlMeta' = Upsert(htmlMeta, p, B, HtmlRow)

\* The statement names a constraint that the table does not have, and raises whatever the
\* rows: there is no transaction with one.
InsertFilesetPlatform(p, B) == RowsOf(p, B, PlatformRow) = {}

\* The worker may be given fewer records than it asked for.
FullOnly == {BatchSize}
BatchSizes == 1 .. BatchSize

\* What a batch B of partition p writes: one transaction.
Transaction(p, B) ==
  /\ InsertIngestRequest(p, B) /\ InsertIngestFileResult(p, B)
  /\ InsertCdx(p, B) /\ InsertFileMeta(p, B) /\ InsertHtmlMeta(p, B)
  /\ InsertFilesetPlatform(p, B)

\* push_batch.
PushBatch(p) ==
  /\ \E n \in BatchSizes :
       /\ position[p] + n <= Len(log[p])
       /\ Transaction(p, position[p] + 1 .. position[p] + n)
       /\ position' = [position EXCEPT ![p] = @ + n]
  /\ UNCHANGED <<log, committed, crashes, evictionVars>>

CommitNext(p) ==
  /\ committed[p] < position[p]
  /\ committed' = [committed EXCEPT ![p] = position[p] + 1]
  /\ UNCHANGED <<log, position, tables, crashes, evictionVars>>

\* The offsets stored after push_batch are committed.
CommitOffset(p) ==
  /\ committed[p] < position[p]
  /\ committed' = [committed EXCEPT ![p] = position[p]]
  /\ UNCHANGED <<log, position, tables, crashes, evictionVars>>

\* The process ends, or the partition goes to another one while it polls; what was not
\* committed is pushed again.
Crash(p) ==
  /\ crashes < MaxCrashes /\ crashes' = crashes + 1
  /\ position' = [position EXCEPT ![p] = committed[p]]
  /\ UNCHANGED <<log, committed, tables, evictionVars>>

\* push_batch takes longer than max.poll.interval.ms: the partition goes to another worker,
\* which begins at the committed offset, and the old one does not notice.
Evict(p) ==
  /\ crashes < MaxCrashes /\ crashes' = crashes + 1
  /\ \E n \in BatchSizes :
       /\ position[p] + n <= Len(log[p])
       /\ late' = late \cup {<<p, position[p] + 1, position[p] + n>>}
  /\ position' = [position EXCEPT ![p] = committed[p]]
  /\ evicted' = evicted \cup {p}
  /\ UNCHANGED <<log, committed, tables>>

\* Its transaction is committed all the same; the offsets it stores are refused.
PushLate ==
  /\ \E b \in late : Transaction(b[1], b[2] .. b[3]) /\ late' = late \ {b}
  /\ UNCHANGED <<log, position, committed, crashes, evicted>>

\* PersistIngestRequestWorker.push_batch.
PushRequest ==
  /\ \E q \in Requests : requests' = requests \cup RequestRow(q)
  /\ UNCHANGED <<log, position, committed, cdx, fileMeta, results, htmlMeta, crashes,
                 evictionVars>>

\* PersistCdxWorker.push_batch.
PushCdx ==
  /\ \E c \in CdxImport : cdx' = IF c.warc THEN cdx \cup {c.key} ELSE cdx
  /\ UNCHANGED <<log, position, committed, requests, fileMeta, results, htmlMeta, crashes,
                 evictionVars>>

Next ==
  \/ \E p \in Partitions : Publish(p) \/ PushBatch(p) \/ CommitOffset(p) \/ Crash(p) \/ Evict(p)
  \/ PushLate \/ PushRequest \/ PushCdx

Spec == Init /\ [][Next]_vars

\* The run loop of a partition's worker goes on; a process that ends is started again.
FairSpec == Spec /\ \A p \in Partitions : WF_vars(PushBatch(p) \/ CommitOffset(p))

-----------------------------------------------------------------------------
(* Properties.                                                             *)

Of(s) == log[s[1]][s[2]]

\* Results of one URL in several partitions overwrite each other in no particular order, but as
\* long as none of its workers was evicted inside push_batch, a row never falls behind its own
\* partition: no later result there, once committed, had a row for the same key, whatever was
\* delivered again, pushed by the workers of other partitions or put back by their evicted ones.
\* An evicted worker of the row's own partition may put an old row back for good.
Current(table, Row(_)) ==
  \A k \in DOMAIN table : table[k] # NoRow =>
    /\ k \in Row(Of(table[k]))
    /\ table[k][1] \notin evicted =>
         \A j \in table[k][2] + 1 .. committed[table[k][1]] : k \notin Row(log[table[k][1]][j])

RowsAreCurrent == Current(results, ResultRow) /\ Current(htmlMeta, HtmlRow)

\* No committed result is without a row: its key has one, of this or another result.  (The
\* group keeps up with the retention of its topic; for one that does not see KafkaPusher.)
CommittedHasRow ==
  \A p \in Partitions : \A i \in DOMAIN log[p] : i <= committed[p] =>
    /\ \A k \in ResultRow(log[p][i]) : results[k] # NoRow
    /\ RequestRow(log[p][i].request) \subseteq requests

\* The row of a hit is never without the rows of other tables that it is joined with: its
\* file_meta, its html_meta, its CDX lines and its request, whichever results have overwritten
\* it or each other.
HitsAreComplete ==
  \A k \in ResultKeys : results[k] # NoRow =>
    LET r == Of(results[k]) IN
    r.hit => /\ r.file # NoFile => r.file \in fileMeta
             /\ r.html => htmlMeta[r.file] # NoRow
             /\ \A c \in r.cdx : c.warc => c.key \in cdx
             /\ RequestRow(r.request) \subseteq requests

\* Every result published is committed in the end: a worker that is behind catches up.
EveryResultPersisted ==
  \A p \in Partitions : (committed[p] < Len(log[p])) ~> (committed[p] = Len(log[p]))

-----------------------------------------------------------------------------
(* The inductive invariant.                                                *)

\* A row is that of a result with such a row.
IsOfItsKey(table, Row(_)) ==
  \A k \in DOMAIN table : table[k] # NoRow =>
    table[k][2] <= Len(log[table[k][1]]) /\ k \in Row(Of(table[k]))

\* Current for what is pushed, not only for what is committed.
Follows(table, Row(_)) ==
  \A k \in DOMAIN table : table[k] # NoRow /\ table[k][1] \notin evicted =>
    \A j \in table[k][2] + 1 .. position[table[k][1]] : k \notin Row(log[table[k][1]][j])

\* CommittedHasRow for what is pushed.
PushedHasRow ==
  \A p \in Partitions : \A i \in 1 .. position[p] :
    /\ \A k \in ResultRow(log[p][i]) : results[k] # NoRow
    /\ RequestRow(log[p][i].request) \subseteq requests

IInv ==
  /\ TypeOK
  /\ IsOfItsKey(results, ResultRow) /\ IsOfItsKey(htmlMeta, HtmlRow)
  /\ Follows(results, ResultRow) /\ Follows(htmlMeta, HtmlRow)
  /\ \A b \in late : b[1] \in evicted
  /\ PushedHasRow /\ HitsAreComplete
=============================================================================
