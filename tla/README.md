# sandcrawler in TLA+

Sandcrawler finds research documents on the web for the Internet Archive's
scholar.archive.org: workers fetch them through the Wayback Machine or Save Page
Now, extract text, metadata and thumbnails, and store the results. Its processes
are single-threaded Python loops; nearly all concurrency is between processes, which
meet in Kafka, Postgres, an S3-like blob store, archive.org items and the services of
the Wayback Machine. That is where the hard behaviour is, and what these modules are
about.

## Components

| component | code | state it keeps | operations | hard behaviour | modules |
|---|---|---|---|---|---|
| run loop | `workers.py` `KafkaJsonPusher`, `make_kafka_consumer` | consumer position, assignment, stored offsets, the batch in hand | consume, push record by record under an alarm or batch-wise, back off, store offsets | rebalances and evictions in the middle of a batch, crashes, retries, the poll interval, retention of the topic | `KafkaPusher`, `WorkQueue` |
| producers | `workers.py` `KafkaSink`, `KafkaCompressSink` | messages queued in librdkafka | produce, poll, flush | errors noticed late, a queue that dies with the process | `KafkaSink` |
| file ingest | `ingest_file.py` | hops, the resource and the answer being built | hop loop, fetch, process, publish | alarm at any point, partial results, redirect and link cycles, blocklists at four places | `IngestFile` |
| wayback and CDX | `ia.py` `CdxApiClient`, `WaybackClient` | the walk of one lookup | query, redirect walk, petabox, replay | redirect cycles, revisit records, an index that grows meanwhile | `WaybackArchive`, `WaybackLookup` |
| Save Page Now | `ia.py` `SavePageNowClient` | a job at the service | availability, submit, poll, look the capture up | backpressure, jobs given up, captures not indexed yet, other users | `SavePageNow` |
| persist workers of derivatives | `persist.py`, `db.py`, `minio.py` | an open transaction | put blobs, upsert rows, commit | two stores and an offset written in turn, redelivery, row locks shared by two groups | `PersistBatch` |
| persist workers of results | `persist.py`, `db.py` | tables | upsert six tables in one transaction | results of a URL in several partitions, one bad row for a whole batch | `PersistResults` |
| filesets | `ingest_fileset.py`, `fileset_*.py` | manifest, working directory, item | landing page, platform API, strategy, file by file | one file of many fails, leftovers of earlier requests | `FilesetPlatforms`, `FilesetIngest` |
| line, zip and multiprocess pushers with GROBID and pdfextract | `workers.py`, `grobid_tool.py`, `pdfextract_tool.py`, `grobid.py`, `pdfextract.py` | a pool, a batch | read, map, push, finish | a missing result in a batch, the last batch, a pool process that dies | `BatchTools` |
| HTML, pdftrio, small helpers | `ingest_html.py`, `html*.py`, `pdftrio.py`, `misc.py` | none | conversions, one remote call each | none of their own | outcomes only |
| other tools, SQL, Hadoop, Pig, Scalding | `*_tool.py`, `sql/`, `python_hadoop/`, `pig/`, `scalding/` | none of their own | run by hand | none | none |

How they interact: requests are messages of the `ingest-file-requests-*` topics. An
ingest process handles one at a time under the run loop, asks the two clients of
`ia.py` for resources, pushes derivatives to side topics (`grobid-output-pg`,
`pdf-text`, `xml-doc`, `html-teixml`, thumbnails) while it works and the answer to
`ingest-file-results` at the end. Persist processes, one group per topic, turn these
messages into blobs and rows. A message counts as done when its offset was stored by
the loop and committed by librdkafka's timer. Fileset requests go through a worker of
their own, whose results go to the same topic. The command-line tools run the GROBID
and PDF workers over files instead.

What makes each part correct, and where it is stated:

- run loop: at-least-once handling (`CommittedIsHandled`), no repetition without a
  cause (`HandledOnce`), no jump over messages that retention has not overtaken
  (`EstablishedNeverSkips`), staying in the group while the alarm works
  (`KeepsAssignment`), progress (`EveryMessageSettled`);
- producers: nothing of their own; `KafkaSink` is part of the two models that use it;
- file ingest: an answer describes one acceptable document (`HitIsTheDocument`), as do
  published derivatives (`PublishedIsOfDocument`), with a bounded number of fetches and
  crawls (`FetchBudget`); a request ends when its services answer (`EveryRequestEnds`);
- clients: a hit is what the archive has for that URL (`ChainUnbroken`,
  `HitEndsTheChain`, `GoodCaptureIsUsed`) or what this call crawled
  (`HitIsOfThisCrawl`), calls end and leave nothing behind (`WalkBounded`, `CallEnds`,
  `NoJobLeftBehind`);
- persist: rows have their blobs (`RowHasBlob`) and each other (`HitsAreComplete`),
  stores are not behind the committed offset as long as no worker is evicted inside
  `push_batch` (`CommittedIsCurrent`, `RowsAreCurrent`) and nothing committed is missing
  (`CommittedHasRow`), deadlocks do not stop it (`EveryRecordPersisted`), and neither
  should a record (`EveryResultPersisted`, which fails for datasets);
- filesets: what is reported as archived is (`SuccessIsArchived`), what is uploaded was
  compared with the manifest (`UploadsAreVerified`), a download only happens while some
  file of the manifest is missing from the item (`NoNeedlessDownload`), requests end
  (`RequestEnds`);
- tools: a run that ends normally delivered the result of every record but those behind
  an empty PDF of their batch (`DoneIsDelivered`).

## How the modules fit together

    WorkQueue        <-- KafkaPusher (over KafkaSink)      run loop
                     <-- PersistBatch                      its topics are queues too
    ResourceClient   <-- WaybackLookup, SavePageNow        (both over WaybackArchive)
    ResourceResults  --> IngestFile assumes, the clients keep to it
    KafkaSink        --> BatchTools (two producers)
    FilesetPlatforms --> FilesetIngest
    PersistResults   stands alone

An arrow `A <-- B` says that B is shown to implement A (`ImplementsQueue`,
`ImplementsClient`). `IngestFile` is separate from the clients: it lets a client answer
any member of `WaybackResults` or `CrawlResults` or raise any error of `ResourceResults`,
and `ImplementsClient` says that the client answers once, with one of these.

## Modules

`WorkQueue` is the abstract specification of a topic and its consumer group: a log, a
set of handled messages, a watermark per partition. The watermark never covers a message
that is neither handled nor skipped, and messages are skipped only in a partition
without a watermark or with deleted messages. `ResourceClient` is that of a call:
pending, then one result or one exception, for good.

`KafkaSink` is the producer end. An action that pushes a result contains `Produce`;
`Deliver`, `DeliveryError` and `Lose` are what librdkafka does with its queue later.

`KafkaPusher` composes the run loop of each process of a group with the group
coordinator and the broker. A batch is kept as a range `[cursor, limit)` per
partition. Actions and code:

| action | code (`workers.py`) |
|---|---|
| `Consume` | `consumer.consume(num_messages=batch_size)` |
| `Answer`, `Ignore`, `TimeOut`, `TimeOutInSink` | `push_record_timeout` around `push_record`: a result, no result, the alarm before or after the sink got the result |
| `Raise`, `BailOut` | `process()` raises; `_fail_fast` raises out of `producer.poll(0)` |
| `SwallowAlarm` | `process()` catches the `TimeoutError` of the alarm and goes on, with no alarm left |
| `Backoff`, `PollWhilePaused`, `Resume` | `except SandcrawlerBackoffError`: pause, the asserting poll loop, resume |
| `PushBatch`, `PushBatchRaises` | `push_batches` |
| `StoreOffsets`, `StoreOffsetsRefused` | the final loop over the batch |
| `Assign`, `Revoke`, `Evict`, `DiscoverLoss`, `AutoCommit`, `CommitRefused` | group membership, `max.poll.interval.ms`, `enable.auto.commit`, `on_commit` with its `fail_fast` |
| `Expire`, `OutOfRange` | `retention.ms` (`kafka/topics.md:179-181`), `auto.offset.reset` for what it has overtaken |
| `Crash`, `Restart` | process death, the service manager |

Callbacks and rebalances are served only inside `consume()` and `poll()`, hence
`ServesCallbacks`. librdkafka is modelled from the configuration in
`make_kafka_consumer`: stored offsets are dropped with the assignment, a commit of a
process that is no longer a member is refused, `store_offsets` of a partition that
is not assigned raises. `auto.offset.reset = latest` applies to a partition without a
committed offset and to one of which the next message has been deleted, at assignment
(`ResetPosition`) and while fetching (`OutOfRange`).

`IngestFile` is one request, from `process_file` to `process_file_hit`, and the
alarm. Bodies are reduced to their mimetype or to why they are of no use, URLs to
members of a set with blocklists as subsets of it. `LookupResource` and
`CrawlResource` return anything of `ResourceResults`; the exceptions of `ia.py` are
`FetchFails` (turned into statuses), `FetchRaises` (caught by nobody) and, inside the
arxiv hack, `HackFails`. `fetched` logs the calls of `find_resource`, the recursive one of
the hack included, each with the hop it was made for. Derivatives are published as the code
does it, the thumbnail first (`PushThumbnail`). `armed` is the pending alarm; it is FALSE
from the start for requests of the HTTP front end, which sets none. It may end the request
(`TimeOut`), only the hack (`TimeOutInHack`), or nothing (`TimeOutSwallowed`: the `except
Exception` of the thumbnail, and HTTP sessions that take it for a broken connection and
retry, `misc.py:280-300`). The worker's options and the request's
`force_recrawl` are chosen in `Init`. `check_existing_ingest` returns nothing with the
default `try_existing_ingest=False`, which no caller in the repository changes.

`WaybackArchive` is the CDX index: rows, the part of them a query with `limit=40` sends,
and the order of `lookup_best` (`SortKey`, its eight criteria). `Contents` says whose
content may be served for a row: digests are not compared, so the content of a revisit
is that of any document of the URL and second it refers to, and a replayed body that of
any capture of the URL in that second. A `Location` may be relative; `Join` stands for
`urljoin`. `WaybackLookup` is `lookup_resource` over it: `LookupBest` and `NoCapture`
are the query, `Branch` and `ByStatus` the tests on the row,
`LoadRevisit`/`ResolveRevisit`, `LoadGood`/`ReplayBody` and
`LoadRedirect`/`ReplayRedirect` the ways to content and to the next URL, with their
`...Fails`. A relative `Location` is joined to `next_url`, as the code does it, not to
the URL of the capture. `i` is the counter of the loop. `Capture` and `Upload` are
crawls and uploads by others during the call, taken only where the call reads the index.

`SavePageNow` is `crawl_resource` with `save_url_now_v2`. The service has jobs, of this
call and of others (`OthersSubmit`), that succeed, fail, never end, or name an earlier
job as their original (`RecentCapture`). The call's actions follow the code:
`CheckAvailability`, `Submit...`, `Poll...` and `ReadOriginal`, the early returns
(`CrawlFailed`, `SkipTerminal`), the CDX lookups with growing delay (`LookupElsevier`,
`FetchAgain`, `FetchRow`, `FetchMisses`), and the body.

`PersistBatch` is `push_batch` of `PersistGrobidWorker` and `PersistPdfTextWorker`
in detail: the pass that puts blobs, the pass over the rows of the own table and the
one over `file_meta`, the commit, the offsets. Rows are locked in batch order until
the transaction ends, waiters are queued as Postgres does, and a cycle of waiters
ends one of the transactions. The consumer part is that of `KafkaPusher` with
`PushBatches`, for one partition per topic: records of one PDF have its sha1 as
message key and so share a partition. Their group has committed offsets. A record may be
a success with a document, a success without text, a failure, or have no status.

`PersistResults` is `push_batch` of `PersistIngestFileResultWorker`,
`PersistIngestRequestWorker` and `PersistCdxWorker`: which result gives which rows
(`RequestRow`, `ResultRow`, `CdxRow`, `FileRow`, `HtmlRow`, `PlatformRow`), duplicates
within a batch, inserts that keep the old row and upserts that replace it. Results have
no message key, so the results of one URL are in several partitions. A transaction is one
step here: its locks are the matter of `PersistBatch`, the life of a consumer that of
`KafkaPusher`. What reaches this module of that life is that records are delivered again
(`Crash`) and that a worker evicted inside `push_batch` commits its transaction late
(`Evict`, `PushLate`).

`FilesetPlatforms` is the match of a URL to a platform, what each platform's API call
may end in, and `chose_strategy`. `FilesetIngest` is `IngestFilesetWorker.process` over
it: `Request` to `TakeManifest` are the landing page, the platform and the manifest;
then either the archive.org strategies (`CheckExisting`, which raises rather than
download from archive.org into it, `VerifyLocal`, `Download`, `Upload`) or the web ones
(`WebCaptured`, `WebCrawl`, ...), then the summary. The working directory, the item and
the captures outlive a request.

`BatchTools` is a run of `grobid_tool.py` or `pdfextract_tool.py`: the pusher's loop, the
worker (directly, or through the pool of `MultiprocessWrapper`), and two `KafkaSink`s, one
for results and one for page images.

`MC*` modules give values to the constants, `*_proof` modules hold the theorems.

## Runs

| run | what it asks | instance | result |
|---|---|---|---|
| `ingest` | safety and action properties of the run loop with `batch_size` 1 | 2 workers, 1 partition, 2 messages (one of them poison), alarms that may be swallowed, 2 disturbances | passes |
| `persist` | the loop with `push_batches` implements `WorkQueue` | 2 workers, 2 partitions of 2 messages, batches of 2, 1 disturbance | passes |
| `live` | undisturbed, no message is handled twice; every message is settled | 2 workers, 1 partition, batches of 2, 1 disturbance, no poison | passes |
| `safety` | what a request answers and publishes, how much it fetches, and that it ends when services answer | 5 URLs: an arxiv PDF and its stripped form, a loginwall, a blocked host, a paper; all ingest types, `max_hops` 3 | passes |
| `wayback` | a lookup follows real redirects, ends, and uses what there is | 4 URLs, two of them spellings of one and a third sharing their SURT; 7 rows with a redirect cycle, a relative redirect, two revisits and two documents of one second; any index at the start | passes |
| `spn` | a crawl's hit is its own, no job is left, the call ends | 5 URLs, 3 slots, 2 jobs, 2 polls, an old capture, a redirect of the same second | passes |
| `zombies` | blobs, rows and offsets with redelivery and evicted workers | 2 GROBID workers, 3 records, all outcomes, 2 disturbances | passes |
| `tables` | deadlocks on `file_meta` do not stop the pipeline | a GROBID and a pdftotext worker, 2 PDFs | passes |
| `results` | rows of results are current and complete, and every result is persisted | 3 results (a paper, its failure, a page) in 2 partitions of 2, batches of 2, 1 redelivery or eviction | passes |
| `dataset` | every result is persisted, datasets included | a dataset with a platform, a paper | violated, see below |
| `fileset` | what is reported as archived is | 2 requests, 14 records of up to 4 files, 4 platforms, all contents behind their URLs, crashes | passes |
| `tools` | a normal end delivered everything but what an empty PDF of the batch hides | files of up to 4 lines with empty PDFs anywhere, `--jobs` 1 to 3, a pool of 2 | passes |

Bounds. `LogLen` bounds a partition, `MaxDisturbances` the crashes, evictions,
revocations, expiries and delivery errors together, `MaxCrashes` the crashes and
evictions of `PersistResults`, `MaxJobs`, `MaxRequests` and `MaxLines` what their names
say; all appear in guards, in the choice of inputs and in the ranges of the type
invariants only. Two messages make a batch with a middle and a log with an end; two
workers are what a handover needs; the errors these properties look for need one
disturbance (a handover or a crash) and one more during recovery. Two expiries delete a
log of two. Times are whole minutes: the alarm 5, the poll interval 6, so one record
fits between polls and two do not. `MaxHops`, `MaxRedirects` and `PollCount` are small
because one more adds states of the same kind as the last; four and more URLs let
redirects and links go round. Three jobs were tried in `spn`, with the same outcome. Two
fileset requests are what a leftover of an earlier one needs. `--jobs` up to three and
four lines make full, partial and empty batches. The theorems below remove these bounds
for the properties they name.

Symmetry is used over the workers of the safety runs of `KafkaPusher` only.
`CHECK_DEADLOCK FALSE` is set where the system really may stop: a request that is
answered, a call that returned, a group that has read everything and has used up its
disturbances.

Fairness. The run loop has no exit, so its steps are weakly fair in `live` and `tables`,
as are librdkafka's commit timer and the restart by the service manager. Assignment and
the discovery of a loss need a member that polls, which holds only now and then:
strongly fair. `Settle` is strongly fair: a service that asks for backoff has room again
at some time. In `tables`, Postgres' lock queue is part of the model, so that weak
fairness of a worker is enough: a waiter has its turn before those who came later.
`EveryRequestEnds` asks what happens when services answer, and says so in its formula: a
remote service may never answer (the HTTP sessions set no timeout), and the alarm does
not always help (see below). `CallEnds` is fair to the call as a whole, which is to say
that its services answer, and to nobody else: neither crawls by others nor the jobs of
the service have to make progress. `EveryResultPersisted` assumes that the worker of a
partition goes on: it pushes or commits when it can do one of them. `RequestEnds`
assumes that each step of a fileset request ends, with an error if need be: of its calls
only those of the platform APIs (60 s) and the downloads (2 hours) have timeouts, for
the others it is an assumption.

### Where code and schema disagree

`dataset`: the upsert of fileset platforms (`db.py:520`) says `ON CONFLICT ON CONSTRAINT
ingest_fileset_platform_pkeypkey`. The table
(`sql/migrations/2019-12-19-060141_init/up.sql`) has only the default name of its
primary key, `ingest_fileset_platform_pkey`. The statement raises for every row, the
transaction of the batch is rolled back, and the process ends and meets the batch again
after each restart: no result behind the first dataset of a partition is persisted,
where the proposal for fileset ingest (`proposals/2021-09-09_fileset_ingest.md:239`)
says that the existing workers persist them "just like with file ingest".

### Facts the models show and no property states

- `pause()` covers the partitions of the moment. One that is assigned by the poll of the
  backoff loop is not paused, and its message fails the assertion at `workers.py:589`
  (`PollWhilePaused`).
- With `push_batches` off and batches of 25, as the thumbnail, XML and HTML persist
  workers run, records add up past the poll interval; `KeepsAssignment` is checked for the
  ingest worker. Persist workers with `push_batches` have no bound at all.
- The alarm does not end every request, although the run loop says "use timeouts; don't want
  kafka itself to timeout" (`workers.py:575`). It raises one `TimeoutError`, which `except
  Exception` of the arxiv hack (`ingest_file.py:276`) and of the thumbnail
  (`pdfextract.py:370`) catches, and which an HTTP session of `misc.py:280-300` takes for a
  broken connection and retries. The request goes on with no alarm left and may wait for a
  service for ever (`TimeOutSwallowed`); its worker can be evicted while it processes
  (`SwallowAlarm`, `PollOverdue`), which `CommittedIsHandled` survives. `ia.py:735` catches
  the alarm, too, but only changes the status.
- A URL may be asked for twice in one request: as a hop, and by the arxiv hack of another
  hop (`FetchBudget`).
- A worker that is given a partition again while it backs off from a record of it fetches
  from the committed offset, behind what it stores at the end of the batch. Retention that
  catches up with it there makes it skip, although the group's offset is in range (the
  second half of `InRange`).
- Save Page Now's 429 to a status poll becomes `SavePageNowError` (`ia.py:1162-1166`), not
  backpressure.
- `lookup_resource` joins a relative `Location` to the URL asked for
  (`ia.py:893`), not to that of the capture.
- The digest of a body is not compared with that of its row, for a revisit or by replay.
- A pdftotext result of status success with empty text gets a row and no blob, or leaves
  the blob of an earlier result of the PDF where it is.
- `MultiprocessWrapper` drops the results behind an empty PDF of their batch.
- `process_file` makes a status of Save Page Now's backpressure (`ingest_file.py:674`), so
  the pause of the run loop is never reached from file ingest.
- `assert resource` (`ingest_file.py:703`) fails for `force_recrawl` on a worker without
  Save Page Now, and only then: theorem `ResourcesAreFound`. That also holds for a worker
  that does not try wayback.
- No request reaches the archive.org helper: `ingest_fileset.py:119` lets such a base URL
  pass, but `find_resource` does not implement it (`ingest_file.py:286`, status
  `not-implemented`), and a landing page there is in `base_url_blocklist` (line 170).
- `flush()` is out of reach of the run loop: what is queued when a process ends is lost.
  `pdfextract_tool.py` flushes its results and not its page images.
- If a process of the pool dies, `pool.map` waits for ever.
- With an eviction in the middle of a batch an old batch may be committed after a newer
  one, and its old rows stay: `CommittedIsCurrent` is stated for histories without,
  `RowsAreCurrent` for rows of partitions without.
- A bad file in the working directory of a fileset is never downloaded again.
- `ingest_fileset.py:490` pushes `result.copy()` where it has built `file_result`.

## Proofs

Eight modules hold theorems; all are for any values of the constants that satisfy the
named assumption of the module, whatever the bounds are. Every `IInv` was checked by TLC
on the instances above before it was proved.

`KafkaPusher_proof`, for any workers, partitions, log length, batch size, and any set
of poison messages, from `LogLenAssumption` and `PusherAssumption` (a topic has finitely
many partitions):

- `TypeCorrect`, then `Inductive` for `IInv`. `CommittedIsHandled` alone is not
  inductive: what will be committed next is `stored`, what is stored next is the
  `limit` of the batch, what is fetched next starts at `position`. `StoredIsHandled`,
  `BatchIsHandledBelow` and `FetchedIsHeld` say the same of those, and `WithinLog`
  that none of them points past the log. One lemma per group of actions preserves
  each conjunct.
- `AtLeastOnce` and `NothingFallsBetween` are conjuncts of `IInv`.
  `EstablishedGroupsNeverSkip` follows from it and the two actions that skip: where the
  broker has the message the group and its owner go on with (`InRange`), neither jumps.
- `Refinement`: initial states map to initial states of `WorkQueue`, and each step to
  `Publish`, `Handle`, `Skip`, `Commit` or a stutter.
- `RecordsHandledOnce`: that the message settled now is new follows from `OnceInv`. Until
  a disturbance, who has a partition assigned owns it, its position has passed all that is
  handled, and so has the cursor of its batch. Two workers
  with one partition, or a position behind the last batch, would break it.
- `PollsInTime`: `KeepsAssignment` where records are pushed one by one and `BatchSize`
  alarms fit into the poll interval, as for the ingest worker (1 record, 5 of 6
  minutes), for a worker that has swallowed no alarm since its last poll. Without these
  hypotheses it is false: see the notes above on `push_batches`, on batches of 25 and on
  the alarm. `AttemptsInv` says that the attempts since the last poll and what is left
  of the batch are at most `BatchSize` together. `BatchLength` is the cardinality of the
  messages of a batch, so that the proof counts sets.

`IngestFile_proof`, for any URLs, blocklists and `MaxHops`, from `IngestAssumption`:
`IInv` adds to the properties where in the code the bounds are known (a link or a
redirect is a new hop until it is fetched, processing starts with an acceptable document).
`CallsOfHops` says that each call of `find_resource` is for a hop, with the URL of the hop
or what the hack makes of it, and no call is made twice; that at most two calls ask for one
URL follows since no two URLs are stripped to the same (`IngestAssumption`: stripping cuts a
`.pdf` off, so it is injective; URLs that end in `.pdf.pdf`, which would be stripped again,
are left out). `FetchesAreBounded`,
`HopsAreDistinct` (that the list of hops has no repetition and at most `MaxHops + 2`
entries, a part of `IInv`), `HitsAreDocuments`, `DerivativesAreOfDocuments` and
`ResourcesAreFound` follow.

`WaybackLookup_proof`, for any archive and redirect limit, from `LookupAssumption` and
`ArchiveAssumption`, which says of the archive only what its values are: nothing of which
captures agree. `IInv` relates the row in hand to the query it came from (`RowInv`), the
walk to the redirects followed (`WalkInv`) and the answer to both (`AnswerInv`).
`ChainsAreUnbroken`, `HitsEndTheirChains`, `WalksAreBounded`, `GoodCapturesAreUsed` and the
refinement `LookupImplementsClient` follow.

`SavePageNow_proof`, for any number of slots, jobs and polls, from
`SavePageNowAssumption` and `ArchiveAssumption`. `JobsInv` says that a job's original is an
earlier job that has none itself, `JobInv` and `FinalInv` which job the call has read and
what it may rely on, `RowIsOfFinal` that the CDX row is of that job's capture.
`HitsAreOfTheirCrawls`, `NoJobsLeftBehind` and `CrawlImplementsClient` follow.
That an original has no original is needed: the code follows one step only. The service
is taken to name original jobs that made a capture of their own (`RecentCapture`).

`PersistBatch_proof`, for any workers, keys and logs, from `PersistAssumption`:

- `QueueInv` (offsets, position and batch of each worker, also of one that was evicted
  and does not know) gives `PersistRefinement`; `BlobInv` (the documents of all records
  passed so far are in S3, and of the whole batch once the transaction is open) gives
  `DocumentsAreStored`: for the rows of records that came with a document (`Documented`).
- `TablesAreCurrent`: `CommittedIsCurrent` needs an order on the batches of successive
  owners. `CurrentInv` gives it: with no eviction who holds a topic owns it, what it writes
  next is ahead of what it has stored, and that is not behind the committed offset; so a
  row or a blob below the committed offset is only ever replaced by a later one.

`PersistResults_proof`, for any results, partitions and batches, from
`ResultsAssumption`: `IInv` states the properties for what was pushed, not only for what
was committed (`Follows`, `PushedHasRow`), since a redelivery starts behind it.
`Follows` leaves out the rows of partitions with an evicted worker, and late
transactions are of those only; for all rows, a row is that of a result with such a row
(`IsOfItsKey`), which `HitsStayComplete` needs. `RowsStayCurrent`, `CommittedHaveRows`
and `HitsStayComplete` follow.

`FilesetIngest_proof`, for any landing pages, manifests, items, captures and contents, from
`FilesetAssumption`. `SuccessIsArchived` speaks of the end of a request; `IInv` says what
each loop over the manifest has established on the way there: `LoopInv` where it is in the
manifest, `DownloadInv` that a file with the verdict `verified-local` is one in the working
directory that matches, `UploadInv` that the uploads start when all of them do and that the
item has the files before `next`, `WebInv` that a `success` is a matching capture. Between
the verdict and its use the working directory, the item and the captures stay as they are
(two processes sharing a directory are not modelled). `ReportedIsArchived` follows.
`OnlyVerifiedUploads` is by `UploadInv` and the one action that changes the item,
`DownloadsAreNeeded` by `DownloadInv` and the one that changes the working directory.

`BatchTools_proof`, for any file, `--jobs`, pool and number of lines, from
`ToolsAssumption`: `DoneIsDelivered` says of a record whether its result has to be there by
the group of `jobs` records it belongs to, the code by the batch it happened to be in.
`BatchInv` relates them: a batch starts at a multiple of `jobs` in the order of the records
and has no gap, or the file is at its end. From it, lemma `BatchIsGroup`: a batch is the
part of one group up to each of its records. `PoolInv` keeps the answers of the pool what
`process()` may return for the line, in the order of the tasks, whatever order they were
finished in; `PushedInv` says which results were pushed, delivered or not, record by record.
`DoneMeansDelivered` follows, since `flush()` leaves nothing queued. The facts about
`\div` and multiples that this needs are lemmas of their own (`TimesMonotone`, `DivIs`).

Only model-checked: the liveness properties `EveryMessageSettled`, `EveryRequestEnds`,
`EveryRecordPersisted`, `EveryResultPersisted`, `CallEnds` and `RequestEnds` (fairness and
ENABLED are out of the prover's reach). Every invariant and action property of a passing
run, and every refinement, has a theorem.

## Not modelled

- Contents of documents, their metadata and the wording of messages; the conversion of a
  platform's record into file names, mimetypes and digests beyond what `ManifestFile`
  keeps; the HTML selectors of `html_metadata.py` and `ingest_html.py`, which are tables
  of data: their outcomes are inputs of `IngestFile`.
- The bundle strategies of filesets, which `chose_strategy` never picks, and two processes
  sharing a working directory.
- The `--s3-only` and `--db-only` modes of the persist workers; the persist workers for
  thumbnails, XML, HTML, pdftrio and Crossref, which do one put or one upsert under the
  loop of `KafkaPusher`.
- Error messages of Kafka itself (`msg.error()` ends the process as `Crash` does); the
  retries inside an HTTP session beyond that they swallow the alarm; WARC parsing.
- Retention in the models of the persist workers: a group that has fallen behind by all the
  broker keeps is the matter of `KafkaPusher`. Retention of result topics as such: what the
  broker deletes after it was persisted is of no concern here.
- The alarm inside the clients: in `IngestFile` it may go off during any call, and a call
  is abandoned with it.
- The HTTP front end beyond its missing alarm; pdftrio, which is no longer run; the retired
  HBase pipeline (`python_hadoop`, `pig`, `scalding`); SQL and enqueuing scripts run by
  hand; deployment notes.

What is left is of these kinds: data with no protocol, or code that is no longer run.
