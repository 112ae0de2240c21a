----------------------------- MODULE BatchTools -----------------------------
(***************************************************************************)
(* A command-line run over a file: a line or zip pusher of workers.py and  *)
(* the worker it pushes into, as grobid_tool.py and pdfextract_tool.py put *)
(* them together with Kafka as output.  With --jobs above 1 the pusher     *)
(* hands batches of that size to MultiprocessWrapper, whose pool works on  *)
(* the tasks of a batch in parallel; without, it hands single records to   *)
(* the worker itself, and only then pdfextract publishes page images.      *)
(***************************************************************************)
EXTENDS Integers, Sequences, FiniteSets

CONSTANTS
  Inputs,       \* the files: sequences of lines
  Jobs,         \* the values of --jobs
  PoolSize,     \* processes of the pool
  MaxLines      \* bound: lines of a file

\* What a line is to its pusher and its worker: "skipped" if it does not parse or is filtered,
\* a record that fetch_blob can take ("cdx", "partial-cdx", "item") or not ("other"), or a PDF
\* of a zip file, which may be empty.
Line == {"skipped", "cdx", "partial-cdx", "item", "other", "blob", "empty"}

ASSUME ToolsAssumption ==
  /\ Inputs \subseteq Seq(Line) /\ \A f \in Inputs : Len(f) <= MaxLines
  /\ Jobs \subseteq Nat /\ PoolSize \in Nat \ {0} /\ MaxLines \in Nat

VARIABLES
  lines, jobs,
  pc,
  cursor,     \* the next line
  batch,      \* the records of push_batch, by their lines
  started,    \* those a process of the pool has taken
  results,    \* what process() gave for them
  lost,       \* those whose process died
  sent,       \* results pushed by push_batch
  inflight, failed, delivered   \* the producers, one for the results, one for the images

Sink == INSTANCE KafkaSink WITH Workers <- {"results", "images"}, Partitions <- {"file"},
                                LogLen <- MaxLines

fileVars == <<lines, jobs>>
poolVars == <<started, results, lost>>
sinkVars == <<inflight, failed, delivered>>
vars == <<fileVars, pc, cursor, batch, poolVars, sent, sinkVars>>

NoResults == [i \in {} |-> "none"]
ResultOf(i) == <<<<"file", i - 1>>, "result">>
ImageOf(i) == <<<<"file", i - 1>>, "image">>

Init ==
  /\ lines \in Inputs /\ jobs \in Jobs
  /\ pc = "read" /\ cursor = 1 /\ batch = <<>>
  /\ started = {} /\ results = NoResults /\ lost = {} /\ sent = 0
  /\ Sink!SinkInit

-----------------------------------------------------------------------------
(* The workers.                                                            *)

\* fetch_blob, by where the record points.
FetchBlob(line) ==
  {"raise"} \cup
  CASE line \in {"cdx", "partial-cdx"} -> {"blob", "empty-blob", "error-wayback"}
    [] line = "item"  -> {"blob", "empty-blob", "error-petabox"}
    [] line = "other" -> {}

\* GrobidClient.process_fulltext: an answer for whatever GROBID says, or says too late; only
\* that it cannot be reached is raised.
ProcessFulltext == {"success", "blob-too-large", "error", "error-timeout", "raise"}

\* process_pdf: a status for the failures it foresees, by how far poppler gets, and whatever
\* else poppler raises.  A failing thumbnail leaves the text.
ProcessPdf ==
  {"not-pdf", "bad-pdf", "empty-pdf", "empty-page0", "parse-error", "text-too-large",
   "bad-unicode", "success", "raise"}

\* What a worker returns, of what it was told: a dict whatever its status.
Returned(statuses) == {IF s = "raise" THEN "raise" ELSE "result" : s \in statuses}

\* process() of GrobidBlobWorker and PdfExtractBlobWorker.
ProcessBlob(line) ==
  IF line = "empty" THEN {"none"} ELSE Returned(ProcessFulltext \cup ProcessPdf)

\* process() of GrobidWorker and PdfExtractWorker: a failed fetch is the result.
ProcessRecord(line) ==
  Returned(FetchBlob(line) \ {"blob"})
  \cup IF "blob" \in FetchBlob(line) THEN Returned(ProcessFulltext \cup ProcessPdf) ELSE {}

Process(line) == IF line \in {"blob", "empty"} THEN ProcessBlob(line) ELSE ProcessRecord(line)

Dies ==
  /\ pc' = "dead"
  /\ inflight' = [w \in {"results", "images"} |-> {}] /\ failed' = inflight'
  /\ UNCHANGED <<fileVars, cursor, batch, poolVars, sent, delivered>>

-----------------------------------------------------------------------------
(* The pushers.                                                            *)

SkipLine ==
  /\ pc = "read" /\ cursor <= Len(lines) /\ lines[cursor] = "skipped"
  /\ cursor' = cursor + 1
  /\ UNCHANGED <<fileVars, pc, batch, poolVars, sent, sinkVars>>

AtRecord == pc = "read" /\ cursor <= Len(lines) /\ lines[cursor] # "skipped"

AddToBatch ==
  /\ AtRecord /\ jobs > 1
  /\ batch' = Append(batch, cursor) /\ cursor' = cursor + 1
  /\ pc' = IF Len(batch') >= jobs THEN "map" ELSE "read"
  /\ UNCHANGED <<fileVars, poolVars, sent, sinkVars>>

\* Mutant: what is left when the file ends is no full batch.
EndWithoutRest == pc' = "close"

\* The last batch, if there is one.
EndOfFile == pc' = IF batch # <<>> THEN "map" ELSE "close"

NoMoreLines ==
  /\ pc = "read" /\ cursor > Len(lines)
  /\ EndOfFile
  /\ UNCHANGED <<fileVars, cursor, batch, poolVars, sent, sinkVars>>

BatchDone ==
  /\ pc' = "read" /\ batch' = <<>>
  /\ started' = {} /\ results' = NoResults /\ sent' = 0

-----------------------------------------------------------------------------
(* --jobs 1: push_record of the worker.                                    *)

\* A page image is pushed by process() of pdfextract, before its result.
PushImage ==
  /\ AtRecord /\ jobs <= 1 /\ "result" \in Process(lines[cursor])
  /\ Sink!Produce("images", {ImageOf(cursor)})
  /\ pc' = "result"
  /\ UNCHANGED <<fileVars, cursor, batch, poolVars, sent>>

PushRecord ==
  /\ jobs <= 1 /\ (AtRecord \/ pc = "result")
  /\ IF pc = "read" /\ "none" \in Process(lines[cursor]) THEN UNCHANGED sinkVars
     ELSE "result" \in Process(lines[cursor]) /\ Sink!Produce("results", {ResultOf(cursor)})
  /\ pc' = "read" /\ cursor' = cursor + 1
  /\ UNCHANGED <<fileVars, batch, poolVars, sent>>

ProcessRaises == AtRecord /\ jobs <= 1 /\ "raise" \in Process(lines[cursor]) /\ Dies

-----------------------------------------------------------------------------
(* MultiprocessWrapper.push_batch.                                         *)

Tasks == {batch[k] : k \in DOMAIN batch}
Busy == started \ (DOMAIN results \cup lost)

\* pool.map: a process of the pool takes a task.
TakeTask(i) ==
  /\ pc = "map" /\ i \in Tasks \ started /\ Cardinality(Busy) < PoolSize
  /\ started' = started \cup {i}
  /\ UNCHANGED <<fileVars, pc, cursor, batch, results, lost, sent, sinkVars>>

FinishTask(i) ==
  /\ pc = "map" /\ i \in Busy
  /\ \E r \in Process(lines[i]) :
       results' = [j \in DOMAIN results \cup {i} |-> IF j = i THEN r ELSE results[j]]
  /\ UNCHANGED <<fileVars, pc, cursor, batch, started, lost, sent, sinkVars>>

\* A process of the pool ends, in poppler say, and is replaced: its task is never finished, and
\* pool.map never returns.
ProcessDies(i) ==
  /\ pc = "map" /\ i \in Busy
  /\ lost' = lost \cup {i}
  /\ UNCHANGED <<fileVars, pc, cursor, batch, started, results, sent, sinkVars>>

\* pool.map has the results of all tasks: in order, or the exception of one of them.
MapReturns ==
  /\ pc = "map" /\ Tasks = DOMAIN results
  /\ \A i \in Tasks : results[i] # "raise"
  /\ pc' = "push" /\ sent' = 0
  /\ UNCHANGED <<fileVars, cursor, batch, poolVars, sinkVars>>

MapRaises ==
  /\ pc = "map" /\ Tasks = DOMAIN results
  /\ \E i \in Tasks : results[i] = "raise"
  /\ Dies

PushResult ==
  /\ pc = "push" /\ sent < Len(batch) /\ results[batch[sent + 1]] = "result"
  /\ Sink!Produce("results", {ResultOf(batch[sent + 1])})
  /\ sent' = sent + 1
  /\ UNCHANGED <<fileVars, pc, cursor, batch, poolVars>>

\* push_batch ends after the last result, or at the first task without one.
EndBatch ==
  /\ pc = "push"
  /\ sent < Len(batch) => results[batch[sent + 1]] = "none"
  /\ BatchDone
  /\ UNCHANGED <<fileVars, cursor, lost, sinkVars>>

-----------------------------------------------------------------------------
(* The output.                                                             *)

\* finish(): the producer of the results is flushed, and no other.
Finish ==
  /\ pc = "close" /\ inflight["results"] = {} /\ failed["results"] = {}
  /\ pc' = "done"
  /\ Sink!Lose("images")
  /\ UNCHANGED <<fileVars, cursor, batch, poolVars, sent>>

\* A delivery error raises out of the poll of a push, or out of flush().
BailOut ==
  /\ \/ pc = "close"
     \/ pc = "push" /\ sent < Len(batch) /\ results[batch[sent + 1]] = "result"
     \/ jobs <= 1 /\ (pc = "result" \/ (AtRecord /\ "result" \in Process(lines[cursor])))
  /\ failed["results"] # {} \/ (AtRecord /\ failed["images"] # {})
  /\ Dies

Broker(w) ==
  /\ pc \notin {"done", "dead"}
  /\ Sink!Deliver(w) \/ Sink!DeliveryError(w)
  /\ UNCHANGED <<fileVars, pc, cursor, batch, poolVars, sent>>

Main ==
  \/ SkipLine \/ AddToBatch \/ NoMoreLines \/ PushImage \/ PushRecord \/ ProcessRaises
  \/ MapReturns \/ MapRaises \/ PushResult \/ EndBatch \/ Finish \/ BailOut
Pool == \E i \in 1 .. MaxLines : TakeTask(i) \/ FinishTask(i)
Next ==
  \/ Main \/ Pool \/ \E i \in 1 .. MaxLines : ProcessDies(i)
  \/ \E w \in {"results", "images"} : Broker(w)

Spec == Init /\ [][Next]_vars

-----------------------------------------------------------------------------
Records == {i \in DOMAIN lines : lines[i] # "skipped"}

\* How many records come before a line, and the batch that a record is in.
Rank(i) == Cardinality({j \in Records : j < i})
Group(i) == Rank(i) \div jobs

\* A record without a result takes those after it in its batch along.
Answered(i) ==
  /\ lines[i] # "empty"
  /\ jobs > 1 => \A j \in Records : j < i /\ Group(j) = Group(i) => lines[j] # "empty"

\* A run that ends normally has delivered the result of each record of the file, the last batch
\* and late delivery errors included; those that push_batch drops behind an empty PDF are all
\* that is missing.
DoneIsDelivered ==
  pc = "done" => \A i \in Records : ResultOf(i) \in delivered <=> Answered(i)

\* Its inductive strengthening.  Where the run is in the file and in its batch ...
Output == ({"file"} \X (0 .. MaxLines - 1)) \X {"result", "image"}
TypeOK ==
  /\ lines \in Inputs /\ jobs \in Jobs /\ cursor \in 1 .. Len(lines) + 1
  /\ batch \in Seq(Records) /\ sent \in Nat
  /\ inflight \in [{"results", "images"} -> SUBSET Output]
  /\ failed \in [{"results", "images"} -> SUBSET Output]
  /\ \A r \in inflight["images"] \cup failed["images"] : r[2] = "image"

LoopInv ==
  /\ pc \in {"read", "result", "map", "push", "close", "done", "dead"}
  /\ jobs <= 1 => batch = <<>> /\ pc \notin {"map", "push"}
  /\ pc = "read" /\ jobs > 1 => Len(batch) < jobs
  /\ pc = "result" => jobs <= 1 /\ cursor \in Records /\ lines[cursor] # "empty"
  /\ pc \in {"map", "push"} =>
       0 < Len(batch) /\ Len(batch) <= jobs /\ (Len(batch) = jobs \/ cursor > Len(lines))
  /\ pc \in {"close", "done"} => batch = <<>> /\ cursor > Len(lines)
  /\ pc = "done" => inflight["results"] = {} /\ failed["results"] = {}

\* ... that batches are cut where Group says: the records before this one fill whole batches,
\* and its own follow them without a gap ...
BatchStart == Rank(cursor) - Len(batch)
BatchInv == jobs > 1 =>
  /\ 0 <= BatchStart
  /\ \/ \E q \in 0 .. BatchStart : BatchStart = q * jobs
     \/ batch = <<>> /\ cursor > Len(lines)
  /\ \A k \in DOMAIN batch : batch[k] < cursor /\ Rank(batch[k]) = BatchStart + k - 1

\* ... what the pool says of its tasks ...
PoolInv ==
  /\ \A i \in DOMAIN results : results[i] \in Process(lines[i])
  /\ pc = "push" =>
       /\ Tasks = DOMAIN results /\ \A i \in Tasks : results[i] # "raise"
       /\ sent <= Len(batch) /\ \A k \in 1 .. sent : results[batch[k]] = "result"

\* ... and what has been pushed, be it delivered or not: the results of the records behind, and
\* of the batch those sent so far.
Pushed == delivered \cup inflight["results"] \cup failed["results"]
PushedInv == pc # "dead" =>
  \A i \in Records :
    ResultOf(i) \in Pushed <=>
      IF i < cursor /\ i \notin Tasks THEN Answered(i)
      ELSE pc = "push" /\ \E k \in 1 .. sent : batch[k] = i

IInv == TypeOK /\ LoopInv /\ BatchInv /\ PoolInv /\ PushedInv
=============================================================================
