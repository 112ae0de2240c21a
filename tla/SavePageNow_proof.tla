-------------------------- MODULE SavePageNow_proof --------------------------
(***************************************************************************)
(* For any number of slots, jobs, polls and seconds of waiting, whatever   *)
(* other users submit and the service does: a call of crawl_resource       *)
(* reports captures of its own crawl only, leaves no job behind when it    *)
(* returns, and answers as its caller expects.                             *)
(***************************************************************************)
EXTENDS SavePageNow, TLAPS

Errors == CrawlError \cup {"exception"}

-----------------------------------------------------------------------------
(* Rows, answers.                                                          *)

LEMMA RowFields ==
  ASSUME NEW r \in Rows
  PROVE  /\ r.url \in Urls /\ r.digest \in Digests
         /\ KindOf[r.digest] \in Mimetype \cup BadBody
BY ArchiveAssumption DEF CdxRow

LEMMA NoRowIsNone == NoRow \notin Rows
BY ArchiveAssumption DEF CdxRow, NoRow

LEMMA ReturnedIs ==
  ASSUME NEW r \in CrawlResults
  PROVE  /\ Client!Returned(r) \in Client!Answers /\ Client!Returned(r) # Client!Pending
         /\ Client!Returned(r).kind = "returned" /\ Client!Returned(r).result = r
BY DEF Client!Answers, Client!Returned, Client!Pending

LEMMA RaisedIs ==
  ASSUME NEW e \in Errors
  PROVE  /\ Client!Raised(e) \in Client!Answers /\ Client!Raised(e) # Client!Pending
         /\ Client!Raised(e).kind = "raised"
BY DEF Client!Answers, Client!Raised, Client!Pending, Errors

LEMMA PendingIs == Client!Pending \in Client!Answers /\ Client!Pending.kind = "pending"
BY DEF Client!Answers, Client!Pending

LEMMA NotAnswered ==
  ASSUME CallInv, pc # "answered"
  PROVE  answer = Client!Pending /\ answer.kind = "pending"
BY PendingIs DEF CallInv, Answered

Bodies == {"empty"} \cup {KindOf[r.digest] : r \in IF direct THEN {row} ELSE SameSecond(row)}

\* A result that is no hit, an error, a hit.
Missing == /\ pc' = "answered" /\ answer' \in Client!Answers /\ answer' # Client!Pending
           /\ answer'.kind = "returned" /\ ~answer'.result.hit
Erring == /\ pc' = "answered" /\ answer' \in Client!Answers /\ answer' # Client!Pending
          /\ answer'.kind = "raised"
Hitting == /\ pc' = "answered" /\ answer' \in Client!Answers /\ answer' # Client!Pending
           /\ answer'.kind = "returned" /\ answer'.result.terminal = row.url
           /\ answer'.result.body \in Bodies

LEMMA FailMisses ==
  ASSUME NEW terminal \in Urls \cup {NoUrl}, Fail(terminal)
  PROVE  Missing
<1> DEFINE r == [hit |-> FALSE, status |-> "crawl-failed", terminal |-> terminal,
                 old |-> FALSE, body |-> "none"]
<1>1. r \in CrawlResults
  BY DEF CrawlResults
<1>2. ~r.hit
  OBVIOUS
<1>3. pc' = "answered" /\ answer' = Client!Returned(r)
  BY DEF Fail, Return
<1>4. QED
  BY <1>1, <1>2, <1>3, ReturnedIs DEF Missing

LEMMA RaiseErrs ==
  ASSUME NEW e \in Errors, Raise(e) PROVE Erring
BY RaisedIs DEF Raise, Erring

LEMMA BackOffErrs ==
  ASSUME BackOff PROVE Erring
BY RaiseErrs DEF BackOff, Raise, Errors, CrawlError

LEMMA SucceedHits ==
  ASSUME row \in Rows, NEW body \in Bodies,
         Return([hit |-> TRUE, status |-> "success", terminal |-> row.url, old |-> FALSE,
                 body |-> body])
  PROVE  Hitting
<1> DEFINE r == [hit |-> TRUE, status |-> "success", terminal |-> row.url, old |-> FALSE,
                 body |-> body]
<1>1. r \in CrawlResults
  <2>1. \A k \in Rows : KindOf[k.digest] \in Mimetype \cup BadBody
    BY RowFields
  <2>2. body \in Mimetype \cup BadBody
    BY <2>1 DEF Bodies, SameSecond, BadBody
  <2>3. QED
    BY <2>2, RowFields DEF CrawlResults
<1>2. r.terminal = row.url /\ r.body = body
  OBVIOUS
<1>3. pc' = "answered" /\ answer' = Client!Returned(r)
  BY DEF Return
<1>4. QED
  BY <1>1, <1>2, <1>3, ReturnedIs DEF Hitting

-----------------------------------------------------------------------------
(* The service.                                                            *)

\* What any step of the service does to the jobs.
JobsMove ==
  /\ jobs' \in Seq(Job) /\ Len(jobs) <= Len(jobs')
  /\ \A j \in DOMAIN jobs :
       /\ jobs'[j].url = jobs[j].url /\ jobs'[j].mine = jobs[j].mine
       /\ jobs[j].state # "pending" => jobs'[j] = jobs[j]
  /\ \A j \in DOMAIN jobs' : j \notin DOMAIN jobs => ~jobs'[j].mine
  /\ JobsInv'

LEMMA JobsAre ==
  ASSUME TypeOK
  PROVE  /\ Len(jobs) \in Nat /\ DOMAIN jobs = 1 .. Len(jobs)
         /\ \A j \in DOMAIN jobs : jobs[j] \in Job
BY DEF TypeOK

LEMMA NewJobAppends ==
  ASSUME TypeOK, JobsInv, NEW u \in Urls, NEW mine \in BOOLEAN, NewJob(u, mine)
  PROVE  /\ jobs' \in Seq(Job) /\ Len(jobs') = Len(jobs) + 1
         /\ DOMAIN jobs' = 1 .. Len(jobs) + 1
         /\ \A j \in DOMAIN jobs : jobs'[j] = jobs[j]
         /\ jobs'[Len(jobs) + 1].url = u /\ jobs'[Len(jobs) + 1].mine = mine
         /\ jobs'[Len(jobs) + 1].state = "pending" /\ jobs'[Len(jobs) + 1].original = NoJob
         /\ JobsInv'
<1> DEFINE new == [url |-> u, mine |-> mine, state |-> "pending", original |-> NoJob,
                   capture |-> NoRow]
<1>1. new \in Job /\ jobs' = Append(jobs, new)
  BY DEF NewJob, Job, NoJob
<1>2. /\ jobs' \in Seq(Job) /\ Len(jobs') = Len(jobs) + 1
      /\ DOMAIN jobs' = 1 .. Len(jobs) + 1
      /\ \A j \in DOMAIN jobs : jobs'[j] = jobs[j]
      /\ jobs'[Len(jobs) + 1] = new
  BY <1>1 DEF TypeOK
<1>3. JobsInv'
  <2> SUFFICES ASSUME NEW j \in DOMAIN jobs'
               PROVE  /\ jobs'[j].state = "success" /\ jobs'[j].original = NoJob =>
                           jobs'[j].capture \in Rows
                      /\ jobs'[j].original # NoJob =>
                           /\ jobs'[j].state = "success"
                           /\ jobs'[j].original \in DOMAIN jobs'
                           /\ jobs'[jobs'[j].original].url = jobs'[j].url
                           /\ jobs'[jobs'[j].original].original = NoJob
    BY DEF JobsInv
  <2>1. CASE j = Len(jobs) + 1
    BY <1>2, <2>1 DEF NoJob
  <2>2. CASE j # Len(jobs) + 1
    <3>1. j \in DOMAIN jobs
      BY <1>2, <2>2, JobsAre
    <3>2. QED
      BY <1>2, <3>1, JobsAre DEF JobsInv
  <2>3. QED
    BY <2>1, <2>2
<1>4. QED
  BY <1>2, <1>3

LEMMA OthersMove ==
  ASSUME TypeOK, JobsInv, OthersSubmit
  PROVE  JobsMove
<1>1. PICK u \in Urls : NewJob(u, FALSE)
  BY SavePageNowAssumption DEF OthersSubmit
<1>2. /\ jobs' \in Seq(Job) /\ Len(jobs') = Len(jobs) + 1
      /\ DOMAIN jobs' = 1 .. Len(jobs) + 1
      /\ \A j \in DOMAIN jobs : jobs'[j] = jobs[j]
      /\ ~jobs'[Len(jobs) + 1].mine /\ JobsInv'
  BY <1>1, NewJobAppends
<1>3. QED
  BY <1>2, JobsAre DEF JobsMove

\* A job ends, with a capture, an error, or as one that was made already.
JobEnds(j, new) ==
  /\ new \in Job /\ new.url = jobs[j].url /\ new.mine = jobs[j].mine
  /\ new.state = "success" /\ new.original = NoJob => new.capture \in Rows
  /\ new.original # NoJob =>
       /\ new.state = "success" /\ new.original \in DOMAIN jobs /\ new.original # j
       /\ jobs[new.original].url = new.url /\ jobs[new.original].original = NoJob
       /\ \A k \in DOMAIN jobs : jobs[k].original # j

LEMMA EndMoves ==
  ASSUME TypeOK, JobsInv, NEW j \in Running, NEW new, JobEnds(j, new),
         jobs' = [jobs EXCEPT ![j] = new]
  PROVE  JobsMove
<1>1. j \in DOMAIN jobs /\ jobs[j].state = "pending"
  BY DEF Running
<1>2. /\ jobs' \in Seq(Job) /\ Len(jobs') = Len(jobs) /\ DOMAIN jobs' = DOMAIN jobs
      /\ jobs'[j] = new /\ \A k \in DOMAIN jobs : k # j => jobs'[k] = jobs[k]
  BY <1>1 DEF TypeOK, JobEnds
<1>3. JobsInv'
  <2> SUFFICES ASSUME NEW k \in DOMAIN jobs
               PROVE  /\ jobs'[k].state = "success" /\ jobs'[k].original = NoJob =>
                           jobs'[k].capture \in Rows
                      /\ jobs'[k].original # NoJob =>
                           /\ jobs'[k].state = "success"
                           /\ jobs'[k].original \in DOMAIN jobs
                           /\ jobs'[jobs'[k].original].url = jobs'[k].url
                           /\ jobs'[jobs'[k].original].original = NoJob
    BY <1>2 DEF JobsInv
  <2>1. CASE k = j
    BY <1>2, <2>1 DEF JobEnds
  <2>2. CASE k # j
    <3>1. jobs'[k] = jobs[k]
      BY <1>2, <2>2
    <3>2. CASE jobs[k].original = NoJob
      BY <3>1, <3>2 DEF JobsInv
    <3>3. CASE jobs[k].original # NoJob /\ jobs[k].original # j
      BY <1>2, <3>1, <3>3 DEF JobsInv
    <3>4. CASE jobs[k].original # NoJob /\ jobs[k].original = j
      <4>1. new.original = NoJob /\ new.url = jobs[j].url
        BY <3>4 DEF JobEnds
      <4>2. QED
        BY <1>1, <1>2, <3>1, <3>4, <4>1 DEF JobsInv
    <3>5. QED
      BY <3>2, <3>3, <3>4
  <2>3. QED
    BY <2>1, <2>2
<1>4. QED
  BY <1>1, <1>2, <1>3, JobsAre DEF JobsMove, JobEnds

LEMMA JobMoves ==
  ASSUME TypeOK, JobsInv, NEW j \in DOMAIN jobs, JobStep(j)
  PROVE  JobsMove
<1>1. j \in Running /\ jobs[j] \in Job /\ jobs[j].state = "pending"
  BY JobsAre DEF JobStep, CrawlSucceeds, CrawlFails, RecentCapture, Running
<1>2. jobs[j].original = NoJob
  BY <1>1 DEF JobsInv
<1>3. CASE CrawlSucceeds(j)
  <2>1. PICK r \in Rows : jobs' = [jobs EXCEPT ![j].state = "success", ![j].capture = r]
    BY <1>3 DEF CrawlSucceeds
  <2> DEFINE new == [jobs[j] EXCEPT !.state = "success", !.capture = r]
  <2>2. jobs' = [jobs EXCEPT ![j] = new]
    BY <1>1, <2>1
  <2>3. JobEnds(j, new)
    BY <1>1, <1>2 DEF JobEnds, Job
  <2>4. QED
    BY <1>1, <2>2, <2>3, EndMoves
<1>4. CASE CrawlFails(j)
  <2>1. PICK e \in {"error", "session-limit"} : jobs' = [jobs EXCEPT ![j].state = e]
    BY <1>4 DEF CrawlFails
  <2> DEFINE new == [jobs[j] EXCEPT !.state = e]
  <2>2. jobs' = [jobs EXCEPT ![j] = new]
    BY <1>1, <2>1
  <2>3. JobEnds(j, new)
    BY <1>1, <1>2 DEF JobEnds, Job
  <2>4. QED
    BY <1>1, <2>2, <2>3, EndMoves
<1>5. CASE RecentCapture(j)
  <2>1. PICK i \in 1 .. j - 1 :
          /\ jobs[i].url = jobs[j].url /\ jobs[i].original = NoJob
          /\ jobs' = [jobs EXCEPT ![j].state = "success", ![j].original = i]
    BY <1>5 DEF RecentCapture
  <2> DEFINE new == [jobs[j] EXCEPT !.state = "success", !.original = i]
  <2>2. jobs' = [jobs EXCEPT ![j] = new]
    BY <1>1, <2>1
  <2>3. i \in DOMAIN jobs /\ i # j /\ i \in Nat
    BY <2>1, JobsAre
  <2>4. new \in Job /\ new.url = jobs[j].url /\ new.mine = jobs[j].mine
        /\ new.state = "success" /\ new.original = i
    BY <1>1, <2>3 DEF Job
  <2>5. JobEnds(j, new)
    BY <1>5, <2>1, <2>3, <2>4 DEF JobEnds, NoJob, RecentCapture
  <2>6. QED
    BY <1>1, <2>2, <2>5, EndMoves
<1>6. QED
  BY <1>3, <1>4, <1>5 DEF JobStep

LEMMA ServicePreserves ==
  ASSUME IInv, JobsMove, pc # "answered", UNCHANGED <<old, callVars>>
  PROVE  IInv'
<1> USE DEF IInv
<1>1. UNCHANGED <<old, url, pc, job, final, polls, sleep, row, direct, answer>>
  BY DEF callVars, jobVars, rowVars
<1>2. TypeOK'
  BY <1>1, JobsAre DEF TypeOK, JobsMove
<1>3. DOMAIN jobs = 1 .. Len(jobs) /\ DOMAIN jobs' = 1 .. Len(jobs') /\ Len(jobs) <= Len(jobs')
      /\ Len(jobs) \in Nat /\ Len(jobs') \in Nat
  BY JobsAre, <1>2 DEF JobsMove, TypeOK
<1>4. JobInv'
  <2>1. \A j \in DOMAIN jobs' : jobs'[j].mine => j \in DOMAIN jobs /\ jobs[j].mine
    BY <1>3 DEF JobsMove
  <2>2. /\ pc' \in {"start", "submit"} => job' = NoJob /\ \A j \in DOMAIN jobs' : ~jobs'[j].mine
        /\ answer'.kind # "raised" => \A j \in DOMAIN jobs' : jobs'[j].mine => j = job'
    BY <1>1, <2>1, NotAnswered DEF JobInv
  <2>3. /\ pc' \in {"start", "submit", "poll"} => final' = NoJob
        /\ pc' \in {"start", "submit", "poll"} => polls' < PollCount
    BY <1>1 DEF JobInv
  <2>4. job # NoJob => job \in DOMAIN jobs
    BY <1>3 DEF TypeOK, NoJob
  <2>5. pc' \notin {"start", "submit", "answered"} =>
          job' # NoJob /\ jobs'[job'].mine /\ jobs'[job'].url = url'
    BY <1>1, <2>4 DEF JobInv, JobsMove
  <2>6. /\ pc' = "original" => jobs'[job'].original # NoJob /\ final' = job'
        /\ pc' \in {"original", "finished", "elsevier", "cdx", "cdx-200", "body"} =>
             jobs'[job'].state # "pending"
    BY <1>1, <2>4 DEF JobInv, JobsMove
  <2>7. QED
    BY <2>2, <2>3, <2>5, <2>6 DEF JobInv
<1>5. FinalInv'
  <2>1. CASE pc = "original"
    BY <1>1, <1>3, <2>1 DEF FinalInv, JobInv, JobsMove, TypeOK, NoJob
  <2>2. CASE pc \in {"finished", "elsevier", "cdx", "cdx-200", "body"}
    BY <1>1, <1>3, <2>2 DEF FinalInv, JobsMove, TypeOK, NoJob
  <2>3. QED
    BY <1>1, <2>1, <2>2 DEF FinalInv
<1>6. CallInv'
  <2>1. answer' = Client!Pending /\ answer'.kind = "pending"
    BY <1>1, NotAnswered
  <2>2. ~IsHit' /\ ~Answered'
    BY <1>1, <2>1 DEF IsHit, Answered
  <2>3. pc = "body" => final \in DOMAIN jobs /\ jobs'[final] = jobs[final]
    BY <1>3 DEF FinalInv, JobsMove, TypeOK, NoJob
  <2>4. (pc = "body" => RowIsOfFinal)'
    BY <1>1, <2>3 DEF CallInv, RowIsOfFinal, Capture
  <2>5. QED
    BY <2>1, <2>2, <2>4 DEF CallInv, HitIsOfThisCrawl, NoJobLeftBehind
<1>7. QED
  BY <1>2, <1>4, <1>5, <1>6 DEF JobsMove

-----------------------------------------------------------------------------
(* Steps of the call that answer.                                          *)

Ends ==
  /\ pc # "answered"
  /\ UNCHANGED <<serviceVars, url, job, rowVars>>
  /\ final' \in 0 .. Len(jobs) /\ polls' \in 0 .. PollCount
  /\ \/ Missing /\ pc # "poll"
     \/ Erring
     \/ Hitting /\ pc = "body" /\ final' = final

LEMMA EndsPreserves ==
  ASSUME IInv, Ends
  PROVE  IInv'
<1> USE DEF IInv
<1>1. /\ UNCHANGED <<jobs, old, url, job, sleep, row, direct>> /\ pc' = "answered"
      /\ answer' \in Client!Answers /\ answer' # Client!Pending
  BY DEF Ends, serviceVars, rowVars, Missing, Erring, Hitting
<1>2. TypeOK'
  BY <1>1 DEF TypeOK, Ends, PC
<1>3. JobsInv'
  BY <1>1 DEF JobsInv
<1>4. answer.kind = "pending" /\ \A j \in DOMAIN jobs : jobs[j].mine => j = job
  BY NotAnswered DEF JobInv, Ends
<1>5. JobInv' /\ FinalInv'
  BY <1>1, <1>4 DEF JobInv, FinalInv
<1>6. HitIsOfThisCrawl'
  <2>1. CASE Missing \/ Erring
    BY <2>1 DEF HitIsOfThisCrawl, IsHit, Missing, Erring
  <2>2. CASE Hitting /\ pc = "body" /\ final' = final
    <3>1. jobs[job].mine /\ jobs[final].url = url /\ jobs[final].state = "success"
      BY <2>2 DEF JobInv, FinalInv
    <3>2. RowIsOfFinal
      BY <2>2 DEF CallInv
    <3>3. answer'.result.terminal = row'.url /\ answer'.result.body \in Bodies'
      BY <1>1, <2>2 DEF Hitting, Bodies
    <3>4. QED
      BY <1>1, <2>2, <3>1, <3>2, <3>3 DEF HitIsOfThisCrawl, RowIsOfFinal, Capture, Bodies
  <2>3. QED
    BY <2>1, <2>2 DEF Ends
<1>7. NoJobLeftBehind'
  <2>1. CASE answer'.kind = "returned"
    <3>1. pc # "poll"
      BY <2>1 DEF Ends, Erring
    <3>2. CASE pc \in {"start", "submit"}
      BY <1>1, <3>2 DEF NoJobLeftBehind, Running, JobInv
    <3>3. CASE pc \notin {"start", "submit"}
      <4>1. jobs[job].state # "pending"
        BY <3>1, <3>3 DEF JobInv, TypeOK, PC, Ends
      <4>2. QED
        BY <1>1, <1>4, <4>1 DEF NoJobLeftBehind, Running
    <3>4. QED
      BY <3>2, <3>3
  <2>2. QED
    BY <2>1 DEF NoJobLeftBehind
<1>8. CallInv'
  BY <1>1, <1>6, <1>7 DEF CallInv, Answered, Ends
<1>9. QED
  BY <1>2, <1>3, <1>5, <1>8

\* Which job is looked at, by pc.
LEMMA JobsOfCall ==
  ASSUME IInv
  PROVE  /\ pc \notin {"start", "submit", "answered"} => job \in DOMAIN jobs
         /\ pc \in {"finished", "elsevier", "cdx", "cdx-200", "body"} => final \in DOMAIN jobs
         /\ pc \in {"start", "submit", "poll"} => final = NoJob
         /\ pc \in {"original", "elsevier", "cdx", "cdx-200", "body"} =>
              jobs[final].state = "success"
         /\ pc \in {"finished", "elsevier", "cdx", "cdx-200", "body"}
              /\ jobs[final].state = "success" => Capture \in Rows
BY JobsAre DEF IInv, TypeOK, JobsInv, JobInv, FinalInv, NoJob, Capture

LEMMA EndStep ==
  ASSUME IInv,
         \/ NoFtp \/ CheckAvailability \/ SubmitRefused \/ SubmitRejected
         \/ PollPending \/ ReadOriginal \/ PollFails
         \/ CrawlFailed \/ SkipTerminal \/ FetchMisses \/ FetchRow \/ CdxFails \/ FetchBody
         \/ BodyFails,
         pc' = "answered"
  PROVE  Ends
<1> USE DEF Ends, jobVars
<1>1. /\ final \in 0 .. Len(jobs) /\ polls \in 0 .. PollCount
  BY DEF IInv, TypeOK
<1>2. CASE NoFtp
  BY <1>1, <1>2, FailMisses, JobsOfCall DEF NoFtp
<1>3. CASE CheckAvailability
  <2>1. BackOff \/ \E e \in {"spn2-error", "exception"} : Raise(e)
    BY <1>3 DEF CheckAvailability, Go
  <2>2. CASE BackOff
    BY <1>1, <1>3, <2>2, BackOffErrs DEF CheckAvailability
  <2>3. CASE \E e \in {"spn2-error", "exception"} : Raise(e)
    BY <1>1, <1>3, <2>3, RaiseErrs DEF CheckAvailability, Errors, CrawlError
  <2>4. QED
    BY <2>1, <2>2, <2>3
<1>4. CASE SubmitRefused
  BY <1>1, <1>4, BackOffErrs DEF SubmitRefused
<1>5. CASE SubmitRejected
  BY <1>1, <1>5, FailMisses, JobsOfCall DEF SubmitRejected
<1>6. CASE PollPending
  <2>1. Raise("spn2-error") /\ polls' \in 0 .. PollCount
    BY <1>6, SavePageNowAssumption DEF PollPending, IInv, TypeOK, JobInv
  <2>2. QED
    BY <1>1, <1>6, <2>1, RaiseErrs, JobsOfCall DEF PollPending, Errors, CrawlError
<1>7. CASE ReadOriginal
  <2>1. Fail(NoUrl) /\ jobs[jobs[job].original].state = "pending" /\ final' = jobs[job].original
    BY <1>7 DEF ReadOriginal, Go
  <2>2. job \in DOMAIN jobs /\ jobs[job].original # NoJob
    BY <1>7, JobsOfCall DEF ReadOriginal, IInv, JobInv
  <2>3. final' \in 0 .. Len(jobs)
    BY <2>1, <2>2, JobsAre DEF IInv, JobsInv
  <2>4. QED
    BY <1>1, <1>7, <2>1, <2>3, FailMisses DEF ReadOriginal
<1>8. CASE PollFails
  BY <1>1, <1>8, RaiseErrs, JobsOfCall DEF PollFails, Errors, CrawlError
<1>9. CASE CrawlFailed
  <2>1. CASE jobs[final].state = "error" /\ Fail(NoUrl)
    BY <1>1, <1>9, <2>1, FailMisses DEF CrawlFailed
  <2>2. CASE BackOff
    BY <1>1, <1>9, <2>2, BackOffErrs DEF CrawlFailed
  <2>3. QED
    BY <1>9, <2>1, <2>2 DEF CrawlFailed
<1>10. CASE SkipTerminal
  <2>1. Capture.url \in Urls
    BY <1>10, JobsOfCall, RowFields DEF SkipTerminal
  <2>2. QED
    BY <1>1, <1>10, <2>1, FailMisses DEF SkipTerminal
<1>11. CASE FetchMisses
  <2>1. Capture.url \in Urls
    BY <1>11, JobsOfCall, RowFields DEF FetchMisses
  <2>2. QED
    BY <1>1, <1>11, <2>1, FailMisses, JobsOfCall DEF FetchMisses
<1>12. CASE FetchRow
  <2>1. Raise("exception") /\ UNCHANGED rowVars /\ pc \in {"cdx", "cdx-200"}
    BY <1>12 DEF FetchRow, Go
  <2>2. QED
    BY <1>1, <1>12, <2>1, RaiseErrs, JobsOfCall DEF FetchRow, Errors
<1>13. CASE CdxFails
  BY <1>1, <1>13, RaiseErrs, JobsOfCall DEF CdxFails, Errors, CrawlError, LookupError
<1>14. CASE FetchBody
  <2>0. row \in Rows /\ row.url \in Urls
    BY <1>14, RowFields DEF FetchBody, IInv, CallInv, RowIsOfFinal
  <2>1. CASE row.status \in Good
    <3>1. Body \subseteq Bodies
      BY DEF Body, Bodies
    <3>2. Hitting
      BY <1>14, <2>0, <2>1, <3>1, SucceedHits DEF FetchBody
    <3>3. QED
      BY <1>1, <1>14, <3>2 DEF FetchBody
  <2>2. CASE row.status \notin Good
    BY <1>1, <1>14, <2>0, <2>2, FailMisses, RaiseErrs, JobsOfCall DEF FetchBody, Errors
  <2>3. QED
    BY <2>1, <2>2
<1>15. CASE BodyFails
  <2>1. row.url \in Urls
    BY <1>15, RowFields DEF BodyFails, IInv, CallInv, RowIsOfFinal
  <2>2. Missing \/ Erring
    BY <1>15, <2>1, FailMisses, RaiseErrs DEF BodyFails, Errors, CrawlError
  <2>3. QED
    BY <1>1, <1>15, <2>2, JobsOfCall DEF BodyFails
<1>16. QED
  BY <1>2, <1>3, <1>4, <1>5, <1>6, <1>7, <1>8, <1>9, <1>10, <1>11, <1>12, <1>13, <1>14, <1>15

-----------------------------------------------------------------------------
(* Steps of the call that go on.                                           *)

Goes ==
  /\ pc # "answered" /\ pc' \in PC \ {"answered"}
  /\ UNCHANGED <<serviceVars, url, job, answer>>
  /\ final' \in 0 .. Len(jobs) /\ polls' \in 0 .. PollCount /\ sleep' \in 0 .. CdxRetrySec
  /\ row' \in Rows \cup {NoRow} /\ direct' \in BOOLEAN
  /\ JobInv' /\ FinalInv' /\ (pc' = "body" => RowIsOfFinal')

LEMMA PendingCallInv ==
  ASSUME answer' = Client!Pending, pc' # "answered", pc' = "body" => RowIsOfFinal'
  PROVE  CallInv'
BY PendingIs DEF CallInv, HitIsOfThisCrawl, IsHit, Answered, NoJobLeftBehind

LEMMA GoesPreserves ==
  ASSUME IInv, Goes
  PROVE  IInv'
<1> USE DEF IInv
<1>1. answer = Client!Pending
  BY NotAnswered DEF Goes
<1>2. CallInv'
  BY <1>1, PendingCallInv DEF Goes
<1>3. TypeOK'
  BY DEF TypeOK, Goes, serviceVars
<1>4. JobsInv'
  BY DEF JobsInv, Goes, serviceVars
<1>5. QED
  BY <1>2, <1>3, <1>4 DEF Goes

LEMMA PollsGo ==
  ASSUME IInv, CheckAvailability \/ PollPending \/ PollDone \/ ReadOriginal, pc' # "answered"
  PROVE  Goes
<1> USE DEF IInv
<1>1. /\ TypeOK /\ UNCHANGED <<jobs, old, url, job, sleep, row, direct>>
      /\ pc # "answered" /\ answer = Client!Pending /\ answer.kind = "pending"
  <2>1. UNCHANGED <<jobs, old, url, job, sleep, row, direct>> /\ pc # "answered"
    BY DEF CheckAvailability, PollPending, PollDone, ReadOriginal, serviceVars, jobVars, rowVars
  <2>2. QED
    BY <2>1, NotAnswered
<1>2. CASE CheckAvailability
  <2>1. pc = "start" /\ pc' = "submit" /\ UNCHANGED <<answer, final, polls>>
    BY <1>2 DEF CheckAvailability, Go, BackOff, Raise, jobVars
  <2>2. JobInv' /\ FinalInv'
    BY <1>1, <2>1 DEF JobInv, FinalInv
  <2>3. QED
    BY <1>1, <2>1, <2>2 DEF Goes, TypeOK, serviceVars, PC
<1>3. CASE PollPending
  <2>1. /\ pc = "poll" /\ pc' = "poll" /\ UNCHANGED <<answer, final>>
        /\ polls' = polls + 1 /\ polls' < PollCount /\ polls \in Nat
    BY <1>1, <1>3 DEF PollPending, Raise, TypeOK
  <2>2. JobInv' /\ FinalInv'
    BY <1>1, <2>1 DEF JobInv, FinalInv
  <2>3. polls' \in 0 .. PollCount
    BY <2>1, SavePageNowAssumption
  <2>4. QED
    BY <1>1, <2>1, <2>2, <2>3 DEF Goes, TypeOK, serviceVars, PC
<1>4. CASE PollDone
  <2>1. /\ pc = "poll" /\ jobs[job].state # "pending" /\ final' = job
        /\ pc' = (IF jobs[job].original = NoJob THEN "finished" ELSE "original")
        /\ UNCHANGED <<answer, polls>>
    BY <1>4 DEF PollDone, Go
  <2>2. job \in DOMAIN jobs /\ job # NoJob /\ jobs[job].mine /\ jobs[job].url = url
    BY <2>1, JobsOfCall DEF JobInv
  <2>3. JobInv'
    BY <1>1, <2>1, <2>2 DEF JobInv
  <2>4. FinalInv'
    BY <1>1, <2>1, <2>2 DEF FinalInv, JobsInv
  <2>5. QED
    BY <1>1, <2>1, <2>3, <2>4 DEF Goes, TypeOK, serviceVars, PC
<1>5. CASE ReadOriginal
  <2>1. /\ pc = "original" /\ final' = jobs[job].original /\ pc' = "finished"
        /\ jobs[jobs[job].original].state # "pending"
        /\ UNCHANGED <<answer, polls>>
    BY <1>5 DEF ReadOriginal, Go, Fail, Return
  <2>2. /\ job \in DOMAIN jobs /\ jobs[job].original # NoJob
        /\ jobs[job].mine /\ jobs[job].url = url /\ job # NoJob
    BY <2>1, JobsOfCall DEF JobInv
  <2>3. JobInv'
    BY <1>1, <2>1, <2>2 DEF JobInv
  <2>4. FinalInv' /\ final' \in 0 .. Len(jobs)
    BY <1>1, <2>1, <2>2, JobsAre DEF FinalInv, JobsInv
  <2>5. QED
    BY <1>1, <2>1, <2>3, <2>4 DEF Goes, TypeOK, serviceVars, PC
<1>6. QED
  BY <1>2, <1>3, <1>4, <1>5

LEMMA CdxGoes ==
  ASSUME IInv, BeginCdx \/ LookupElsevier \/ FetchAgain \/ FetchRow, pc' # "answered"
  PROVE  Goes
<1> USE DEF IInv
<1>1. /\ TypeOK /\ UNCHANGED <<jobs, old, url, job, final, polls, answer>>
      /\ pc \in {"finished", "elsevier", "cdx", "cdx-200"}
      /\ pc' \in {"elsevier", "cdx", "cdx-200", "body"}
      /\ answer = Client!Pending /\ answer.kind = "pending"
      /\ jobs[final].state = "success"
      /\ pc' = "elsevier" => url \in SciencedirectUrls
  <2>1. /\ UNCHANGED <<jobs, old, url, job, final, polls>>
        /\ pc \in {"finished", "elsevier", "cdx", "cdx-200"}
        /\ pc = "finished" => jobs[final].state = "success"
    BY DEF BeginCdx, LookupElsevier, FetchAgain, FetchRow, serviceVars, jobVars
  <2>2. UNCHANGED answer /\ pc' \in {"elsevier", "cdx", "cdx-200", "body"}
    BY <2>1 DEF BeginCdx, LookupElsevier, FetchAgain, FetchRow, Go, Raise
  <2>3. pc' = "elsevier" => url \in SciencedirectUrls
    BY <2>1 DEF BeginCdx, LookupElsevier, FetchAgain, FetchRow, Go, Raise
  <2>4. QED
    BY <2>1, <2>2, <2>3, NotAnswered DEF FinalInv
<1>2. JobInv' /\ FinalInv'
  BY <1>1 DEF JobInv, FinalInv
<1>3. final \in DOMAIN jobs /\ Capture \in Rows
  BY <1>1, JobsOfCall
<1>4. sleep' \in 0 .. CdxRetrySec
  BY <1>1, SavePageNowAssumption
     DEF BeginCdx, LookupElsevier, FetchAgain, FetchRow, NextSleep, TypeOK, rowVars
<1>5. CASE UNCHANGED <<row, direct>> /\ pc' # "body"
  BY <1>1, <1>2, <1>4, <1>5 DEF Goes, TypeOK, serviceVars, PC
<1>6. ASSUME NEW r \in Rows, TakeRow(r), pc' = "body",
             \/ r.dt = Capture.dt /\ FuzzyMatch(r, Capture.url)
             \/ url \in SciencedirectUrls /\ r.mimetype = "pdf" /\ SurtOf[r.url] = SurtOf[url]
      PROVE  Goes
  <2>1. row' = r /\ direct' \in BOOLEAN
    BY <1>6 DEF TakeRow
  <2>2. RowIsOfFinal'
    BY <1>1, <1>6, <2>1 DEF RowIsOfFinal, Capture
  <2>3. QED
    BY <1>1, <1>2, <1>4, <2>1, <2>2 DEF Goes, TypeOK, serviceVars, PC
<1>7. Captured \subseteq Rows
  BY SavePageNowAssumption DEF Captured, SameSecond, TypeOK
<1>8. CASE BeginCdx \/ FetchAgain
  BY <1>1, <1>5, <1>8 DEF BeginCdx, FetchAgain, Go
<1>9. CASE LookupElsevier
  <2>1. pc = "elsevier" /\ url \in SciencedirectUrls
    BY <1>9 DEF LookupElsevier, FinalInv
  <2>2. PICK index \in SUBSET Captured, uploaded \in SUBSET Captured :
          \/ \E r \in BestOf(QueryApi(index, url, 0), url, "pdf", 0, uploaded) :
               r.mimetype = "pdf" /\ TakeRow(r) /\ Go("body")
          \/ Go("cdx") /\ UNCHANGED <<row, direct>>
    BY <1>9 DEF LookupElsevier
  <2>3. CASE \E r \in BestOf(QueryApi(index, url, 0), url, "pdf", 0, uploaded) :
               r.mimetype = "pdf" /\ TakeRow(r) /\ Go("body")
    <3>1. PICK r \in BestOf(QueryApi(index, url, 0), url, "pdf", 0, uploaded) :
            r.mimetype = "pdf" /\ TakeRow(r) /\ Go("body")
      BY <2>3
    <3>2. r \in Rows /\ SurtOf[r.url] = SurtOf[url]
      BY <1>7, <3>1 DEF BestOf, QueryApi, Matching
    <3>3. QED
      BY <1>6, <2>1, <3>1, <3>2 DEF Go
  <2>4. CASE Go("cdx") /\ UNCHANGED <<row, direct>>
    BY <1>5, <2>4 DEF Go
  <2>5. QED
    BY <2>2, <2>3, <2>4
<1>10. CASE FetchRow
  <2>1. PICK r \in Found :
          /\ RowMatches(r)
          /\ \/ Go("cdx-200") /\ UNCHANGED <<row, direct>>
             \/ TakeRow(r) /\ Go("body")
    BY <1>1, <1>10 DEF FetchRow, Raise
  <2>2. r \in Rows /\ r.dt = Capture.dt /\ FuzzyMatch(r, Capture.url)
    BY <1>7, <2>1 DEF Found, FetchRows, Matching, RowMatches
  <2>3. QED
    BY <1>5, <1>6, <2>1, <2>2 DEF Go
<1>11. QED
  BY <1>8, <1>9, <1>10

LEMMA SubmitPreserves ==
  ASSUME IInv, Submit
  PROVE  IInv'
<1> USE DEF IInv
<1>1. /\ pc = "submit" /\ pc' = "poll" /\ job' = Len(jobs) + 1 /\ NewJob(url, TRUE)
      /\ UNCHANGED <<old, url, final, polls, sleep, row, direct, answer>>
  BY DEF Submit, Go, rowVars
<1>2. url \in Urls
  BY SavePageNowAssumption DEF TypeOK
<1>3. /\ jobs' \in Seq(Job) /\ Len(jobs') = Len(jobs) + 1
      /\ DOMAIN jobs' = 1 .. Len(jobs) + 1 /\ DOMAIN jobs = 1 .. Len(jobs) /\ Len(jobs) \in Nat
      /\ \A j \in DOMAIN jobs : jobs'[j] = jobs[j]
      /\ jobs'[Len(jobs) + 1].url = url /\ jobs'[Len(jobs) + 1].mine
      /\ JobsInv'
  BY <1>1, <1>2, NewJobAppends, JobsAre
<1>4. answer = Client!Pending /\ answer.kind = "pending"
  BY <1>1, NotAnswered
<1>5. CallInv'
  BY <1>1, <1>4, PendingCallInv
<1>6. TypeOK'
  BY <1>1, <1>3 DEF TypeOK, PC
<1>7. JobInv'
  <2>1. \A j \in DOMAIN jobs' : jobs'[j].mine => j = job'
    BY <1>1, <1>3 DEF JobInv
  <2>2. QED
    BY <1>1, <1>3, <2>1 DEF JobInv, NoJob
<1>8. FinalInv'
  BY <1>1 DEF FinalInv
<1>9. QED
  BY <1>3, <1>5, <1>6, <1>7, <1>8

\* The job may have been started all the same, when the call only raises.
LEMMA SubmitFailsPreserves ==
  ASSUME IInv, SubmitFails
  PROVE  IInv'
<1> USE DEF IInv
<1>1. /\ pc = "submit" /\ (NewJob(url, TRUE) \/ UNCHANGED jobs)
      /\ UNCHANGED <<old, url, job, final, polls, sleep, row, direct>>
  BY DEF SubmitFails, jobVars, rowVars
<1>2. Erring
  BY RaiseErrs DEF SubmitFails, Errors, CrawlError
<1>3. final = NoJob  /\ url \in Urls
  BY <1>1, NotAnswered, SavePageNowAssumption DEF JobInv, TypeOK
<1>4. jobs' \in Seq(Job) /\ Len(jobs') \in Nat /\ Len(jobs) <= Len(jobs') /\ JobsInv'
  <2>1. CASE NewJob(url, TRUE)
    <3>1. jobs' \in Seq(Job) /\ Len(jobs') = Len(jobs) + 1 /\ JobsInv'
      BY <1>3, <2>1, NewJobAppends
    <3>2. QED
      BY <3>1, JobsAre
  <2>2. CASE UNCHANGED jobs
    BY <2>2, JobsAre DEF TypeOK, JobsInv
  <2>3. QED
    BY <1>1, <2>1, <2>2
<1>5. TypeOK'
  BY <1>1, <1>2, <1>4, JobsAre DEF TypeOK, PC, Erring
<1>6. JobInv' /\ FinalInv'
  BY <1>2 DEF JobInv, FinalInv, Erring
<1>7. CallInv'
  BY <1>1, <1>2, <1>3
     DEF CallInv, HitIsOfThisCrawl, IsHit, Answered, NoJobLeftBehind, Erring
<1>8. QED
  BY <1>4, <1>5, <1>6, <1>7

-----------------------------------------------------------------------------
(* The invariant.                                                          *)

LEMMA CallPreserves ==
  ASSUME IInv, CallStep
  PROVE  IInv'
<1>1. \/ Submit \/ SubmitFails
      \/ /\ \/ NoFtp \/ CheckAvailability \/ SubmitRefused \/ SubmitRejected
            \/ PollPending \/ ReadOriginal \/ PollFails
            \/ CrawlFailed \/ SkipTerminal \/ FetchMisses \/ FetchRow \/ CdxFails \/ FetchBody
            \/ BodyFails
         /\ pc' = "answered"
      \/ /\ \/ CheckAvailability \/ PollPending \/ PollDone \/ ReadOriginal
            \/ BeginCdx \/ LookupElsevier \/ FetchAgain \/ FetchRow
         /\ pc' # "answered"
  <2>1. NoFtp \/ SubmitRejected \/ SkipTerminal \/ FetchMisses => pc' = "answered"
    BY DEF NoFtp, SubmitRejected, SkipTerminal, FetchMisses, Fail, Return
  <2>2. SubmitRefused \/ PollFails \/ CdxFails => pc' = "answered"
    BY DEF SubmitRefused, PollFails, CdxFails, BackOff, Raise
  <2>3. CrawlFailed \/ FetchBody \/ BodyFails => pc' = "answered"
    BY DEF CrawlFailed, FetchBody, BodyFails, BackOff, Fail, Return, Raise
  <2>4. PollDone => pc' # "answered"
    BY DEF PollDone, Go
  <2>5. BeginCdx \/ LookupElsevier \/ FetchAgain => pc' # "answered"
    BY DEF BeginCdx, LookupElsevier, FetchAgain, Go
  <2>6. QED
    BY <2>1, <2>2, <2>3, <2>4, <2>5 DEF CallStep
<1>2. QED
  BY <1>1, SubmitPreserves, SubmitFailsPreserves, EndStep, EndsPreserves, PollsGo, CdxGoes,
     GoesPreserves

LEMMA StutterPreserves ==
  ASSUME IInv, UNCHANGED vars
  PROVE  IInv'
<1>1. UNCHANGED <<jobs, old, url, pc, job, final, polls, sleep, row, direct, answer>>
  BY DEF vars, serviceVars, callVars, jobVars, rowVars
<1>2. TypeOK' /\ JobsInv' /\ JobInv' /\ FinalInv'
  BY <1>1 DEF IInv, TypeOK, JobsInv, JobInv, FinalInv
<1>3. CallInv'
  BY <1>1 DEF IInv, CallInv, Answered, RowIsOfFinal, Capture, HitIsOfThisCrawl, IsHit,
              NoJobLeftBehind, Running
<1>4. QED
  BY <1>2, <1>3 DEF IInv

LEMMA StepPreserves ==
  ASSUME IInv, [Next]_vars
  PROVE  IInv'
<1>1. CASE CallStep
  BY <1>1, CallPreserves
<1>2. CASE OthersSubmit
  BY <1>2, OthersMove, ServicePreserves DEF OthersSubmit, InCall, IInv
<1>3. CASE \E j \in DOMAIN jobs : JobStep(j)
  <2>1. PICK j \in DOMAIN jobs : JobStep(j)
    BY <1>3
  <2>2. JobsMove
    BY <2>1, JobMoves DEF IInv
  <2>3. pc # "answered" /\ UNCHANGED <<old, callVars>>
    BY <2>1 DEF JobStep, CrawlSucceeds, CrawlFails, RecentCapture, InCall
  <2>4. QED
    BY <2>2, <2>3, ServicePreserves
<1>4. CASE UNCHANGED vars
  BY <1>4, StutterPreserves
<1>5. QED
  BY <1>1, <1>2, <1>3, <1>4 DEF Next

LEMMA InitEstablishes ==
  ASSUME Init
  PROVE  IInv
<1>1. /\ jobs = <<>> /\ DOMAIN jobs = {} /\ pc = "start" /\ job = 0 /\ final = 0 /\ polls = 0
      /\ answer = Client!Pending /\ answer.kind = "pending"
  BY PendingIs DEF Init, NoJob
<1>2. TypeOK
  <2>1. jobs \in Seq(Job) /\ Len(jobs) = 0
    BY <1>1
  <2>2. polls \in 0 .. PollCount /\ sleep \in 0 .. CdxRetrySec
    BY SavePageNowAssumption DEF Init
  <2>3. job \in 0 .. Len(jobs) /\ final \in 0 .. Len(jobs)
    BY <1>1, <2>1
  <2>4. row \in Rows \cup {NoRow} /\ direct \in BOOLEAN /\ old \subseteq OldRows
    BY DEF Init
  <2>5. QED
    BY <1>1, <2>1, <2>2, <2>3, <2>4, PendingIs DEF Init, TypeOK, PC
<1>3. JobsInv /\ FinalInv
  BY <1>1 DEF JobsInv, FinalInv
<1>4. JobInv
  BY <1>1, SavePageNowAssumption DEF JobInv, NoJob
<1>5. CallInv
  BY <1>1 DEF CallInv, Answered, HitIsOfThisCrawl, IsHit, NoJobLeftBehind
<1>6. QED
  BY <1>2, <1>3, <1>4, <1>5 DEF IInv

\* The inductive invariant of crawl_resource: what it knows of its job and of the one whose
\* capture it looks up, while the service goes on.
THEOREM CrawlInductive == Spec => []IInv
<1>1. Init => IInv
  BY InitEstablishes
<1>2. IInv /\ [Next]_vars => IInv'
  BY StepPreserves
<1>3. QED
  BY <1>1, <1>2, PTL DEF Spec

-----------------------------------------------------------------------------
(* The properties.                                                         *)

\* The variables of crawl_resource and the jobs of the service keep their types.
THEOREM CrawlTypeCorrect == Spec => []TypeOK
<1>1. IInv => TypeOK
  BY DEF IInv
<1>2. QED
  BY <1>1, CrawlInductive, PTL

\* A hit of crawl_resource is a capture of its own job or of the original that it names.
THEOREM HitsAreOfTheirCrawls == Spec => []HitIsOfThisCrawl
<1>1. IInv => HitIsOfThisCrawl
  BY DEF IInv, CallInv
<1>2. QED
  BY <1>1, CrawlInductive, PTL

\* No call that returns a result leaves its job running.
THEOREM NoJobsLeftBehind == Spec => []NoJobLeftBehind
<1>1. IInv => NoJobLeftBehind
  BY DEF IInv, CallInv
<1>2. QED
  BY <1>1, CrawlInductive, PTL

LEMMA StepImplementsClient ==
  ASSUME IInv, IInv', [Next]_vars
  PROVE  [Client!Next]_answer
<1>1. CASE CallStep
  <2>1. pc # "answered"
    BY <1>1
       DEF CallStep, NoFtp, CheckAvailability, Submit, SubmitRefused, SubmitRejected,
           SubmitFails, PollPending, PollDone, ReadOriginal, PollFails, CrawlFailed,
           SkipTerminal, BeginCdx, LookupElsevier, FetchAgain, FetchMisses, FetchRow, CdxFails,
           FetchBody, BodyFails
  <2>2. answer = Client!Pending /\ answer' \in Client!Answers
    BY <2>1, NotAnswered DEF IInv, TypeOK
  <2>3. QED
    BY <2>2
       DEF Client!Next, Client!Return, Client!Raise, Client!Answers, Client!Returned,
           Client!Raised
<1>2. CASE OthersSubmit
  BY <1>2 DEF OthersSubmit, callVars
<1>3. CASE \E j \in DOMAIN jobs : JobStep(j)
  BY <1>3 DEF JobStep, CrawlSucceeds, CrawlFails, RecentCapture, callVars
<1>4. CASE UNCHANGED vars
  BY <1>4 DEF vars, callVars
<1>5. QED
  BY <1>1, <1>2, <1>3, <1>4 DEF Next

\* crawl_resource implements the client that ingest is written for: one answer, which is one
\* of its ResourceResults or one of the exceptions.
THEOREM CrawlImplementsClient == Spec => ImplementsClient
<1>1. Init => Client!Init
  BY DEF Init, Client!Init
<1>2. IInv /\ IInv' /\ [Next]_vars => [Client!Next]_answer
  BY StepImplementsClient
<1>3. QED
  BY <1>1, <1>2, CrawlInductive, PTL DEF Spec, ImplementsClient, Client!Spec
=============================================================================
