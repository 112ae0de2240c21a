---------------------------- MODULE SavePageNow ----------------------------
(***************************************************************************)
(* SavePageNowClient.crawl_resource and save_url_now_v2 (ia.py): a call    *)
(* asks for a free slot of the account, submits a crawl, polls the job,    *)
(* finds the capture in the CDX index and gets its body.  Other users of   *)
(* the account submit jobs too, the service finishes jobs when it likes,   *)
(* the index knows any part of what has been captured: it lags behind.     *)
(***************************************************************************)
EXTENDS Sequences, WaybackArchive

CONSTANTS
  StartUrls,     \* the values of start_url to try
  FtpUrls,
  SciencedirectUrls,   \* URLs of pdf.sciencedirectassets.com
  NotFetched,    \* terminal URLs that are partial, or those of a cookie block
  OldRows,       \* captures there may be before the calls
  Slots,         \* of the account at the service
  MaxJobs,       \* bound on the jobs of the service
  PollCount,     \* poll_count
  CdxRetrySec    \* spn_cdx_retry_sec

ASSUME SavePageNowAssumption ==
  /\ StartUrls \subseteq Urls
  /\ OldRows \subseteq Rows
  /\ Slots \in Nat /\ MaxJobs \in Nat
  /\ PollCount \in Nat \ {0} /\ CdxRetrySec \in Nat

VARIABLES
  jobs,         \* the crawl jobs of the service
  old,          \* the captures from before the calls

  url,          \* start_url
  pc,
  job,          \* job_id
  final,        \* the job whose status is final_json
  polls,        \* polls made
  sleep,        \* retry_sleep
  row, direct,  \* cdx_row, and "/" in cdx_row.warc_path
  answer

serviceVars == <<jobs, old>>
jobVars == <<job, final, polls>>
rowVars == <<sleep, row, direct>>
callVars == <<url, pc, jobVars, rowVars, answer>>
vars == <<serviceVars, callVars>>

Client == INSTANCE ResourceClient WITH
  Results <- CrawlResults, Errors <- CrawlError \cup {"exception"}

NoRow == [url |-> NoUrl]
NoJob == 0

Job ==
  [url : Urls, mine : BOOLEAN, state : {"pending", "success", "error", "session-limit"},
   original : Nat, capture : Rows \cup {NoRow}]

PC == {"start", "submit", "poll", "original", "finished", "elsevier", "cdx", "cdx-200", "body",
       "answered"}

TypeOK ==
  /\ jobs \in Seq(Job) /\ old \subseteq OldRows
  /\ url \in StartUrls
  /\ pc \in PC
  /\ job \in 0 .. Len(jobs) /\ final \in 0 .. Len(jobs)
  /\ polls \in 0 .. PollCount
  /\ sleep \in 0 .. CdxRetrySec
  /\ row \in Rows \cup {NoRow} /\ direct \in BOOLEAN
  /\ answer \in Client!Answers

Init ==
  /\ jobs = <<>> /\ old \in SUBSET OldRows
  /\ url \in StartUrls
  /\ pc = "start"
  /\ job = NoJob /\ final = NoJob
  /\ polls = 0
  /\ sleep = 0
  /\ row = NoRow /\ direct = FALSE
  /\ answer = Client!Pending

-----------------------------------------------------------------------------
(* The service, as long as it matters to the call.                         *)

InCall == pc # "answered"

Running == {j \in DOMAIN jobs : jobs[j].state = "pending"}
Free == Slots - Cardinality(Running)

\* The terminal URL is captured, and perhaps a redirect to it in the same second.
Captured ==
  old \cup UNION {SameSecond(jobs[j].capture) :
                     j \in {i \in DOMAIN jobs : jobs[i].capture # NoRow}}

NewJob(u, mine) ==
  /\ Free > 0 /\ Len(jobs) < MaxJobs
  /\ jobs' = Append(jobs, [url |-> u, mine |-> mine, state |-> "pending", original |-> NoJob,
                           capture |-> NoRow])

OthersSubmit ==
  /\ InCall
  /\ \E u \in StartUrls \ FtpUrls : NewJob(u, FALSE)
  /\ UNCHANGED <<old, callVars>>

CrawlSucceeds(j) ==
  /\ InCall /\ j \in Running
  /\ \E r \in Rows \ Captured :
       jobs' = [jobs EXCEPT ![j].state = "success", ![j].capture = r]
  /\ UNCHANGED <<old, callVars>>

CrawlFails(j) ==
  /\ InCall /\ j \in Running
  /\ \E e \in {"error", "session-limit"} : jobs' = [jobs EXCEPT ![j].state = e]
  /\ UNCHANGED <<old, callVars>>

\* if_not_archived_within: there is a job for this URL already, finished or not.  What is
\* named as an original has no original itself.
RecentCapture(j) ==
  /\ InCall /\ j \in Running
  /\ \A k \in DOMAIN jobs : jobs[k].original # j
  /\ \E i \in 1 .. j - 1 :
       /\ jobs[i].url = jobs[j].url /\ jobs[i].original = NoJob
       /\ jobs' = [jobs EXCEPT ![j].state = "success", ![j].original = i]
  /\ UNCHANGED <<old, callVars>>

-----------------------------------------------------------------------------
(* Results and exceptions.                                                 *)

Go(to) == pc' = to /\ UNCHANGED answer
Return(r) ==
  /\ pc' = "answered"
  /\ answer' = Client!Returned(r)
Raise(e) ==
  /\ pc' = "answered"
  /\ answer' = Client!Raised(e)

Fail(terminal) ==
  Return([hit |-> FALSE, status |-> "crawl-failed", terminal |-> terminal, old |-> FALSE,
             body |-> "none"])

\* SavePageNowBackoffError.
BackOff == Raise("spn2-backoff")

-----------------------------------------------------------------------------
(* save_url_now_v2.                                                        *)

NoFtp ==
  /\ pc = "start" /\ url \in FtpUrls
  /\ Fail(NoUrl)
  /\ UNCHANGED <<serviceVars, url, jobVars, rowVars>>

\* One slot is left to others.
CheckAvailability ==
  /\ pc = "start" /\ url \notin FtpUrls
  /\ \/ \E available \in 0 .. Free :
          \/ available > 1 /\ Go("submit")
          \/ available <= 1 /\ BackOff
     \/ BackOff   \* 429
     \/ \E e \in {"spn2-error", "exception"} : Raise(e)
  /\ UNCHANGED <<serviceVars, url, jobVars, rowVars>>

\* What is asked of the job besides (force_get, and the outlinks for CNKI) concerns other URLs
\* than the one of the call.
Submit ==
  /\ pc = "submit"
  /\ NewJob(url, TRUE)
  /\ job' = Len(jobs) + 1
  /\ Go("poll")
  /\ UNCHANGED <<old, url, final, polls, rowVars>>

\* 429, or "You have already reached the limit of active sessions", or that as an error.
SubmitRefused ==
  /\ pc = "submit"
  /\ BackOff
  /\ UNCHANGED <<serviceVars, url, jobVars, rowVars>>

\* "The same snapshot had been made", or an error status: a result, though not a hit.
SubmitRejected ==
  /\ pc = "submit"
  /\ Fail(NoUrl)
  /\ UNCHANGED <<serviceVars, url, jobVars, rowVars>>

\* A bad response, or the connection breaks, perhaps after the job was started.
SubmitFails ==
  /\ pc = "submit"
  /\ \E e \in {"spn2-error", "exception"} : Raise(e)
  /\ \/ NewJob(url, TRUE)
     \/ UNCHANGED jobs
  /\ UNCHANGED <<old, url, jobVars, rowVars>>

PollGivenUp ==
  /\ pc = "poll" /\ jobs[job].state = "pending"
  /\ polls' = polls + 1
  /\ IF polls + 1 < PollCount THEN UNCHANGED <<pc, answer>> ELSE Fail(NoUrl)
  /\ UNCHANGED <<serviceVars, url, job, final, rowVars>>

PollUntilDone ==
  /\ pc = "poll" /\ jobs[job].state = "pending"
  /\ polls' = (polls + 1) % PollCount
  /\ UNCHANGED <<serviceVars, url, pc, job, final, rowVars, answer>>

\* Each poll that finds the job pending is followed by a sleep, the last one by giving up.
PollPending ==
  /\ pc = "poll" /\ jobs[job].state = "pending"
  /\ polls' = polls + 1
  /\ IF polls + 1 < PollCount THEN UNCHANGED <<pc, answer>> ELSE Raise("spn2-error")
  /\ UNCHANGED <<serviceVars, url, job, final, rowVars>>

\* If the job names an original job, the status of that one counts.
PollDone ==
  /\ pc = "poll" /\ jobs[job].state # "pending"
  /\ Go(IF jobs[job].original = NoJob THEN "finished" ELSE "original")
  /\ final' = job
  /\ UNCHANGED <<serviceVars, url, job, polls, rowVars>>

ReadOriginal ==
  /\ pc = "original"
  /\ final' = jobs[job].original
  /\ IF jobs[jobs[job].original].state = "pending"
     THEN Fail(NoUrl)   \* error:pending
     ELSE Go("finished")
  /\ UNCHANGED <<serviceVars, url, job, polls, rowVars>>

\* An HTTP error is raised as SavePageNowError, one of 429 too; a broken connection as it is.
PollFails ==
  /\ pc \in {"poll", "original"}
  /\ \E e \in {"spn2-error", "exception"} : Raise(e)
  /\ UNCHANGED <<serviceVars, url, jobVars, rowVars>>

-----------------------------------------------------------------------------
(* crawl_resource.                                                         *)

Capture == jobs[final].capture

\* error:user-session-limit is backpressure, any other error a result.
CrawlFailed ==
  /\ pc = "finished"
  /\ \/ jobs[final].state = "error" /\ Fail(NoUrl)
     \/ jobs[final].state = "session-limit" /\ BackOff
  /\ UNCHANGED <<serviceVars, url, jobVars, rowVars>>

\* A partial URL, or that of a cookie block, is not looked up.
SkipTerminal ==
  /\ pc = "finished" /\ jobs[final].state = "success"
  /\ Capture.url \in NotFetched
  /\ Fail(Capture.url)
  /\ UNCHANGED <<serviceVars, url, jobVars, rowVars>>

BeginCdx ==
  /\ pc = "finished" /\ jobs[final].state = "success"
  /\ Capture.url \notin NotFetched
  /\ Go(IF url \in SciencedirectUrls THEN "elsevier" ELSE "cdx")
  /\ sleep' = CdxRetrySec
  /\ UNCHANGED <<serviceVars, url, jobVars, row, direct>>

TakeRow(r) ==
  /\ row' = r
  /\ \E uploaded \in BOOLEAN : direct' = uploaded

\* The sciencedirectassets hack: any PDF captured under the URL that was asked for will do.
LookupElsevier ==
  /\ pc = "elsevier"
  /\ \E index \in SUBSET Captured, uploaded \in SUBSET Captured :
       LET found == BestOf(QueryApi(index, url, 0), url, "pdf", 0, uploaded)
       IN  \/ \E r \in found : r.mimetype = "pdf" /\ TakeRow(r) /\ Go("body")
           \/ /\ found = {} \/ \E r \in found : r.mimetype # "pdf"
              /\ Go("cdx") /\ UNCHANGED <<row, direct>>
  /\ UNCHANGED <<serviceVars, url, jobVars, sleep>>

NextSleep(s) == IF s > 3 THEN s - 3 ELSE 0

\* The rows CdxApiClient.fetch may be sent; it may be sent none as long as the index lags.
FilterStatus ==
  IF pc = "cdx-200" THEN 200 ELSE IF Capture.url \in FtpUrls THEN 226 ELSE NoStatus
Found == FetchRows(Captured, Capture.url, Capture.dt, FilterStatus)
Wrong == {r \in Found : ~FuzzyMatch(r, Capture.url)}

\* Nothing, or the wrong URL, is asked for again while there is time left.
FetchAgain ==
  /\ pc \in {"cdx", "cdx-200"}
  /\ sleep > 0
  /\ \/ sleep' = NextSleep(sleep)
     \/ Wrong # {} /\ sleep' = 0
  /\ UNCHANGED <<serviceVars, url, pc, jobVars, row, direct, answer>>

\* KeyError: spn2-cdx-lookup-failure.
FetchMisses ==
  /\ pc \in {"cdx", "cdx-200"}
  /\ sleep = 0
  /\ Fail(Capture.url)
  /\ UNCHANGED <<serviceVars, url, jobVars, rowVars>>

AnyRowOf(r) == TRUE
RowMatches(r) == FuzzyMatch(r, Capture.url)

\* A redirect of the same second is passed over by asking for status 200.  Comparing the
\* status of a row without one raises TypeError.
FetchRow ==
  /\ pc \in {"cdx", "cdx-200"}
  /\ \E r \in Found :
       /\ RowMatches(r)
       /\ \/ /\ pc = "cdx" /\ r.status = NoStatus
             /\ Raise("exception") /\ UNCHANGED rowVars
          \/ /\ pc = "cdx" /\ r.status \in Redirect
             /\ Go("cdx-200")
             /\ sleep' = CdxRetrySec /\ UNCHANGED <<row, direct>>
          \/ /\ (pc = "cdx-200" \/ r.status \notin Redirect \cup {NoStatus})
             /\ TakeRow(r) /\ Go("body") /\ UNCHANGED sleep
  /\ UNCHANGED <<serviceVars, url, jobVars>>

CdxFails ==
  /\ pc \in {"elsevier", "cdx", "cdx-200"}
  /\ Raise("cdx-error")
  /\ UNCHANGED <<serviceVars, url, jobVars, rowVars>>

\* What the body may be.  The record of the row in petabox has none if it is of another
\* status; a revisit must resolve to the same digest.  By replay it is of any capture of the
\* URL in that second, which nothing verifies.
Body ==
  IF direct THEN {KindOf[row.digest], "empty"}
  ELSE {KindOf[r.digest] : r \in Captured \cap SameSecond(row)}

\* The body, from petabox or by replay; the status of the row decides what it is worth.
FetchBody ==
  /\ pc = "body"
  /\ \/ /\ row.status \in Good
        /\ \E body \in Body :
             Return([hit |-> TRUE, status |-> "success", terminal |-> row.url,
                        old |-> FALSE, body |-> body])
     \/ /\ row.status \notin Good
        /\ IF row.status = NoStatus THEN Raise("exception")   \* assert cdx_row.status_code
           ELSE Fail(row.url)
  /\ UNCHANGED <<serviceVars, url, jobVars, rowVars>>

\* Failing to replay is a result (spn2-wayback-error), failing to read petabox is not, nor is
\* a revisit that resolves to another digest (AssertionError).
BodyFails ==
  /\ pc = "body"
  /\ \/ ~direct /\ Fail(row.url)
     \/ direct /\ \E e \in LookupError : Raise(e)
     \/ Raise("exception")
  /\ UNCHANGED <<serviceVars, url, jobVars, rowVars>>

-----------------------------------------------------------------------------
CallStep ==
  \/ NoFtp \/ CheckAvailability
  \/ Submit \/ SubmitRefused \/ SubmitRejected \/ SubmitFails
  \/ PollPending \/ PollDone \/ ReadOriginal \/ PollFails
  \/ CrawlFailed \/ SkipTerminal \/ BeginCdx \/ LookupElsevier
  \/ FetchAgain \/ FetchMisses \/ FetchRow \/ CdxFails
  \/ FetchBody \/ BodyFails

JobStep(j) == CrawlSucceeds(j) \/ CrawlFails(j) \/ RecentCapture(j)

Next ==
  \/ CallStep \/ OthersSubmit
  \/ \E j \in DOMAIN jobs : JobStep(j)

Spec == Init /\ [][Next]_vars

\* The APIs answer in the end; the service need not finish any job.
FairSpec == Spec /\ WF_vars(CallStep)

-----------------------------------------------------------------------------
(* Properties.                                                             *)

\* crawl_resource returns and raises what its caller is prepared for, once.
ImplementsClient == Client!Spec

Answered == pc = "answered"
IsHit == answer.kind = "returned" /\ answer.result.hit

\* A hit is a capture of the job of the call, or of the one that its job names as the
\* original, for the very URL asked for, in the second the job reports; its body, unless it is
\* empty, is the content of that capture, or by replay of one of that URL and second.  Only for
\* sciencedirect it may be any other PDF under that URL.
HitIsOfThisCrawl ==
  IsHit =>
    /\ answer.result.terminal = row.url
    /\ answer.result.body \in
         {"empty"} \cup {KindOf[r.digest] : r \in IF direct THEN {row} ELSE SameSecond(row)}
    /\ jobs[job].mine
    /\ jobs[final].url = url /\ jobs[final].state = "success"
    /\ \/ row.dt = Capture.dt /\ FuzzyMatch(row, Capture.url)
       \/ url \in SciencedirectUrls /\ row.mimetype = "pdf"
          /\ SurtOf[row.url] = SurtOf[url]

\* A call that returns a result leaves no job behind in a slot of the account; only one that
\* raises may.
NoJobLeftBehind ==
  answer.kind = "returned" => \A j \in Running : ~jobs[j].mine

\* A call ends, though jobs may stay pending for ever, captures may never be indexed, and
\* other calls and users compete for the slots.
CallEnds == <>Answered

-----------------------------------------------------------------------------
(* The inductive invariant.                                                *)

\* A job that succeeded has a capture, its own or that of its original for the same URL.
JobsInv ==
  \A j \in DOMAIN jobs :
    /\ jobs[j].state = "success" /\ jobs[j].original = NoJob => jobs[j].capture \in Rows
    /\ jobs[j].original # NoJob =>
         /\ jobs[j].state = "success"
         /\ jobs[j].original \in DOMAIN jobs
         /\ jobs[jobs[j].original].url = jobs[j].url
         /\ jobs[jobs[j].original].original = NoJob

\* What is known of the job of the call: it is the only one of the call, and no longer running
\* once the polls are over.
JobInv ==
  /\ pc \in {"start", "submit"} => job = NoJob /\ \A j \in DOMAIN jobs : ~jobs[j].mine
  /\ pc \in {"start", "submit", "poll"} => final = NoJob
  /\ pc \notin {"start", "submit", "answered"} =>
       job # NoJob /\ jobs[job].mine /\ jobs[job].url = url
  /\ answer.kind # "raised" => \A j \in DOMAIN jobs : jobs[j].mine => j = job
  /\ pc \in {"start", "submit", "poll"} => polls < PollCount
  /\ pc = "original" => jobs[job].original # NoJob /\ final = job
  /\ pc \in {"original", "finished", "elsevier", "cdx", "cdx-200", "body"} =>
       jobs[job].state # "pending"

\* What is known of the job whose capture is looked up.
FinalInv ==
  /\ pc \in {"finished", "elsevier", "cdx", "cdx-200", "body"} =>
       /\ final # NoJob /\ jobs[final].original = NoJob
       /\ jobs[final].state # "pending" /\ jobs[final].url = url
  /\ pc \in {"original", "elsevier", "cdx", "cdx-200", "body"} => jobs[final].state = "success"
  /\ pc = "elsevier" => url \in SciencedirectUrls

RowIsOfFinal ==
  /\ row \in Rows
  /\ \/ row.dt = Capture.dt /\ FuzzyMatch(row, Capture.url)
     \/ url \in SciencedirectUrls /\ row.mimetype = "pdf" /\ SurtOf[row.url] = SurtOf[url]

CallInv ==
  /\ Answered <=> answer # Client!Pending
  /\ pc = "body" => RowIsOfFinal
  /\ HitIsOfThisCrawl /\ NoJobLeftBehind

IInv == TypeOK /\ JobsInv /\ JobInv /\ FinalInv /\ CallInv
=============================================================================
