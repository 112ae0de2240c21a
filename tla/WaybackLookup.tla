--------------------------- MODULE WaybackLookup ---------------------------
(***************************************************************************)
(* WaybackClient.lookup_resource (ia.py): from a URL, take the best CDX    *)
(* row, follow it if it is a redirect, until a capture of a document or    *)
(* something that is of no use.  Content comes from petabox, or by replay  *)
(* when the capture is too recent to be there.  Meanwhile the archive      *)
(* grows and moves recent captures to petabox.                             *)
(***************************************************************************)
EXTENDS Sequences, WaybackArchive

CONSTANTS
  StartUrls, Closest,   \* the values of start_url and closest to try; 0 for None
  BestMimetypes,        \* and of best_mimetype
  MaxRedirects,         \* max_redirects
  OldYear               \* find_resource calls a failed capture from before it old

ASSUME LookupAssumption ==
  /\ StartUrls \subseteq Urls /\ Closest \subseteq Nat
  /\ MaxRedirects \in Nat /\ OldYear \in Nat

VARIABLES
  index,        \* rows the CDX API knows
  uploaded,     \* rows whose capture is in petabox
  best, closest,
  pc,
  i,            \* of the for loop
  nextUrl, urlsSeen,
  row,          \* cdx_row
  direct,       \* "/" in cdx_row.warc_path
  answer

\* History variables.
VARIABLES
  shown,        \* the rows the last query returned
  chain         \* the redirects followed

archiveVars == <<index, uploaded>>
requestVars == <<best, closest>>
walkVars == <<i, nextUrl, urlsSeen>>
rowVars == <<row, direct>>
historyVars == <<shown, chain>>
vars == <<archiveVars, requestVars, pc, walkVars, rowVars, answer, historyVars>>

Client == INSTANCE ResourceClient WITH
  Results <- WaybackResults, Errors <- LookupError \cup {"exception"}

NoRow == [url |-> NoUrl]

PC == {"query", "branch", "revisit", "refers", "status", "good", "good-refers", "replay",
       "redirect", "replay-redirect", "answered"}

TypeOK ==
  /\ index \subseteq Rows /\ uploaded \subseteq index
  /\ closest \in Closest /\ best \in BestMimetypes
  /\ pc \in PC
  /\ i \in 0 .. MaxRedirects + 1
  /\ nextUrl \in Urls /\ urlsSeen \in Seq(Urls)
  /\ row \in Rows \cup {NoRow} /\ direct \in BOOLEAN
  /\ answer \in Client!Answers
  /\ shown \subseteq Rows /\ chain \in Seq(Rows)

Init ==
  /\ index \in SUBSET Rows /\ uploaded \in SUBSET index
  /\ closest \in Closest /\ best \in BestMimetypes
  /\ pc = "query"
  /\ i = 0
  /\ nextUrl \in StartUrls
  /\ urlsSeen = <<nextUrl>>
  /\ row = NoRow /\ direct = FALSE
  /\ answer = Client!Pending
  /\ shown = {} /\ chain = <<>>

-----------------------------------------------------------------------------
Return(r) == pc' = "answered" /\ answer' = Client!Returned(r)
Raise(e) == pc' = "answered" /\ answer' = Client!Raised(e)

Succeed(body) ==
  Return([hit |-> TRUE, status |-> "success", terminal |-> row.url, old |-> FALSE,
          body |-> body])

Fail(r) ==
  Return([hit |-> FALSE, status |-> "lookup-failed", terminal |-> r.url,
          old |-> Year(r.dt) < OldYear, body |-> "none"])

Unchanged == UNCHANGED <<archiveVars, requestVars, walkVars, rowVars, historyVars>>

\* lookup_best: None.
NoCapture ==
  /\ pc = "query"
  /\ i <= MaxRedirects
  /\ QueryApi(index, nextUrl, closest) = {}
  /\ Return([hit |-> FALSE, status |-> "no-capture", terminal |-> nextUrl, old |-> FALSE,
             body |-> "none"])
  /\ shown' = {}
  /\ UNCHANGED <<archiveVars, requestVars, walkVars, rowVars, chain>>

\* lookup_best: the last of the rows sorted by preference.
LookupBest ==
  /\ pc = "query"
  /\ i <= MaxRedirects
  /\ shown' = QueryApi(index, nextUrl, closest)
  /\ row' \in BestOf(shown', nextUrl, best, closest, uploaded)
  /\ direct' = (row' \in uploaded)
  /\ pc' = "branch"
  /\ UNCHANGED <<archiveVars, requestVars, walkVars, answer, chain>>

\* The API answers with an error or a row of too few fields (CdxApiError), with what is no
\* JSON or no row, or not at all (whatever the libraries raise).
QueryFails ==
  /\ pc = "query"
  /\ i <= MaxRedirects
  /\ \E e \in {"cdx-error", "exception"} : Raise(e)
  /\ Unchanged

\* The end of the for loop.
RedirectsExceeded ==
  /\ pc = "query"
  /\ i > MaxRedirects
  /\ Fail(row)
  /\ Unchanged

\* A revisit in petabox is resolved first, whatever its status; else the status decides.
Branch ==
  /\ pc = "branch"
  /\ pc' = IF IsRevisit(row) /\ direct THEN "revisit" ELSE "status"
  /\ UNCHANGED answer /\ Unchanged

ByStatus ==
  /\ pc = "status"
  /\ \/ /\ row.status \in Good
        /\ pc' = IF direct THEN "good" ELSE "replay"
        /\ UNCHANGED answer
     \/ /\ row.status \in Redirect
        /\ pc' = IF direct THEN "redirect" ELSE "replay-redirect"
        /\ UNCHANGED answer
     \/ /\ row.status \notin Good \cup Redirect
        /\ Fail(row)
  /\ Unchanged

-----------------------------------------------------------------------------
(* fetch_petabox.                                                          *)

FetchesPetabox == pc \in {"revisit", "good", "redirect", "refers", "good-refers"}

\* The record cannot be loaded or read; or an exception that is not translated.
PetaboxFails ==
  /\ FetchesPetabox
  /\ \E e \in {"petabox-error", "wayback-content-error", "wayback-error", "exception"} : Raise(e)
  /\ Unchanged

\* A revisit record, whose content is another capture.
LoadRevisit ==
  /\ pc \in {"revisit", "good"} /\ IsRevisit(row)
  /\ pc' = IF pc = "revisit" THEN "refers" ELSE "good-refers"
  /\ UNCHANGED answer /\ Unchanged

AfterAnyRevisit(r) == Succeed(KindOf[r.digest])
AfterRevisitNoBody(r) == Succeed("none")

\* What the walk makes of a revisit: a hit at once, or on with the status of the revisit.
\* A body there is only with a good status.
AfterRevisit(r) ==
  IF pc = "refers" /\ r.status \notin Good
  THEN pc' = "status" /\ UNCHANGED answer
  ELSE Succeed(IF r.status \in Good THEN KindOf[r.digest] ELSE "empty")

\* cdx_client.fetch of the capture referred to, and then its record, which must not be a
\* revisit again.
ResolveRevisit ==
  /\ pc \in {"refers", "good-refers"}
  /\ \E r \in FetchRows(index, row.refersUrl, row.refersDt, NoStatus) :
       /\ FuzzyMatch(r, row.refersUrl)
       /\ \/ r \in uploaded /\ ~IsRevisit(r) /\ AfterRevisit(r)
          \/ r \in uploaded /\ IsRevisit(r) /\ Raise("wayback-content-error")
          \/ r \notin uploaded /\ Raise("exception")   \* ValueError: a liveweb warc_path
  /\ Unchanged

\* KeyError becomes "Revist resolution failed"; the API may fail as well.
ResolutionFails ==
  /\ pc \in {"refers", "good-refers"}
  /\ \/ /\ \A r \in FetchRows(index, row.refersUrl, row.refersDt, NoStatus) :
             ~FuzzyMatch(r, row.refersUrl)
        /\ Raise("wayback-error")
     \/ \E e \in {"cdx-error", "exception"} : Raise(e)
  /\ Unchanged

\* The record of a good capture.  If it has another status, there is no body.
LoadGood ==
  /\ pc = "good" /\ ~IsRevisit(row)
  /\ \E body \in {KindOf[row.digest], "empty"} : Succeed(body)
  /\ Unchanged

\* fetch_replay_body, by URL and second.
ReplayBody ==
  /\ pc = "replay"
  /\ \/ \E r \in index \cap SameSecond(row) : Succeed(KindOf[r.digest])
     \/ \E e \in {"wayback-error", "wayback-content-error", "exception"} : Raise(e)
  /\ Unchanged

-----------------------------------------------------------------------------
(* Redirects.                                                              *)

NeverSeen(url) == FALSE
Seen(url) == \E k \in DOMAIN urlsSeen : urlsSeen[k] = url

\* next_url = location: bad-redirect, redirect-loop, or once more round the loop.
FollowRedirect(location) ==
  \/ /\ location = NoUrl
     /\ Fail(row)
     /\ UNCHANGED <<walkVars, chain>>
  \/ /\ location # NoUrl /\ Seen(location)
     /\ Fail(row)
     /\ nextUrl' = location
     /\ UNCHANGED <<i, urlsSeen, chain>>
  \/ /\ location # NoUrl /\ ~Seen(location)
     /\ i' = i + 1
     /\ nextUrl' = location
     /\ urlsSeen' = Append(urlsSeen, location)
     /\ chain' = Append(chain, row)
     /\ pc' = "query"
     /\ UNCHANGED answer

\* What a relative Location is resolved against: not the URL of the capture, which may be
\* spelled otherwise.
StartBase == urlsSeen[1]
Base == nextUrl

\* The record of a redirect; a revisit is not resolved here.
LoadRedirect ==
  /\ pc = "redirect"
  /\ \/ ~IsRevisit(row) /\ FollowRedirect(Target(Base, row.location))
     \/ IsRevisit(row) /\ Raise("wayback-content-error") /\ UNCHANGED <<walkVars, chain>>
  /\ UNCHANGED <<archiveVars, requestVars, rowVars, shown>>

\* fetch_replay_redirect; the replay rewrites Locations to absolute ones.  One that is not
\* http counts as none.
ReplayRedirect ==
  /\ pc = "replay-redirect"
  /\ \E location \in {Target(row.url, row.location), NoUrl} : FollowRedirect(location)
  /\ UNCHANGED <<archiveVars, requestVars, rowVars, shown>>

\* Whatever goes wrong in it, the alarm included, is one of these.
ReplayRedirectFails ==
  /\ pc = "replay-redirect"
  /\ \E e \in {"wayback-error", "wayback-content-error"} : Raise(e)
  /\ Unchanged

-----------------------------------------------------------------------------
(* The archive.  It changes at any time; that makes a difference only just *)
(* before a step that reads the index.                                     *)

ReadsIndex == pc \in {"query", "refers", "good-refers"}

Capture ==
  /\ ReadsIndex
  /\ \E r \in Rows \ index :
       /\ index' = index \cup {r}
       /\ \E now \in {{}, {r}} : uploaded' = uploaded \cup now
  /\ UNCHANGED <<requestVars, pc, walkVars, rowVars, answer, historyVars>>

Upload ==
  /\ ReadsIndex
  /\ \E r \in index \ uploaded : uploaded' = uploaded \cup {r}
  /\ UNCHANGED <<index, requestVars, pc, walkVars, rowVars, answer, historyVars>>

-----------------------------------------------------------------------------
Walk ==
  \/ NoCapture \/ LookupBest \/ QueryFails \/ RedirectsExceeded \/ Branch \/ ByStatus
  \/ PetaboxFails \/ LoadRevisit \/ ResolveRevisit \/ ResolutionFails \/ LoadGood
  \/ ReplayBody \/ LoadRedirect \/ ReplayRedirect \/ ReplayRedirectFails

Next == Walk \/ Capture \/ Upload

Spec == Init /\ [][Next]_vars

-----------------------------------------------------------------------------
(* Properties.                                                             *)

\* lookup_resource returns and raises what its callers are prepared for, once.
ImplementsClient == Client!Spec

Result == answer.result
IsHit == answer.kind = "returned" /\ answer.result.hit
Last == urlsSeen[Len(urlsSeen)]

\* Every URL of the walk is where a captured redirect of the one before it leads, a relative
\* Location being resolved against the URL it was found under, or that of the capture: the
\* walk never goes on from another URL than the one it has come to, whatever spellings,
\* revisits and captures there are.
ChainUnbroken ==
  /\ Len(urlsSeen) = Len(chain) + 1
  /\ \A k \in DOMAIN chain :
       /\ SurtOf[chain[k].url] = SurtOf[urlsSeen[k]]
       /\ chain[k].status \in Redirect
       /\ \E base \in {urlsSeen[k], chain[k].url} :
            urlsSeen[k + 1] = Target(base, chain[k].location)

\* The terminal URL of a hit is at the end of that chain, and the body, unless it is empty,
\* belongs to that URL: from petabox it is the record of the CDX row, or a document of the
\* URL and the second that a revisit refers to, never an error page or redirect captured
\* there; by replay it is a capture of the URL in the second of the row.
HitEndsTheChain ==
  IsHit =>
    /\ SurtOf[Result.terminal] = SurtOf[Last]
    /\ Result.terminal = row.url
    /\ Result.body \in {"empty"} \cup {KindOf[s.digest] : s \in Contents(row, direct)}

\* A walk takes max_redirects + 1 queries at most and repeats no URL, however captures
\* redirect to each other and whatever is crawled meanwhile.
WalkBounded ==
  /\ Len(urlsSeen) <= MaxRedirects + 2
  /\ \A j, k \in DOMAIN urlsSeen : urlsSeen[j] = urlsSeen[k] => j = k

\* The walk gives up on a URL only if there was no capture of a document under just this URL
\* among the rows it was sent: rows of another spelling of the URL, newer ones, errors and
\* revisits do not hide it.
GoodCaptureIsUsed ==
  answer.kind = "returned" /\ ~Result.hit /\ Len(urlsSeen) <= MaxRedirects + 1 =>
    ~\E r \in shown : r.url = Last /\ r.status \in Good

-----------------------------------------------------------------------------
(* The inductive invariant.                                                *)

WalkInv ==
  /\ WalkBounded /\ ChainUnbroken
  /\ Len(urlsSeen) = i + 1
  /\ pc # "answered" => nextUrl = Last
  /\ row = NoRow => chain = <<>>

\* What is known of the row that the walk is working on.
RowInv ==
  pc \notin {"query", "answered"} =>
    /\ row # NoRow /\ SurtOf[row.url] = SurtOf[nextUrl]
    /\ i <= MaxRedirects
    /\ pc \in {"revisit", "refers", "good", "good-refers", "redirect"} => direct
    /\ pc \in {"replay", "replay-redirect"} => ~direct
    /\ pc \in {"revisit", "refers", "good-refers"} => IsRevisit(row)
    /\ pc \in {"good", "good-refers", "replay"} => row.status \in Good
    /\ pc \in {"redirect", "replay-redirect"} => row.status \in Redirect
    /\ (\E r \in shown : r.url = nextUrl /\ r.status \in Good) => row.status \in Good

AnswerInv ==
  /\ pc = "answered" <=> answer # Client!Pending
  /\ HitEndsTheChain /\ GoodCaptureIsUsed

IInv == TypeOK /\ WalkInv /\ RowInv /\ AnswerInv
=============================================================================
