------------------------- MODULE WaybackLookup_proof -------------------------
(***************************************************************************)
(* For any archive, however it grows, and any max_redirects: a lookup      *)
(* follows redirects that were captured, repeats no URL, gives up no       *)
(* capture of a document that it was shown, and answers as its callers     *)
(* expect.                                                                 *)
(***************************************************************************)
EXTENDS WaybackLookup, TLAPS

-----------------------------------------------------------------------------
(* Rows and results.                                                       *)

LEMMA RowFields ==
  ASSUME NEW r \in Rows
  PROVE  /\ r.url \in Urls /\ r.dt \in Nat /\ r.status \in Nat /\ r.digest \in Digests
         /\ r.location \in Urls \cup Paths \cup {NoUrl}
         /\ KindOf[r.digest] \in Mimetype \cup BadBody
BY ArchiveAssumption DEF CdxRow

LEMMA TargetType ==
  ASSUME NEW r \in Rows, NEW base \in Urls
  PROVE  Target(base, r.location) \in Urls \cup {NoUrl}
BY RowFields, ArchiveAssumption DEF Target

LEMMA NoRowIsNone == NoRow \notin Rows
BY ArchiveAssumption DEF CdxRow, NoRow

LEMMA HitType ==
  ASSUME NEW r \in Rows, NEW body \in Mimetype \cup BadBody
  PROVE  [hit |-> TRUE, status |-> "success", terminal |-> r.url, old |-> FALSE,
          body |-> body] \in WaybackResults
BY RowFields DEF WaybackResults

LEMMA FailureType ==
  ASSUME NEW r \in Rows
  PROVE  [hit |-> FALSE, status |-> "lookup-failed", terminal |-> r.url,
          old |-> Year(r.dt) < OldYear, body |-> "none"] \in WaybackResults
<1>1. (Year(r.dt) < OldYear) \in BOOLEAN
  BY RowFields DEF Year
<1>2. QED
  BY <1>1, RowFields DEF WaybackResults

\* What lookup_best settles on is among the rows it was shown, which are of the URL asked for;
\* if one of them is a document under just that URL, it is one as well.
LEMMA BestIsShown ==
  ASSUME NEW rows \in SUBSET Rows, NEW url \in Urls, NEW b, NEW c \in Nat, NEW up,
         NEW r \in BestOf(QueryApi(rows, url, c), url, b, c, up)
  PROVE  r \in Rows /\ SurtOf[r.url] = SurtOf[url]
BY DEF BestOf, QueryApi, Matching

LEMMA BestIsGood ==
  ASSUME NEW shownRows \in SUBSET Rows, NEW url \in Urls, NEW b, NEW c \in Nat, NEW up,
         NEW r \in BestOf(shownRows, url, b, c, up),
         NEW s \in shownRows, s.url = url, s.status \in Good
  PROVE  r.status \in Good
<1> DEFINE k == SortKey(s, url, b, c, up)
           l == SortKey(r, url, b, c, up)
<1>1. r \in shownRows /\ ~Above(s, r, url, b, c, up)
  BY DEF BestOf
<1>2. k[1] = 1 /\ k[2] = 1
  BY DEF SortKey, Bit
<1>3. l[1] = Bit(r.url = url) /\ l[2] = Bit(r.status \in Good)
  BY DEF SortKey
<1>4. ~(k[1] > l[1])
  <2> SUFFICES ASSUME k[1] > l[1] PROVE FALSE
    OBVIOUS
  <2>1. \A j \in 1 .. 1 - 1 : k[j] = l[j]
    OBVIOUS
  <2>2. QED
    BY <1>1, <2>1 DEF Above
<1>5. l[1] = 1
  BY <1>2, <1>3, <1>4 DEF Bit
<1>6. ~(k[2] > l[2])
  <2> SUFFICES ASSUME k[2] > l[2] PROVE FALSE
    OBVIOUS
  <2>1. \A j \in 1 .. 2 - 1 : k[j] = l[j]
    BY <1>2, <1>5
  <2>2. QED
    BY <1>1, <2>1 DEF Above
<1>7. QED
  BY <1>2, <1>3, <1>6 DEF Bit

LEMMA ReturnedIs ==
  ASSUME NEW r \in WaybackResults
  PROVE  /\ Client!Returned(r) \in Client!Answers /\ Client!Returned(r) # Client!Pending
         /\ Client!Returned(r).kind = "returned" /\ Client!Returned(r).result = r
BY DEF Client!Answers, Client!Returned, Client!Pending

Errors == LookupError \cup {"exception"}

LEMMA RaisedIs ==
  ASSUME NEW e \in Errors
  PROVE  /\ Client!Raised(e) \in Client!Answers /\ Client!Raised(e) # Client!Pending
         /\ Client!Raised(e).kind = "raised"
BY DEF Client!Answers, Client!Raised, Client!Pending, Errors

LEMMA PendingIs == Client!Pending \in Client!Answers /\ Client!Pending.kind = "pending"
BY DEF Client!Answers, Client!Pending

-----------------------------------------------------------------------------
(* The ways a step can end.  It answers with a hit, a failure, a miss or   *)
(* an error, or it leaves the answer alone.                                *)

Bodies(r, inPetabox) == {"empty"} \cup {KindOf[s.digest] : s \in Contents(r, inPetabox)}
Hits(r, inPetabox) ==
  {Client!Returned([hit |-> TRUE, status |-> "success", terminal |-> r.url, old |-> FALSE,
                    body |-> body]) : body \in Bodies(r, inPetabox)}
Misses ==
  {Client!Returned(r) : r \in {s \in WaybackResults : ~s.hit}}
Errs == {Client!Raised(e) : e \in Errors}

Unanswered == UNCHANGED answer /\ pc' # "answered"
Hitting == pc' = "answered" /\ answer' \in Hits(row, direct)
Missing == pc' = "answered" /\ answer' \in Misses
Erring == pc' = "answered" /\ answer' \in Errs

\* The captures that may be served are captures, and their content is of a kind.
LEMMA BodyType ==
  ASSUME NEW r \in Rows, NEW inPetabox, NEW body \in Bodies(r, inPetabox)
  PROVE  body \in Mimetype \cup BadBody
<1>1. Contents(r, inPetabox) \subseteq Rows
  BY DEF Contents, SameSecond, Referred, FetchRows, Matching
<1>2. QED
  BY <1>1, RowFields DEF Bodies, BadBody

LEMMA SucceedHits ==
  ASSUME NEW body \in Bodies(row, direct), Succeed(body) PROVE Hitting
BY DEF Succeed, Return, Hitting, Hits

LEMMA FailMisses ==
  ASSUME row \in Rows, Fail(row) PROVE Missing
BY FailureType DEF Fail, Return, Missing, Misses

LEMMA RaiseErrs ==
  ASSUME NEW e \in Errors, Raise(e) PROVE Erring
BY DEF Raise, Erring, Errs

LEMMA AnswersType ==
  ASSUME row \in Rows \/ ~Hitting, TypeOK, Unanswered \/ Hitting \/ Missing \/ Erring
  PROVE  answer' \in Client!Answers /\ (Unanswered \/ answer' # Client!Pending)
<1>1. CASE Unanswered
  BY <1>1 DEF TypeOK, Unanswered
<1>2. CASE Hitting
  <2>1. PICK body \in Bodies(row, direct) :
          answer' = Client!Returned([hit |-> TRUE, status |-> "success", terminal |-> row.url,
                                     old |-> FALSE, body |-> body])
    BY <1>2 DEF Hitting, Hits
  <2>2. body \in Mimetype \cup BadBody
    BY <1>2, <2>1, BodyType
  <2>3. QED
    BY <1>2, <2>1, <2>2, HitType, ReturnedIs
<1>3. CASE Missing
  BY <1>3, ReturnedIs DEF Missing, Misses
<1>4. CASE Erring
  BY <1>4, RaisedIs DEF Erring, Errs
<1>5. QED
  BY <1>1, <1>2, <1>3, <1>4

-----------------------------------------------------------------------------
LEMMA RowKnown ==
  ASSUME TypeOK, WalkInv, RowInv,
         pc \notin {"query", "answered"} \/ (pc = "query" /\ i > MaxRedirects)
  PROVE  row \in Rows
<1>1. CASE pc \notin {"query", "answered"}
  BY <1>1 DEF TypeOK, RowInv
<1>2. CASE pc = "query" /\ i > MaxRedirects
  <2>1. Len(chain) > 0
    BY <1>2, LookupAssumption DEF TypeOK, WalkInv, ChainUnbroken
  <2>2. QED
    BY <2>1 DEF TypeOK, WalkInv
<1>3. QED
  BY <1>1, <1>2

\* The steps that leave walk and row alone; nextUrl is of no use when there is an answer.
Quiet ==
  /\ UNCHANGED <<archiveVars, requestVars, i, urlsSeen, rowVars, historyVars>>
  /\ nextUrl' = nextUrl \/ (pc' = "answered" /\ nextUrl' \in Urls)

\* How such a step can end.
Outcome ==
  \/ Hitting /\ pc \notin {"query", "answered"}
  \/ Missing /\ (i > MaxRedirects
                 \/ (pc \notin {"query", "answered"} /\ row.status \notin Good))
  \/ Erring
  \/ /\ Unanswered /\ pc \notin {"query", "answered"} /\ pc' \in PC \ {"query", "answered"}
     /\ pc' \in {"revisit", "refers", "good-refers"} => IsRevisit(row)
     /\ pc' \in {"good", "good-refers", "replay"} => row.status \in Good
     /\ pc' \in {"redirect", "replay-redirect"} => row.status \in Redirect
     /\ pc' \in {"revisit", "refers", "good", "good-refers", "redirect"} => direct
     /\ pc' \in {"replay", "replay-redirect"} => ~direct

\* A document that a revisit resolves to is one of those that may be served for it.
LEMMA ResolvedBody ==
  ASSUME TypeOK, direct, IsRevisit(row),
         NEW r \in FetchRows(index, row.refersUrl, row.refersDt, NoStatus),
         ~IsRevisit(r), FuzzyMatch(r, row.refersUrl), r.status \in Good
  PROVE  KindOf[r.digest] \in Bodies(row, direct)
<1>1. r \in FetchRows(Rows, row.refersUrl, row.refersDt, NoStatus)
  BY DEF TypeOK, FetchRows, Matching
<1>2. QED
  BY <1>1 DEF Bodies, Contents, Referred

LEMMA ResolveRevisitStep ==
  ASSUME TypeOK, WalkInv, RowInv, ResolveRevisit
  PROVE  Quiet /\ Outcome
<1>1. IsRevisit(row) /\ direct
  BY DEF ResolveRevisit, RowInv
<1>2. PICK r \in FetchRows(index, row.refersUrl, row.refersDt, NoStatus) :
        /\ FuzzyMatch(r, row.refersUrl)
        /\ \/ r \in uploaded /\ ~IsRevisit(r) /\ AfterRevisit(r)
           \/ r \in uploaded /\ IsRevisit(r) /\ Raise("wayback-content-error")
           \/ r \notin uploaded /\ Raise("exception")
  BY DEF ResolveRevisit
<1>3. CASE ~IsRevisit(r) /\ AfterRevisit(r)
  <2>1. (IF r.status \in Good THEN KindOf[r.digest] ELSE "empty") \in Bodies(row, direct)
    BY <1>1, <1>2, <1>3, ResolvedBody DEF Bodies
  <2>2. QED
    BY <1>1, <1>3, <2>1, SucceedHits
       DEF AfterRevisit, Unanswered, ResolveRevisit, Unchanged, Quiet, Outcome, PC, walkVars
<1>4. CASE Raise("wayback-content-error") \/ Raise("exception")
  BY <1>4, RaiseErrs DEF Errors, LookupError, ResolveRevisit, Unchanged, Quiet, Outcome, walkVars
<1>5. QED
  BY <1>2, <1>3, <1>4

LEMMA RedirectIsNotGood == ASSUME NEW n \in Redirect PROVE n \notin Good
BY DEF Redirect, Good

LEMMA FollowRedirectOutcome ==
  ASSUME TypeOK, WalkInv, RowInv, NEW location \in Urls \cup {NoUrl},
         pc \in {"redirect", "replay-redirect"}, FollowRedirect(location), pc' = "answered",
         UNCHANGED <<archiveVars, requestVars, rowVars, shown>>
  PROVE  Quiet /\ Outcome
<1>1. row \in Rows
  BY RowKnown
<1>2. row.status \notin Good
  BY RedirectIsNotGood DEF RowInv
<1>3. Fail(row) /\ UNCHANGED <<i, urlsSeen, chain>> /\ nextUrl' \in {nextUrl, location}
      /\ (nextUrl' = nextUrl \/ location # NoUrl)
  BY DEF FollowRedirect, walkVars
<1>4. QED
  BY <1>1, <1>2, <1>3, FailMisses DEF Quiet, Outcome, historyVars

LEMMA RedirectOutcome ==
  ASSUME TypeOK, WalkInv, RowInv, LoadRedirect \/ ReplayRedirect, pc' = "answered"
  PROVE  Quiet /\ Outcome
<1>1. CASE IsRevisit(row) /\ Raise("wayback-content-error") /\ UNCHANGED <<walkVars, chain>>
  BY <1>1, RaiseErrs DEF Errors, LookupError, LoadRedirect, ReplayRedirect, Quiet, Outcome,
                         walkVars, historyVars
<1>2. row \in Rows /\ row.url \in Urls /\ nextUrl \in Urls
  BY RowKnown, RowFields DEF LoadRedirect, ReplayRedirect, TypeOK
<1>3. CASE \E location \in Urls \cup {NoUrl} : FollowRedirect(location)
  BY <1>3, FollowRedirectOutcome DEF LoadRedirect, ReplayRedirect
<1>4. QED
  BY <1>1, <1>2, <1>3, TargetType DEF LoadRedirect, ReplayRedirect, Base

LEMMA QuietStep ==
  ASSUME TypeOK, WalkInv, RowInv,
         \/ QueryFails \/ RedirectsExceeded \/ Branch \/ ByStatus \/ PetaboxFails \/ LoadRevisit
         \/ ResolveRevisit \/ ResolutionFails \/ LoadGood \/ ReplayBody
         \/ ReplayRedirectFails
         \/ ((LoadRedirect \/ ReplayRedirect) /\ pc' = "answered")
  PROVE  Quiet /\ Outcome
<1> USE DEF Unchanged, Quiet, Outcome, walkVars
<1>1. CASE QueryFails
  BY <1>1, RaiseErrs DEF QueryFails, Errors, LookupError
<1>2. CASE RedirectsExceeded
  BY <1>2, RowKnown, FailMisses DEF RedirectsExceeded
<1>3. CASE Branch
  BY <1>3 DEF Branch, Unanswered, PC
<1>4. CASE ByStatus
  <2>1. row \in Rows
    BY <1>4, RowKnown DEF ByStatus
  <2>2. CASE row.status \notin Good \cup Redirect
    BY <1>4, <2>1, <2>2, FailMisses DEF ByStatus
  <2>3. CASE row.status \in Good \cup Redirect
    BY <1>4, <2>3 DEF ByStatus, Unanswered, PC, Redirect, Good
  <2>4. QED
    BY <2>2, <2>3
<1>5. CASE PetaboxFails
  BY <1>5, RaiseErrs DEF PetaboxFails, Errors, LookupError
<1>6. CASE LoadRevisit
  BY <1>6 DEF LoadRevisit, Unanswered, PC, RowInv
<1>7. CASE ResolveRevisit
  BY <1>7, ResolveRevisitStep
<1>8. CASE ResolutionFails
  BY <1>8, RaiseErrs DEF ResolutionFails, Errors, LookupError
<1>9. CASE LoadGood
  <2>1. {KindOf[row.digest], "empty"} \subseteq Bodies(row, direct)
    BY <1>9 DEF LoadGood, RowInv, Bodies, Contents
  <2>2. QED
    BY <1>9, <2>1, SucceedHits DEF LoadGood
<1>10. CASE ReplayBody
  <2>1. \A r \in SameSecond(row) : KindOf[r.digest] \in Bodies(row, direct)
    BY <1>10 DEF ReplayBody, RowInv, Bodies, Contents
  <2>2. QED
    BY <1>10, <2>1, SucceedHits, RaiseErrs DEF ReplayBody, Errors, LookupError
<1>11. CASE ReplayRedirectFails
  BY <1>11, RaiseErrs DEF ReplayRedirectFails, Errors, LookupError
<1>12. CASE (LoadRedirect \/ ReplayRedirect) /\ pc' = "answered"
  BY <1>12, RedirectOutcome
<1>13. QED
  BY <1>1, <1>2, <1>3, <1>4, <1>5, <1>6, <1>7, <1>8, <1>9, <1>10, <1>11, <1>12

-----------------------------------------------------------------------------
(* The inductive step.                                                     *)

LEMMA QuietPreserves ==
  ASSUME IInv, Quiet, Outcome
  PROVE  IInv'
<1> USE DEF IInv
<1>1. row \in Rows \/ ~Hitting
  <2>1. \A m \in Misses \cup Errs : m \notin Hits(row, direct)
    BY DEF Misses, Errs, Hits, Client!Returned, Client!Raised
  <2>2. QED
    BY <2>1, RowKnown DEF Outcome, Hitting, Missing, Erring, Unanswered
<1>2. answer' \in Client!Answers /\ (Unanswered \/ answer' # Client!Pending)
  BY <1>1, AnswersType DEF Outcome
<1>3. TypeOK'
  BY <1>2 DEF TypeOK, Quiet, Outcome, Hitting, Missing, Erring, PC, archiveVars, requestVars,
              rowVars, historyVars
<1>4. WalkInv'
  BY DEF WalkInv, WalkBounded, ChainUnbroken, Quiet, Outcome, Hitting, Missing, Erring,
         Unanswered, Last, rowVars, historyVars
<1>5. RowInv'
  BY DEF RowInv, IsRevisit, Quiet, Outcome, Hitting, Missing, Erring, rowVars, historyVars
<1>6. pc' = "answered" <=> answer' # Client!Pending
  BY <1>2 DEF AnswerInv, Outcome, Hitting, Missing, Erring, Unanswered, RowInv
<1>7. HitEndsTheChain' /\ GoodCaptureIsUsed'
  <2> USE DEF HitEndsTheChain, GoodCaptureIsUsed, IsHit, Result
  <2>1. Last' = Last /\ (pc # "answered" => nextUrl = Last)
    BY DEF Last, Quiet, WalkInv
  <2>2. CASE Hitting /\ pc \notin {"query", "answered"}
    <3>1. PICK body \in Bodies(row, direct) :
            answer' = Client!Returned([hit |-> TRUE, status |-> "success",
                                       terminal |-> row.url, old |-> FALSE, body |-> body])
      BY <2>2 DEF Hitting, Hits
    <3>2. SurtOf[row.url] = SurtOf[Last]
      BY <2>1, <2>2 DEF RowInv
    <3>3. row' = row /\ direct' = direct
      BY DEF Quiet, rowVars
    <3>4. body \in {"empty"} \cup {KindOf[s.digest] : s \in Contents(row', direct')}
      BY <3>3 DEF Bodies
    <3>5. /\ answer'.kind = "returned" /\ answer'.result.hit
          /\ answer'.result.terminal = row.url /\ answer'.result.body = body
      BY <3>1 DEF Client!Returned
    <3>6. QED
      BY <2>1, <3>2, <3>3, <3>4, <3>5
  <2>3. CASE Missing /\ (i > MaxRedirects
                         \/ (pc \notin {"query", "answered"} /\ row.status \notin Good))
    <3>1. ~answer'.result.hit
      BY <2>3 DEF Missing, Misses, Client!Returned
    <3>2. urlsSeen' = urlsSeen /\ shown' = shown
      BY DEF Quiet, historyVars
    <3>3. CASE i > MaxRedirects
      BY <3>1, <3>2, <3>3, LookupAssumption DEF TypeOK, WalkInv
    <3>4. CASE pc \notin {"query", "answered"} /\ row.status \notin Good
      <4>1. \A r \in shown : ~(r.url = nextUrl /\ r.status \in Good)
        BY <3>4 DEF RowInv
      <4>2. QED
        BY <2>1, <3>1, <3>2, <3>4, <4>1
    <3>5. QED
      BY <2>3, <3>3, <3>4
  <2>4. CASE Erring
    BY <2>4, RaisedIs DEF Erring, Errs
  <2>5. CASE Unanswered /\ pc \notin {"query", "answered"}
    <3>1. answer'.kind = "pending"
      BY <2>5, PendingIs DEF Unanswered, AnswerInv
    <3>2. QED
      BY <3>1
  <2>6. QED
    BY <2>2, <2>3, <2>4, <2>5 DEF Outcome
<1>8. QED
  BY <1>3, <1>4, <1>5, <1>6, <1>7 DEF AnswerInv

LEMMA NotAnswered ==
  ASSUME AnswerInv, pc # "answered" PROVE answer = Client!Pending /\ answer.kind = "pending"
BY PendingIs DEF AnswerInv

LEMMA LookupBestPreserves ==
  ASSUME IInv, LookupBest
  PROVE  IInv'
<1> USE DEF IInv
<1>1. nextUrl \in Urls /\ closest \in Nat /\ index \in SUBSET Rows
  BY LookupAssumption DEF TypeOK
<1>2. shown' \in SUBSET Rows
  BY <1>1 DEF LookupBest, QueryApi, Matching
<1>3. row' \in Rows /\ SurtOf[row'.url] = SurtOf[nextUrl]
  BY <1>1, BestIsShown DEF LookupBest
<1>4. \A r \in shown' : r.url = nextUrl /\ r.status \in Good => row'.status \in Good
  BY <1>1, <1>2, BestIsGood DEF LookupBest
<1>5. TypeOK'
  BY <1>2, <1>3 DEF TypeOK, LookupBest, PC, archiveVars, requestVars, walkVars
<1>6. WalkInv'
  BY <1>3, NoRowIsNone
     DEF WalkInv, WalkBounded, ChainUnbroken, LookupBest, Last, walkVars
<1>7. RowInv'
  BY <1>3, <1>4, NoRowIsNone DEF RowInv, LookupBest, walkVars
<1>8. AnswerInv'
  BY NotAnswered DEF AnswerInv, HitEndsTheChain, GoodCaptureIsUsed, IsHit, LookupBest
<1>9. QED
  BY <1>5, <1>6, <1>7, <1>8

LEMMA NoCapturePreserves ==
  ASSUME IInv, NoCapture
  PROVE  IInv'
<1> USE DEF IInv
<1> DEFINE r == [hit |-> FALSE, status |-> "no-capture", terminal |-> nextUrl, old |-> FALSE,
                 body |-> "none"]
<1>1. r \in WaybackResults
  BY DEF WaybackResults, TypeOK
<1>2. answer' = Client!Returned(r) /\ pc' = "answered" /\ pc = "query" /\ shown' = {}
  BY DEF NoCapture, Return
<1>3. answer' \in Client!Answers /\ answer' # Client!Pending /\ ~answer'.result.hit
  <2>1. ~r.hit
    OBVIOUS
  <2>2. QED
    BY <1>1, <1>2, <2>1, ReturnedIs
<1>4. TypeOK'
  BY <1>2, <1>3 DEF TypeOK, NoCapture, PC, archiveVars, requestVars, walkVars, rowVars
<1>5. WalkInv'
  BY <1>2 DEF WalkInv, WalkBounded, ChainUnbroken, NoCapture, walkVars, rowVars
<1>6. RowInv' /\ AnswerInv'
  BY <1>2, <1>3 DEF RowInv, AnswerInv, HitEndsTheChain, GoodCaptureIsUsed, IsHit, Result
<1>7. QED
  BY <1>4, <1>5, <1>6

\* One more redirect: the third disjunct of FollowRedirect.
LEMMA FollowPreserves ==
  ASSUME IInv, LoadRedirect \/ ReplayRedirect, pc' # "answered"
  PROVE  IInv'
<1> USE DEF IInv
<1>1. /\ row \in Rows /\ row # NoRow /\ row.status \in Redirect
      /\ SurtOf[row.url] = SurtOf[Last] /\ i <= MaxRedirects
  BY RowKnown, NoRowIsNone DEF LoadRedirect, ReplayRedirect, RowInv, WalkInv
<1>2. PICK base \in {Last, row.url} :
        FollowRedirect(Target(base, row.location)) \/ FollowRedirect(NoUrl)
  BY DEF LoadRedirect, ReplayRedirect, Raise, Base, WalkInv
<1> DEFINE location == Target(base, row.location)
<1>3. /\ location \in Urls /\ ~Seen(location)
      /\ i' = i + 1 /\ nextUrl' = location /\ urlsSeen' = Append(urlsSeen, location)
      /\ chain' = Append(chain, row) /\ pc' = "query" /\ UNCHANGED answer
  <2>1. base \in Urls
    BY <1>1, RowFields DEF TypeOK, WalkInv, LoadRedirect, ReplayRedirect
  <2>2. location \in Urls \cup {NoUrl}
    BY <1>1, <2>1, TargetType
  <2>3. QED
    BY <1>2, <2>2 DEF FollowRedirect, Fail, Return
<1> HIDE DEF location
<1>4. UNCHANGED <<index, uploaded, best, closest, row, direct, shown>>
  BY DEF LoadRedirect, ReplayRedirect, archiveVars, requestVars, rowVars
<1>5. /\ urlsSeen' \in Seq(Urls) /\ Len(urlsSeen') = Len(urlsSeen) + 1
      /\ urlsSeen'[Len(urlsSeen) + 1] = location
      /\ \A k \in DOMAIN urlsSeen : urlsSeen'[k] = urlsSeen[k]
      /\ DOMAIN urlsSeen' = DOMAIN urlsSeen \cup {Len(urlsSeen) + 1}
      /\ DOMAIN urlsSeen = 1 .. Len(urlsSeen) /\ Len(urlsSeen) \in Nat
  BY <1>3 DEF TypeOK
<1>6. /\ chain' \in Seq(Rows) /\ Len(chain') = Len(chain) + 1
      /\ chain'[Len(chain) + 1] = row
      /\ \A k \in DOMAIN chain : chain'[k] = chain[k]
      /\ DOMAIN chain' = DOMAIN chain \cup {Len(chain) + 1}
      /\ DOMAIN chain = 1 .. Len(chain) /\ Len(chain) \in Nat
  BY <1>1, <1>3 DEF TypeOK
<1>7. TypeOK'
  BY <1>1, <1>3, <1>4, <1>5, <1>6, LookupAssumption DEF TypeOK, PC
<1>8. WalkBounded'
  <2>1. Len(urlsSeen') <= MaxRedirects + 2
    BY <1>1, <1>5, LookupAssumption DEF TypeOK, WalkInv
  <2>2. QED
    BY <1>3, <1>5, <2>1 DEF WalkInv, WalkBounded, Seen
<1>9. ChainUnbroken'
  <2>1. Len(urlsSeen) = Len(chain) + 1
    BY DEF WalkInv, ChainUnbroken
  <2>2. ASSUME NEW k \in DOMAIN chain
        PROVE  /\ SurtOf[chain'[k].url] = SurtOf[urlsSeen'[k]]
               /\ chain'[k].status \in Redirect
               /\ \E b \in {urlsSeen'[k], chain'[k].url} :
                    urlsSeen'[k + 1] = Target(b, chain'[k].location)
    <3>1. k \in DOMAIN urlsSeen /\ k + 1 \in DOMAIN urlsSeen
      BY <1>5, <1>6, <2>1
    <3>2. QED
      BY <3>1, <1>5, <1>6 DEF WalkInv, ChainUnbroken
  <2>3. /\ SurtOf[chain'[Len(chain) + 1].url] = SurtOf[urlsSeen'[Len(chain) + 1]]
        /\ chain'[Len(chain) + 1].status \in Redirect
        /\ \E b \in {urlsSeen'[Len(chain) + 1], chain'[Len(chain) + 1].url} :
             urlsSeen'[Len(chain) + 1 + 1] = Target(b, chain'[Len(chain) + 1].location)
    <3>1. Len(chain) + 1 \in DOMAIN urlsSeen
      BY <1>5, <1>6, <2>1
    <3>2. QED
      BY <3>1, <1>1, <1>3, <1>5, <1>6, <2>1 DEF Last, location
  <2>4. QED
    BY <1>5, <1>6, <2>1, <2>2, <2>3 DEF ChainUnbroken
<1>10. WalkInv'
  BY <1>1, <1>3, <1>4, <1>5, <1>8, <1>9 DEF WalkInv, Last
<1>11. RowInv' /\ AnswerInv'
  BY <1>3, NotAnswered
     DEF RowInv, AnswerInv, HitEndsTheChain, GoodCaptureIsUsed, IsHit, LoadRedirect, ReplayRedirect
<1>12. QED
  BY <1>7, <1>10, <1>11

LEMMA ArchivePreserves ==
  ASSUME IInv, Capture \/ Upload
  PROVE  IInv'
<1> USE DEF IInv
<1>1. /\ index' \subseteq Rows /\ uploaded' \subseteq index'
  BY DEF Capture, Upload, TypeOK
<1>2. UNCHANGED <<best, closest, pc, i, nextUrl, urlsSeen, row, direct, answer, shown, chain>>
  BY DEF Capture, Upload, requestVars, walkVars, rowVars, historyVars
<1>3. TypeOK'
  BY <1>1, <1>2 DEF TypeOK
<1>4. WalkInv' /\ RowInv' /\ AnswerInv'
  BY <1>2 DEF WalkInv, WalkBounded, ChainUnbroken, RowInv, IsRevisit, AnswerInv,
              HitEndsTheChain, GoodCaptureIsUsed, IsHit, Result, Last
<1>5. QED
  BY <1>3, <1>4

LEMMA StutterPreserves ==
  ASSUME IInv, UNCHANGED vars
  PROVE  IInv'
BY DEF vars, archiveVars, requestVars, walkVars, rowVars, historyVars, IInv, TypeOK, WalkInv,
       WalkBounded, ChainUnbroken, RowInv, IsRevisit, AnswerInv, HitEndsTheChain,
       GoodCaptureIsUsed, IsHit, Result, Last

\* Which lemma is about which step.
LEMMA WalkSteps ==
  ASSUME IInv, Walk
  PROVE  \/ NoCapture \/ LookupBest \/ (Quiet /\ Outcome)
         \/ ((LoadRedirect \/ ReplayRedirect) /\ pc' # "answered")
BY QuietStep DEF IInv, Walk

LEMMA StepPreserves ==
  ASSUME IInv, [Next]_vars
  PROVE  IInv'
<1>1. CASE Walk
  BY <1>1, WalkSteps, NoCapturePreserves, LookupBestPreserves, QuietPreserves, FollowPreserves
<1>2. CASE Capture \/ Upload
  BY <1>2, ArchivePreserves
<1>3. CASE UNCHANGED vars
  BY <1>3, StutterPreserves
<1>4. QED
  BY <1>1, <1>2, <1>3 DEF Next

LEMMA InitEstablishes ==
  ASSUME Init
  PROVE  IInv
<1>1. nextUrl \in Urls /\ urlsSeen = <<nextUrl>> /\ chain = <<>>
  BY LookupAssumption DEF Init
<1>2. TypeOK
  <2>0. i = 0 /\ i \in 0 .. MaxRedirects + 1
    BY LookupAssumption DEF Init
  <2>1. urlsSeen \in Seq(Urls) /\ chain \in Seq(Rows)
    BY <1>1
  <2>2. index \subseteq Rows /\ uploaded \subseteq index /\ pc \in PC /\ direct \in BOOLEAN
    BY DEF Init, PC
  <2>3. closest \in Closest /\ best \in BestMimetypes /\ answer \in Client!Answers
    BY PendingIs DEF Init
  <2>4. row \in Rows \cup {NoRow} /\ shown \subseteq Rows
    BY DEF Init
  <2>5. QED
    BY <1>1, <2>0, <2>1, <2>2, <2>3, <2>4 DEF TypeOK
<1>3. WalkInv
  BY <1>1, LookupAssumption DEF Init, WalkInv, WalkBounded, ChainUnbroken, Last
<1>4. RowInv /\ AnswerInv
  BY PendingIs DEF Init, RowInv, AnswerInv, HitEndsTheChain, GoodCaptureIsUsed, IsHit
<1>5. QED
  BY <1>2, <1>3, <1>4 DEF IInv

\* The inductive invariant of lookup_resource: the walk of its for loop, the row it is working
\* on, and what its answer says of both.
THEOREM LookupInductive == Spec => []IInv
<1>1. Init => IInv
  BY InitEstablishes
<1>2. IInv /\ [Next]_vars => IInv'
  BY StepPreserves
<1>3. QED
  BY <1>1, <1>2, PTL DEF Spec

-----------------------------------------------------------------------------
(* The properties.                                                         *)

\* The variables of lookup_resource keep their types in every walk.
THEOREM LookupTypeCorrect == Spec => []TypeOK
<1>1. IInv => TypeOK
  BY DEF IInv
<1>2. QED
  BY <1>1, LookupInductive, PTL

\* Every URL that lookup_resource goes on to is where a captured redirect of the URL before it
\* leads, a relative Location included.
THEOREM ChainsAreUnbroken == Spec => []ChainUnbroken
<1>1. IInv => ChainUnbroken
  BY DEF IInv, WalkInv
<1>2. QED
  BY <1>1, LookupInductive, PTL

\* The terminal URL of a hit is the one that the redirects lead to, and the body is that of
\* the row that the CDX API answered, of a document its revisit refers to, or of a capture of
\* the URL in that second.
THEOREM HitsEndTheirChains == Spec => []HitEndsTheChain
<1>1. IInv => HitEndsTheChain
  BY DEF IInv, AnswerInv
<1>2. QED
  BY <1>1, LookupInductive, PTL

\* The for loop and urls_seen bound the walk and keep it from a loop, for every max_redirects.
THEOREM WalksAreBounded == Spec => []WalkBounded
<1>1. IInv => WalkBounded
  BY DEF IInv, WalkInv
<1>2. QED
  BY <1>1, LookupInductive, PTL

\* The sort of lookup_best never loses a capture of a document under just the URL asked for.
THEOREM GoodCapturesAreUsed == Spec => []GoodCaptureIsUsed
<1>1. IInv => GoodCaptureIsUsed
  BY DEF IInv, AnswerInv
<1>2. QED
  BY <1>1, LookupInductive, PTL

LEMMA WalkAnswersOnce ==
  ASSUME IInv, Walk
  PROVE  answer = Client!Pending
BY NotAnswered
   DEF IInv, Walk, NoCapture, LookupBest, QueryFails, RedirectsExceeded, Branch, ByStatus,
       PetaboxFails, FetchesPetabox, LoadRevisit, ResolveRevisit, ResolutionFails, LoadGood,
       ReplayBody, LoadRedirect, ReplayRedirect, ReplayRedirectFails

LEMMA AnswerStep ==
  ASSUME answer = Client!Pending, answer' \in Client!Answers
  PROVE  Client!Next \/ UNCHANGED answer
BY DEF Client!Next, Client!Return, Client!Raise, Client!Answers, Client!Returned, Client!Raised

LEMMA StepImplementsClient ==
  ASSUME IInv, IInv', [Next]_vars
  PROVE  [Client!Next]_answer
<1>1. CASE Walk
  BY <1>1, WalkAnswersOnce, AnswerStep DEF IInv, TypeOK
<1>2. CASE Capture \/ Upload \/ UNCHANGED vars
  BY <1>2 DEF Capture, Upload, vars
<1>3. QED
  BY <1>1, <1>2 DEF Next

\* lookup_resource implements the client that its callers, ingest and SPNv2, are written for:
\* one answer, which is one of its ResourceResults or one of the exceptions.
THEOREM LookupImplementsClient == Spec => ImplementsClient
<1>1. Init => Client!Init
  BY DEF Init, Client!Init
<1>2. IInv /\ IInv' /\ [Next]_vars => [Client!Next]_answer
  BY StepImplementsClient
<1>3. QED
  BY <1>1, <1>2, LookupInductive, PTL DEF Spec, ImplementsClient, Client!Spec
=============================================================================
