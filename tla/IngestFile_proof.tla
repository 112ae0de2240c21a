-------------------------- MODULE IngestFile_proof --------------------------
(***************************************************************************)
(* For any set of URLs, any blocklists and any limit on hops, whatever     *)
(* links and redirects the pages contain: the hop loop is bounded          *)
(* (HopsDistinct, FetchBudget), a hit is the document that was asked for   *)
(* (HitIsTheDocument) and nothing else is published                        *)
(* (PublishedIsOfDocument).                                                *)
(***************************************************************************)
EXTENDS IngestFile, SequenceTheorems, TLAPS

USE IngestAssumption

\* What Append does, in one place.
LEMMA AppendFacts ==
  ASSUME NEW S, NEW s \in Seq(S), NEW u \in S
  PROVE  /\ Append(s, u) \in Seq(S)
         /\ Len(s) \in Nat /\ DOMAIN s = 1 .. Len(s)
         /\ Len(Append(s, u)) = Len(s) + 1
         /\ DOMAIN Append(s, u) = 1 .. Len(s) + 1
         /\ \A i \in 1 .. Len(s) : Append(s, u)[i] = s[i]
         /\ Append(s, u)[Len(s) + 1] = u
<1>1. Append(s, u) \in Seq(S) /\ Len(Append(s, u)) = Len(s) + 1
  OBVIOUS
<1>2. Len(s) \in Nat /\ DOMAIN s = 1 .. Len(s)
  BY LenProperties
<1>3. DOMAIN Append(s, u) = 1 .. Len(Append(s, u))
  BY <1>1, LenProperties
<1>4. QED
  BY <1>1, <1>2, <1>3

\* A list without repetitions stays one when something new is appended.
LEMMA AppendNew ==
  ASSUME NEW S, NEW s \in Seq(S), NEW u \in S,
         \A i, j \in DOMAIN s : s[i] = s[j] => i = j,
         \A i \in DOMAIN s : s[i] # u
  PROVE  \A i, j \in DOMAIN Append(s, u) : Append(s, u)[i] = Append(s, u)[j] => i = j
<1>1. SUFFICES ASSUME NEW i \in 1 .. Len(s) + 1, NEW j \in 1 .. Len(s) + 1,
                      Append(s, u)[i] = Append(s, u)[j]
               PROVE  i = j
  BY AppendFacts
<1>2. \A k \in 1 .. Len(s) : Append(s, u)[k] = s[k] /\ s[k] # u
  BY AppendFacts
<1>3. CASE i = Len(s) + 1
  BY <1>1, <1>2, <1>3, AppendFacts
<1>4. CASE j = Len(s) + 1
  BY <1>1, <1>2, <1>4, AppendFacts
<1>5. CASE i \in 1 .. Len(s) /\ j \in 1 .. Len(s)
  BY <1>1, <1>2, <1>5, AppendFacts
<1>6. QED
  BY <1>3, <1>4, <1>5, AppendFacts

\* The hops after the terminal URL has been noted.
LEMMA HopsWithFacts ==
  ASSUME NEW u \in Urls \cup {NoUrl}, hops \in Seq(Urls)
  PROVE  /\ HopsWith(u) \in Seq(Urls)
         /\ Len(hops) \in Nat /\ DOMAIN hops = 1 .. Len(hops)
         /\ DOMAIN HopsWith(u) = 1 .. Len(HopsWith(u))
         /\ Len(HopsWith(u)) \in {Len(hops), Len(hops) + 1}
         /\ \A i \in DOMAIN hops : i \in DOMAIN HopsWith(u) /\ HopsWith(u)[i] = hops[i]
         /\ u # NoUrl => \E i \in DOMAIN HopsWith(u) : HopsWith(u)[i] = u
         /\ (\A i, j \in DOMAIN hops : hops[i] = hops[j] => i = j)
              => \A i, j \in DOMAIN HopsWith(u) : HopsWith(u)[i] = HopsWith(u)[j] => i = j
<1>1. Len(hops) \in Nat /\ DOMAIN hops = 1 .. Len(hops)
  BY LenProperties
<1>2. CASE u = NoUrl \/ \E i \in DOMAIN hops : hops[i] = u
  BY <1>1, <1>2 DEF HopsWith
<1>3. CASE u \in Urls /\ \A i \in DOMAIN hops : hops[i] # u
  <2>1. HopsWith(u) = Append(hops, u)
    BY <1>3 DEF HopsWith
  <2>2. QED
    BY <1>1, <1>3, <2>1, AppendFacts, AppendNew
<1>4. QED
  BY <1>2, <1>3

-----------------------------------------------------------------------------
(* Type correctness.                                                       *)

\* find_resource leads to one of its steps.
LEMMA FindResourceType ==
  /\ FindResource \in {"lookup", "crawl", "fetched"}
  /\ \A r : AfterLookup(r) \in {"crawl", "fetched"}
BY DEF FindResource, AfterLookup

LEMMA InitTypeOK == Init => TypeOK
<1>1. SUFFICES ASSUME Init PROVE TypeOK
  OBVIOUS
<1>2. hops \in Seq(Urls) /\ fetched \in Seq(Call)
  <2>1. hops = <<nextUrl>> /\ nextUrl \in Urls /\ fetched = <<>>
    BY <1>1 DEF Init
  <2>2. QED
    BY <2>1
<1>3. resource \in Resource
  BY <1>1 DEF Init, NoResource, Resource
<1>4. result \in [status : Status, hit : BOOLEAN, terminal : Urls \cup {NoUrl},
                  fileMeta : Document]
  BY <1>1 DEF Init, NoResult, NoDocument, Document, Status, CrawlError, LookupError
<1>5. QED
  BY <1>1, <1>2, <1>3, <1>4 DEF Init, TypeOK, PC

Results == [status : Status, hit : BOOLEAN, terminal : Urls \cup {NoUrl}, fileMeta : Document]

\* What Answer makes of a result is a result.
LEMMA AnswerType ==
  ASSUME TypeOK, NEW status \in Status, Answer(status)
  PROVE  pc' \in PC /\ result' \in Results
BY DEF TypeOK, Answer, PC, Results

LEMMA CurrentType ==
  ASSUME TypeOK
  PROVE  Current \in Document
BY DEF TypeOK, Current, Document, Resource

\* Counting a crawl keeps the types.
LEMMA CrawlAttemptType ==
  ASSUME TypeOK, CrawlAttempt
  PROVE  crawls' \in Nat /\ UNCHANGED published
BY DEF TypeOK, CrawlAttempt

\* One more call of find_resource.
LEMMA CallFacts ==
  ASSUME TypeOK, NEW url \in Urls
  PROVE  /\ CallFor(url) \in Seq(Call)
         /\ Len(fetched) \in Nat /\ DOMAIN fetched = 1 .. Len(fetched)
         /\ Len(CallFor(url)) = Len(fetched) + 1
         /\ DOMAIN CallFor(url) = 1 .. Len(fetched) + 1
         /\ \A i \in DOMAIN fetched : CallFor(url)[i] = fetched[i]
         /\ CallFor(url)[Len(fetched) + 1] = [url |-> url, hop |-> nextUrl]
<1>1. fetched \in Seq(Call) /\ [url |-> url, hop |-> nextUrl] \in Call
  BY DEF TypeOK, Call
<1>2. QED
  BY <1>1, AppendFacts DEF CallFor

LEMMA LocalTypeOK ==
  ASSUME TypeOK, Local
  PROVE  TypeOK'
<1> USE DEF requestVars, linkVars, fetchVars, historyVars
<1> HIDE DEF Results
<1>1. CASE SkipRequest \/ TooManyHops \/ SkipHop \/ LinkLoop \/ NoPdfLink
  <2>1. {"blocked", "max-hops-exceeded", "link-loop", "no-pdf-link"} \subseteq Status
    BY DEF Status
  <2>2. PICK status \in Status : Answer(status)
    BY <1>1, <2>1 DEF SkipRequest, TooManyHops, SkipHop, LinkLoop, NoPdfLink
  <2>3. QED
    BY <1>1, <2>2, AnswerType
       DEF TypeOK, Results, SkipRequest, TooManyHops, SkipHop, LinkLoop, NoPdfLink
<1>2. CASE BeginHops \/ NoResourceFound
  BY <1>2 DEF TypeOK, BeginHops, NoResourceFound, PC
<1>3. CASE FetchHop
  <2>1. target' \in Urls /\ inHack' \in BOOLEAN
    BY <1>3 DEF TypeOK, FetchHop
  <2>2. fetched' \in Seq(Call)
    BY <1>3, <2>1, CallFacts DEF FetchHop
  <2>3. resource' \in Resource
    BY <1>3 DEF FetchHop, NoResource, Resource
  <2>4. pc' \in PC
    BY <1>3, FindResourceType DEF FetchHop, PC
  <2>5. QED
    BY <1>3, <2>1, <2>2, <2>3, <2>4 DEF TypeOK, FetchHop
<1>4. CASE RejectResource \/ TakeResource
  <2>1. resource.terminal \in Urls \cup {NoUrl}
    BY DEF TypeOK, Resource
  <2>2. hops' \in Seq(Urls)
    BY <1>4, <2>1, HopsWithFacts DEF TypeOK, RejectResource, TakeResource
  <2>3. RejectionStatus \in Status
    BY DEF RejectionStatus, Status, TypeOK, Resource
  <2>4. Terminal(resource) \in Urls \cup {NoUrl}
    BY <2>1 DEF Terminal, TypeOK
  <2>5. result' \in Results /\ pc' \in PC
    BY <1>4, <2>3, <2>4 DEF RejectResource, TakeResource, TypeOK, Results, PC
  <2>6. QED
    BY <1>4, <2>2, <2>5 DEF RejectResource, TakeResource, TypeOK, Results
<1>5. CASE FollowLink
  BY <1>5, AppendFacts DEF FollowLink, TypeOK, PC
<1>6. CASE StopHopping
  <2>1. "max-hops-exceeded" \in Status
    BY DEF Status
  <2>2. pc' \in PC /\ result' \in Results
    BY <1>6, <2>1, AnswerType DEF StopHopping, TypeOK, Results, PC
  <2>3. QED
    BY <1>6, <2>2 DEF StopHopping, TypeOK, Results
<1>7. CASE AcceptDocument \/ RejectDocument
  <2>1. {"wrong-mimetype", "blocked"} \subseteq Status
    BY DEF Status
  <2>2. result' \in Results
    BY <1>7, <2>1, CurrentType DEF AcceptDocument, RejectDocument, TypeOK, Results
  <2>3. pc' \in PC
    BY <1>7 DEF AcceptDocument, RejectDocument, Processing, PC
  <2>4. QED
    BY <1>7, <2>2, <2>3 DEF AcceptDocument, RejectDocument, TypeOK, Results
<1>8. CASE ProcessXml
  <2>1. "derive-error" \in Status
    BY DEF Status
  <2>2. pc' \in PC /\ result' \in Results
    BY <1>8, <2>1, AnswerType DEF ProcessXml, TypeOK, Results, PC
  <2>3. published' \in SUBSET (Derivative \X Document)
    BY <1>8, CurrentType DEF ProcessXml, Publish, TypeOK, Derivative
  <2>4. QED
    BY <1>8, <2>2, <2>3 DEF ProcessXml, TypeOK, Results
<1>9. CASE Succeed
  BY <1>9 DEF Succeed, TypeOK, PC, Status, CrawlError, LookupError
<1>10. CASE PushThumbnail
  BY <1>10, CurrentType DEF PushThumbnail, Publish, TypeOK, PC, Derivative
<1>11. QED
  BY <1>1, <1>2, <1>3, <1>4, <1>5, <1>6, <1>7, <1>8, <1>9, <1>10 DEF Local

LEMMA RemoteTypeOK ==
  ASSUME TypeOK, Remote
  PROVE  TypeOK'
<1> USE DEF requestVars, linkVars, fetchVars, historyVars
<1>1. CASE LookupResource
  <2>1. PICK r \in WaybackResults :
          resource' = r /\ pc' = AfterLookup(r) /\ inHack' = (inHack /\ NeedsCrawl(r))
    BY <1>1 DEF LookupResource
  <2>2. r \in Resource
    BY DEF WaybackResults, Resource
  <2>3. pc' \in PC
    BY <2>1, FindResourceType DEF PC
  <2>4. QED
    BY <1>1, <2>1, <2>2, <2>3 DEF LookupResource, TypeOK
<1>2. CASE CrawlResource
  <2>1. resource' \in Resource
    BY <1>2 DEF CrawlResource, CrawlResults, Resource
  <2>2. crawls' \in Nat
    BY <1>2 DEF CrawlResource, TypeOK
  <2>3. inHack' \in BOOLEAN /\ pc' \in PC
    BY <1>2 DEF CrawlResource, PC
  <2>4. QED
    BY <1>2, <2>1, <2>2, <2>3 DEF CrawlResource, TypeOK
<1>3. CASE FetchFails
  <2>1. LookupError \subseteq Status /\ CrawlError \subseteq Status
    BY DEF Status, CrawlError
  <2>2. PICK e \in Status : Answer(e) /\ CrawlAttempt
    BY <1>3, <2>1 DEF FetchFails
  <2>3. QED
    BY <1>3, <2>2, AnswerType, CrawlAttemptType DEF FetchFails, TypeOK, Results
<1>4. CASE FetchRaises
  BY <1>4, CrawlAttemptType DEF FetchRaises, TypeOK, PC
<1>5. CASE HackFails
  <2>1. resource' \in Resource /\ pc' \in PC
    BY <1>5, FindResourceType DEF HackFails, NoResource, Resource, PC
  <2>2. CrawlAttempt
    BY <1>5 DEF HackFails
  <2>3. target' \in Urls /\ inHack' \in BOOLEAN
    BY <1>5 DEF HackFails, LeaveHack, TypeOK
  <2>4. fetched' \in Seq(Call)
    BY <1>5, CallFacts DEF HackFails, LeaveHack, TypeOK
  <2>5. QED
    BY <1>5, <2>1, <2>2, <2>3, <2>4, CrawlAttemptType DEF HackFails, TypeOK
<1>6. CASE ProcessGrobid \/ ProcessPdfextract
  BY <1>6, CurrentType DEF ProcessGrobid, ProcessPdfextract, Publish, TypeOK, PC, Derivative
<1>7. CASE ProcessHtml
  <2>1. "derive-error" \in Status
    BY DEF Status
  <2>2. pc' \in PC /\ result' \in Results
    BY <1>7, <2>1, AnswerType DEF ProcessHtml, TypeOK, Results, PC
  <2>3. published' \in SUBSET (Derivative \X Document)
    BY <1>7, CurrentType DEF ProcessHtml, Publish, TypeOK, Derivative
  <2>4. QED
    BY <1>7, <2>2, <2>3 DEF ProcessHtml, TypeOK, Results
<1>8. CASE FetchHtmlResources
  <2>1. "derive-error" \in Status /\ LookupError \subseteq Status
    BY DEF Status, CrawlError
  <2>2. pc' \in PC /\ result' \in Results
    BY <1>8, <2>1, AnswerType DEF FetchHtmlResources, TypeOK, Results, PC
  <2>3. QED
    BY <1>8, <2>2 DEF FetchHtmlResources, TypeOK, Results
<1>9. CASE ProcessingRaises
  BY <1>9 DEF ProcessingRaises, TypeOK, PC
<1>10. QED
  BY <1>1, <1>2, <1>3, <1>4, <1>5, <1>6, <1>7, <1>8, <1>9 DEF Remote

LEMMA AlarmTypeOK ==
  ASSUME TypeOK, Alarm
  PROVE  TypeOK'
<1> USE DEF requestVars, linkVars, fetchVars, historyVars
<1>1. CASE TimeOut
  <2>1. [NoResult EXCEPT !.status = "timeout"] \in Results
    BY DEF NoResult, NoDocument, Document, Results, Status
  <2>2. QED
    BY <1>1, <2>1 DEF TimeOut, TypeOK, Results, PC
<1>2. CASE TimeOutInHack
  <2>1. resource' \in Resource /\ pc' \in PC
    BY <1>2, FindResourceType DEF TimeOutInHack, NoResource, Resource, PC
  <2>2. target' \in Urls /\ inHack' \in BOOLEAN /\ armed' \in BOOLEAN
    BY <1>2 DEF TimeOutInHack, LeaveHack, TypeOK
  <2>3. fetched' \in Seq(Call)
    BY <1>2, CallFacts DEF TimeOutInHack, LeaveHack, TypeOK
  <2>4. QED
    BY <1>2, <2>1, <2>2, <2>3, CrawlAttemptType DEF TimeOutInHack, TypeOK
<1>3. CASE TimeOutSwallowed
  BY <1>3 DEF TimeOutSwallowed, TypeOK
<1>4. QED
  BY <1>1, <1>2, <1>3 DEF Alarm

LEMMA TypeStep == TypeOK /\ [Next]_vars => TypeOK'
<1>1. CASE UNCHANGED vars
  BY <1>1 DEF vars, requestVars, TypeOK
<1>2. QED
  BY <1>1, LocalTypeOK, RemoteTypeOK, AlarmTypeOK DEF Next

\* Every variable keeps its type.
THEOREM IngestTypeCorrect == Spec => []TypeOK
BY InitTypeOK, TypeStep, PTL DEF Spec

-----------------------------------------------------------------------------
(* The hop loop is bounded.                                                *)

LEMMA InitHops == Init => HopsInv
<1>1. SUFFICES ASSUME Init PROVE HopsInv
  OBVIOUS
<1>2. hops = <<nextUrl>> /\ pc = "start"
  BY <1>1 DEF Init
<1>3. Len(hops) = 1 /\ DOMAIN hops = {1}
  BY <1>2
<1>4. QED
  BY <1>2, <1>3 DEF HopsInv, HopsDistinct, Fetching

\* The hops only change when a terminal URL is noted or a link is followed.
LEMMA HopsStep == TypeOK /\ HopsInv /\ [Next]_vars => HopsInv'
<1>1. SUFFICES ASSUME TypeOK, HopsInv, [Next]_vars PROVE HopsInv'
  OBVIOUS
<1> USE DEF linkVars, Fetching, HopsInv, HopsDistinct
<1>2. hops \in Seq(Urls) /\ Len(hops) \in Nat /\ DOMAIN hops = 1 .. Len(hops)
  BY <1>1, LenProperties DEF TypeOK
<1>3. CASE RejectResource \/ TakeResource
  <2>1. resource.terminal \in Urls \cup {NoUrl}
    BY <1>1 DEF TypeOK, Resource
  <2>2. hops' = HopsWith(resource.terminal) /\ pc = "fetched" /\ pc' \in {"answered", "parse"}
    BY <1>3 DEF RejectResource, TakeResource
  <2>3. Len(hops') \in {Len(hops), Len(hops) + 1}
        /\ \A i, j \in DOMAIN hops' : hops'[i] = hops'[j] => i = j
    BY <1>1, <1>2, <2>1, <2>2, HopsWithFacts
  <2>4. QED
    BY <1>1, <1>2, <2>2, <2>3
<1>4. CASE FollowLink
  <2>1. PICK url \in Urls : ~IsHop(url) /\ hops' = Append(hops, url)
    BY <1>4 DEF FollowLink
  <2>2. \A i, j \in DOMAIN hops' : hops'[i] = hops'[j] => i = j
    BY <1>1, <1>2, <2>1, AppendNew DEF IsHop, Seen
  <2>3. pc = "parse" /\ pc' = "hop" /\ Len(hops') = Len(hops) + 1
    BY <1>2, <1>4, <2>1, AppendFacts DEF FollowLink
  <2>4. QED
    BY <1>1, <1>2, <2>2, <2>3
<1>5. CASE FetchHop
  BY <1>1, <1>2, <1>5, FindResourceType DEF FetchHop
<1>6. CASE LookupResource
  BY <1>1, <1>2, <1>6, FindResourceType DEF LookupResource, fetchVars
<1>7. CASE HackFails \/ TimeOutInHack
  BY <1>1, <1>2, <1>7, FindResourceType DEF HackFails, TimeOutInHack
<1>8. CASE SkipRequest \/ BeginHops \/ TooManyHops \/ SkipHop \/ NoResourceFound
           \/ LinkLoop \/ NoPdfLink \/ StopHopping
  BY <1>1, <1>8 DEF SkipRequest, BeginHops, TooManyHops, SkipHop, NoResourceFound, LinkLoop,
                    NoPdfLink, StopHopping, Answer
<1>9. CASE AcceptDocument \/ RejectDocument \/ ProcessXml \/ Succeed
  BY <1>1, <1>9 DEF AcceptDocument, RejectDocument, ProcessXml, Succeed, Answer, Processing
<1>10. CASE CrawlResource \/ FetchFails \/ FetchRaises
  BY <1>1, <1>10 DEF CrawlResource, FetchFails, FetchRaises, Answer
<1>11. CASE ProcessGrobid \/ PushThumbnail \/ ProcessPdfextract \/ ProcessHtml
            \/ FetchHtmlResources \/ ProcessingRaises
  BY <1>1, <1>11 DEF ProcessGrobid, PushThumbnail, ProcessPdfextract, ProcessHtml,
                     FetchHtmlResources, ProcessingRaises, Answer
<1>12. CASE TimeOut \/ TimeOutSwallowed
  BY <1>1, <1>12 DEF TimeOut, TimeOutSwallowed
<1>13. CASE UNCHANGED vars
  BY <1>1, <1>13 DEF vars
<1>14. QED
  BY <1>1, <1>3, <1>4, <1>5, <1>6, <1>7, <1>8, <1>9, <1>10, <1>11, <1>12, <1>13
     DEF Next, Local, Remote, Alarm

LEMMA InitFetch == Init => FetchInv
<1>1. SUFFICES ASSUME Init PROVE FetchInv
  OBVIOUS
<1>2. hops = <<nextUrl>> /\ fetched = <<>> /\ crawls = 0 /\ pc = "start" /\ ~inHack
  BY <1>1 DEF Init
<1>3. Len(hops) = 1 /\ DOMAIN hops = {1} /\ hops[1] = nextUrl
      /\ Len(fetched) = 0 /\ DOMAIN fetched = {}
  BY <1>2
<1>4. QED
  BY <1>2, <1>3 DEF FetchInv, FetchBudget, CallsOfHops, Fetching, Seen

\* Steps that neither fetch nor hop, and do not go back to the top of the loop.
LEMMA FetchUnchanged ==
  ASSUME TypeOK, FetchInv, UNCHANGED <<hops, fetched, crawls, nextUrl>>,
         \/ pc' \notin {"start", "hop", "lookup", "crawl"} /\ ~inHack'
         \/ UNCHANGED <<pc, inHack>>
         \/ pc = "start" /\ pc' = "hop" /\ UNCHANGED inHack
  PROVE  FetchInv'
BY DEF FetchInv, FetchBudget, CallsOfHops, Fetching, Seen

\* A call that has not been made yet is one of its hop, and the third of no URL: the other
\* hop that may ask for the URL is the one it is the stripped form of.
LEMMA NewCall ==
  ASSUME TypeOK, CallsOfHops, UNCHANGED hops, Seen(nextUrl), NEW url \in Urls,
         url = nextUrl \/ (nextUrl \in DOMAIN ArxivStripped /\ url = ArxivStripped[nextUrl]),
         \A i \in DOMAIN fetched : fetched[i] # [url |-> url, hop |-> nextUrl],
         fetched' = CallFor(url)
  PROVE  /\ CallsOfHops'
         /\ \A i, j, k \in DOMAIN fetched' :
              fetched'[i].url = fetched'[j].url /\ fetched'[j].url = fetched'[k].url
                => i = j \/ j = k \/ i = k
<1>1. /\ Len(fetched) \in Nat /\ DOMAIN fetched = 1 .. Len(fetched)
      /\ DOMAIN fetched' = 1 .. Len(fetched) + 1
      /\ \A i \in DOMAIN fetched : fetched'[i] = fetched[i]
      /\ fetched'[Len(fetched) + 1] = [url |-> url, hop |-> nextUrl]
  BY CallFacts
<1>2. \A u : Seen(u)' <=> Seen(u)
  BY DEF Seen
<1>3. \A i \in DOMAIN fetched' :
        /\ Seen(fetched'[i].hop)
        /\ \/ fetched'[i].url = fetched'[i].hop
           \/ /\ fetched'[i].hop \in DOMAIN ArxivStripped
              /\ fetched'[i].url = ArxivStripped[fetched'[i].hop]
  <2>1. SUFFICES ASSUME NEW i \in DOMAIN fetched'
                 PROVE  /\ Seen(fetched'[i].hop)
                        /\ \/ fetched'[i].url = fetched'[i].hop
                           \/ /\ fetched'[i].hop \in DOMAIN ArxivStripped
                              /\ fetched'[i].url = ArxivStripped[fetched'[i].hop]
    OBVIOUS
  <2>2. CASE i \in DOMAIN fetched
    BY <1>1, <2>2 DEF CallsOfHops
  <2>3. CASE i = Len(fetched) + 1
    BY <1>1, <2>3
  <2>4. QED
    BY <1>1, <2>2, <2>3
<1>4. \A i, j \in DOMAIN fetched' : fetched'[i] = fetched'[j] => i = j
  <2>1. fetched \in Seq(Call) /\ [url |-> url, hop |-> nextUrl] \in Call
    BY DEF TypeOK, Call
  <2>2. QED
    BY <2>1, AppendNew DEF CallFor, CallsOfHops
<1>5. ASSUME NEW i \in DOMAIN fetched', NEW j \in DOMAIN fetched',
             fetched'[i].url = fetched'[j].url, fetched'[i].hop = fetched'[j].hop
      PROVE  i = j
  <2>1. \A k \in DOMAIN fetched' : fetched'[k] \in Call
    <3>1. fetched' \in Seq(Call)
      BY CallFacts
    <3>2. QED
      BY <3>1
  <2>2. fetched'[i] = fetched'[j]
    BY <1>5, <2>1 DEF Call
  <2>3. QED
    BY <1>4, <2>2
<1>6. ASSUME NEW i \in DOMAIN fetched', NEW j \in DOMAIN fetched', NEW k \in DOMAIN fetched',
             fetched'[i].url = fetched'[j].url, fetched'[j].url = fetched'[k].url
      PROVE  i = j \/ j = k \/ i = k
  <2>1. \/ fetched'[i].hop = fetched'[j].hop
        \/ fetched'[j].hop = fetched'[k].hop
        \/ fetched'[i].hop = fetched'[k].hop
    BY <1>3, <1>6, IngestAssumption
  <2>2. QED
    BY <1>5, <1>6, <2>1
<1>7. CallsOfHops'
  BY <1>2, <1>3, <1>4 DEF CallsOfHops
<1>8. QED
  BY <1>6, <1>7

LEMMA FetchStep == TypeOK /\ HopsInv /\ FetchInv /\ [Next]_vars => FetchInv'
<1>1. SUFFICES ASSUME TypeOK, HopsInv, FetchInv, [Next]_vars PROVE FetchInv'
  OBVIOUS
<1> USE DEF linkVars, fetchVars, historyVars
<1>2. /\ hops \in Seq(Urls) /\ Len(hops) \in Nat /\ DOMAIN hops = 1 .. Len(hops)
      /\ fetched \in Seq(Call) /\ Len(fetched) \in Nat /\ DOMAIN fetched = 1 .. Len(fetched)
      /\ crawls \in Nat /\ MaxHops \in Nat /\ nextUrl \in Urls
  BY <1>1, LenProperties DEF TypeOK
<1>3. CASE RejectResource \/ TakeResource
  <2>1. resource.terminal \in Urls \cup {NoUrl}
    BY <1>1 DEF TypeOK, Resource
  <2>2. /\ hops' = HopsWith(resource.terminal)
        /\ pc = "fetched" /\ pc' \in {"answered", "parse"}
        /\ UNCHANGED <<fetched, crawls, inHack>>
    BY <1>3 DEF RejectResource, TakeResource
  <2>3. /\ Len(hops') \in {Len(hops), Len(hops) + 1}
        /\ \A i \in DOMAIN hops : i \in DOMAIN hops' /\ hops'[i] = hops[i]
    BY <1>1, <1>2, <2>1, <2>2, HopsWithFacts
  <2>4. \A url : Seen(url) => Seen(url)'
    BY <2>3 DEF Seen
  <2>5. ~inHack
    BY <1>1, <2>2 DEF FetchInv, Fetching
  <2>6. FetchBudget' /\ CallsOfHops'
    BY <1>1, <2>2, <2>4 DEF FetchInv, FetchBudget, CallsOfHops
  <2>7. Len(fetched') <= 2 * Len(hops')
    BY <1>1, <1>2, <2>2, <2>3 DEF FetchInv
  <2>8. QED
    BY <2>2, <2>5, <2>6, <2>7 DEF FetchInv, Fetching
<1>4. CASE FollowLink
  <2>1. PICK url \in Urls : ~IsHop(url) /\ hops' = Append(hops, url) /\ nextUrl' = url
    BY <1>4 DEF FollowLink
  <2>2. pc = "parse" /\ pc' = "hop" /\ UNCHANGED <<fetched, crawls, inHack>>
    BY <1>4 DEF FollowLink
  <2>3. Len(hops') = Len(hops) + 1 /\ DOMAIN hops' = 1 .. Len(hops) + 1
        /\ hops'[Len(hops) + 1] = url /\ \A i \in DOMAIN hops : hops'[i] = hops[i]
    BY <1>2, <2>1, AppendFacts
  <2>4. \A u : Seen(u) => Seen(u)'
    BY <1>2, <2>3 DEF Seen
  <2>5. \A i \in DOMAIN fetched : fetched[i].hop # url
    BY <1>1, <2>1 DEF FetchInv, CallsOfHops, IsHop
  <2>6. ~inHack
    BY <1>1, <2>2 DEF FetchInv, Fetching
  <2>7. Seen(nextUrl)'
    BY <1>2, <2>1, <2>3 DEF Seen
  <2>8. FetchBudget' /\ CallsOfHops'
    BY <1>1, <2>2, <2>4 DEF FetchInv, FetchBudget, CallsOfHops
  <2>9. Len(fetched') <= 2 * Len(hops') - 2
    BY <1>1, <1>2, <2>2, <2>3 DEF FetchInv
  <2>10. Len(fetched') <= 2 * Len(hops')
    BY <1>1, <1>2, <2>2, <2>3 DEF FetchInv
  <2>11. \A i \in DOMAIN fetched' : fetched'[i].hop # nextUrl'
    BY <2>1, <2>2, <2>5
  <2>12. QED
    BY <2>2, <2>6, <2>7, <2>8, <2>9, <2>10, <2>11 DEF FetchInv, Fetching
<1>5. CASE FetchHop
  <2>1. /\ pc = "hop" /\ Len(hops) <= MaxHops /\ fetched' = CallFor(target')
        /\ target' \in Urls
        /\ \/ target' = nextUrl
           \/ nextUrl \in DOMAIN ArxivStripped /\ target' = ArxivStripped[nextUrl]
        /\ pc' = FindResource /\ UNCHANGED <<hops, nextUrl, crawls>>
    BY <1>1, <1>5 DEF FetchHop, TypeOK
  <2>2. /\ inHack' => nextUrl \in DOMAIN ArxivStripped /\ pc' \in {"lookup", "crawl"}
        /\ inHack' => target' # nextUrl
    BY <1>5, FindResourceType, IngestAssumption DEF FetchHop
  <2>3. Seen(nextUrl) /\ Len(fetched) <= 2 * Len(hops) - 2 /\ crawls <= Len(fetched)
        /\ \A i \in DOMAIN fetched : fetched[i].hop # nextUrl
    BY <1>1, <2>1 DEF FetchInv, FetchBudget
  <2>4. /\ Len(fetched') = Len(fetched) + 1 /\ DOMAIN fetched' = 1 .. Len(fetched) + 1
        /\ \A i \in DOMAIN fetched : fetched'[i] = fetched[i]
        /\ fetched'[Len(fetched) + 1] = [url |-> target', hop |-> nextUrl]
    BY <1>1, <2>1, CallFacts
  <2>5. \A i \in DOMAIN fetched : fetched[i] # [url |-> target', hop |-> nextUrl]
    BY <2>3
  <2>6. /\ CallsOfHops'
        /\ \A i, j, k \in DOMAIN fetched' :
             fetched'[i].url = fetched'[j].url /\ fetched'[j].url = fetched'[k].url
               => i = j \/ j = k \/ i = k
    BY <1>1, <2>1, <2>3, <2>5, NewCall DEF FetchInv
  <2>7. /\ Len(fetched') < 2 * Len(hops') /\ Len(fetched') <= 2 * MaxHops
        /\ crawls' < Len(fetched')
    BY <1>2, <2>1, <2>3, <2>4
  <2>8. FetchBudget'
    BY <1>2, <2>1, <2>4, <2>6, <2>7 DEF FetchBudget
  <2>9. pc' \notin {"start", "hop"}
    BY <2>1, FindResourceType
  <2>10. inHack' => \A i \in DOMAIN fetched' : fetched'[i] # [url |-> nextUrl, hop |-> nextUrl]
    BY <1>2, <2>2, <2>3, <2>4
  <2>11. Seen(nextUrl)' /\ Len(fetched') <= 2 * Len(hops')
    BY <1>2, <2>1, <2>3, <2>4 DEF Seen
  <2>12. QED
    BY <2>1, <2>2, <2>6, <2>7, <2>8, <2>9, <2>10, <2>11 DEF FetchInv, Fetching
<1>6. CASE LookupResource
  <2>1. PICK r : pc' = AfterLookup(r) /\ inHack' = (inHack /\ NeedsCrawl(r))
    BY <1>6 DEF LookupResource
  <2>2. pc = "lookup" /\ UNCHANGED <<hops, nextUrl, fetched, crawls>>
    BY <1>6 DEF LookupResource
  <2>3. /\ inHack' => inHack
        /\ inHack' => pc' = "crawl"
        /\ pc' \in {"crawl", "fetched"}
    <3>1. CASE NeedsCrawl(r)
      BY <1>1, <2>1, <3>1 DEF AfterLookup, TypeOK
    <3>2. CASE ~NeedsCrawl(r)
      BY <2>1, <3>2 DEF AfterLookup
    <3>3. QED
      BY <3>1, <3>2
  <2>4. FetchBudget' /\ CallsOfHops' /\ (Seen(nextUrl) => Seen(nextUrl)')
    BY <1>1, <2>2 DEF FetchInv, FetchBudget, CallsOfHops, Seen
  <2>5. QED
    BY <1>1, <1>2, <2>2, <2>3, <2>4 DEF FetchInv, Fetching
<1>7. CASE HackFails \/ TimeOutInHack
  <2>1. /\ pc \in {"lookup", "crawl"} /\ inHack /\ ~inHack' /\ fetched' = CallFor(nextUrl)
        /\ pc' = FindResource /\ UNCHANGED <<hops, nextUrl>>
        /\ crawls' \in {crawls, crawls + 1}
    BY <1>7 DEF HackFails, TimeOutInHack, LeaveHack, CrawlAttempt
  <2>2. /\ Seen(nextUrl) /\ crawls < Len(fetched) /\ Len(fetched) < 2 * Len(hops)
        /\ Len(hops) <= MaxHops
        /\ \A i \in DOMAIN fetched : fetched[i] # [url |-> nextUrl, hop |-> nextUrl]
    BY <1>1, <2>1 DEF FetchInv, Fetching, HopsInv
  <2>3. pc' \in {"lookup", "crawl", "fetched"}
    BY <2>1, FindResourceType
  <2>4. Len(fetched') = Len(fetched) + 1
    BY <1>1, <1>2, <2>1, CallFacts
  <2>5. /\ CallsOfHops'
        /\ \A i, j, k \in DOMAIN fetched' :
             fetched'[i].url = fetched'[j].url /\ fetched'[j].url = fetched'[k].url
               => i = j \/ j = k \/ i = k
    BY <1>1, <1>2, <2>1, <2>2, NewCall DEF FetchInv
  <2>6. /\ Len(fetched') <= 2 * Len(hops') /\ Len(fetched') <= 2 * MaxHops
        /\ crawls' < Len(fetched') /\ crawls' <= Len(fetched')
    BY <1>2, <2>1, <2>2, <2>4
  <2>7. FetchBudget'
    BY <2>5, <2>6 DEF FetchBudget
  <2>8. Seen(nextUrl)'
    BY <2>1, <2>2 DEF Seen
  <2>9. QED
    BY <2>1, <2>3, <2>5, <2>6, <2>7, <2>8 DEF FetchInv, Fetching
<1>8. CASE CrawlResource \/ FetchFails \/ FetchRaises
  <2>1. /\ pc \in {"lookup", "crawl"} /\ ~inHack'
        /\ pc' \in {"fetched", "answered", "raised"}
        /\ UNCHANGED <<hops, nextUrl, fetched>> /\ crawls' \in {crawls, crawls + 1}
    BY <1>8 DEF CrawlResource, FetchFails, FetchRaises, CrawlAttempt, Answer
  <2>2. crawls' <= Len(fetched)
    BY <1>1, <1>2, <2>1 DEF FetchInv, Fetching
  <2>3. FetchBudget' /\ CallsOfHops'
    BY <1>1, <2>1, <2>2 DEF FetchInv, FetchBudget, CallsOfHops, Seen
  <2>4. QED
    BY <1>1, <1>2, <2>1, <2>3 DEF FetchInv, Fetching
<1>9. CASE SkipRequest \/ BeginHops \/ TooManyHops \/ SkipHop \/ NoResourceFound
           \/ LinkLoop \/ NoPdfLink \/ StopHopping
  <2>1. UNCHANGED <<hops, fetched, crawls, nextUrl, inHack>> /\ ~inHack
    BY <1>1, <1>9 DEF SkipRequest, BeginHops, TooManyHops, SkipHop, NoResourceFound, LinkLoop,
                      NoPdfLink, StopHopping, FetchInv, Fetching
  <2>2. \/ pc' \in {"answered", "raised", "document"}
        \/ pc = "start" /\ pc' = "hop"
    BY <1>9 DEF SkipRequest, BeginHops, TooManyHops, SkipHop, NoResourceFound, LinkLoop,
                NoPdfLink, StopHopping, Answer
  <2>3. QED
    BY <1>1, <2>1, <2>2, FetchUnchanged
<1>10. CASE AcceptDocument \/ RejectDocument \/ ProcessXml \/ Succeed
  <2>1. UNCHANGED <<hops, fetched, crawls, nextUrl, inHack>> /\ ~inHack
    BY <1>1, <1>10 DEF AcceptDocument, RejectDocument, ProcessXml, Succeed, FetchInv, Fetching
  <2>2. pc' \in PC \ {"start", "hop", "lookup", "crawl"}
    BY <1>10 DEF AcceptDocument, RejectDocument, ProcessXml, Succeed, Processing, Answer, PC
  <2>3. QED
    BY <1>1, <2>1, <2>2, FetchUnchanged
<1>11. CASE ProcessGrobid \/ PushThumbnail \/ ProcessPdfextract \/ ProcessHtml
            \/ FetchHtmlResources \/ ProcessingRaises
  <2>1. UNCHANGED <<hops, fetched, crawls, nextUrl, inHack>> /\ ~inHack
    BY <1>1, <1>11 DEF ProcessGrobid, PushThumbnail, ProcessPdfextract, ProcessHtml,
                       FetchHtmlResources, ProcessingRaises, FetchInv, Fetching
  <2>2. pc' \in PC \ {"start", "hop", "lookup", "crawl"}
    BY <1>11 DEF ProcessGrobid, PushThumbnail, ProcessPdfextract, ProcessHtml,
                 FetchHtmlResources, ProcessingRaises, Answer, PC
  <2>3. QED
    BY <1>1, <2>1, <2>2, FetchUnchanged
<1>12. CASE TimeOut
  BY <1>1, <1>12, FetchUnchanged DEF TimeOut
<1>13. CASE TimeOutSwallowed \/ UNCHANGED vars
  BY <1>1, <1>13, FetchUnchanged DEF TimeOutSwallowed, vars
<1>14. QED
  BY <1>1, <1>3, <1>4, <1>5, <1>6, <1>7, <1>8, <1>9, <1>10, <1>11, <1>12, <1>13
     DEF Next, Local, Remote, Alarm

-----------------------------------------------------------------------------
(* The document is the one that was asked for.                             *)

LEMMA InitDocument == Init => DocumentInv
<1>1. SUFFICES ASSUME Init PROVE DocumentInv
  OBVIOUS
<1>2. pc = "start" /\ published = {} /\ resource = NoResource /\ result = NoResult
  BY <1>1 DEF Init
<1>3. ~resource.hit /\ ~result.hit
  BY <1>2 DEF NoResource, NoResult
<1>4. QED
  BY <1>2, <1>3
     DEF DocumentInv, HitIsTheDocument, PublishedIsOfDocument, Holds, Processes

\* Before a document is held nothing is published, and there is no hit.
LEMMA NotYetHeld ==
  ASSUME TypeOK, DocumentInv, ~Stopped(pc), ~Processes,
         UNCHANGED published, result'.hit = result.hit,
         resource'.hit => resource'.terminal # NoUrl,
         pc' \notin {"parse", "document"}, ~Processes'
  PROVE  DocumentInv'
<1>1. published = {} /\ ~result.hit
  BY DEF DocumentInv, Stopped
<1>2. ~Holds'
  BY DEF Holds
<1>3. QED
  BY <1>1, <1>2 DEF DocumentInv, HitIsTheDocument, PublishedIsOfDocument

\* A document that is held and not yet accepted may be refused.
LEMMA DocumentRefused ==
  ASSUME TypeOK, DocumentInv, pc \in {"parse", "document"}, pc' = "answered",
         UNCHANGED <<published, resource>>, result'.hit = result.hit
  PROVE  DocumentInv'
<1>1. published = {} /\ ~result.hit /\ (resource.hit => resource.terminal # NoUrl)
  BY DEF DocumentInv, Stopped, Processes
<1>2. QED
  BY <1>1 DEF DocumentInv, HitIsTheDocument, PublishedIsOfDocument, Holds, Processes

\* A derivative of the accepted document may be published while it is processed.
LEMMA DocumentProcessed ==
  ASSUME TypeOK, DocumentInv, Processes,
         UNCHANGED <<ingestType, hops, resource>>,
         \A d \in published' : d \in published \/ d[2] = Current,
         \/ UNCHANGED result /\ (Processes' \/ pc' = "raised")
         \/ pc' = "answered" /\ ~result'.hit
  PROVE  DocumentInv'
<1>1. /\ ~result.hit /\ Acceptable /\ result.fileMeta = Current
      /\ resource.hit /\ ~TerminalBlocked /\ resource.body \notin BadBody
      /\ result.terminal = resource.terminal /\ Seen(resource.terminal)
      /\ resource.terminal # NoUrl
  BY DEF DocumentInv, Holds, Processes
<1>2. ~Blocked(Current.url) /\ Current.mimetype \in AcceptedMimetypes(ingestType)
  BY <1>1 DEF Current, Blocked, TerminalBlocked, Acceptable, NotWalled
<1>3. /\ UNCHANGED Current /\ UNCHANGED Acceptable /\ UNCHANGED TerminalBlocked
      /\ Seen(resource.terminal)'
  BY <1>1 DEF Current, Acceptable, TerminalBlocked, Seen, NotWalled
<1>4. PublishedIsOfDocument'
  <2>1. SUFFICES ASSUME NEW d \in published'
                 PROVE  /\ d[2] = Current /\ ~Blocked(d[2].url)
                        /\ d[2].mimetype \in AcceptedMimetypes(ingestType)
    BY <1>3 DEF PublishedIsOfDocument, Blocked, AcceptedMimetypes, Current
  <2>2. d[2] = Current
    BY DEF DocumentInv, PublishedIsOfDocument
  <2>3. QED
    BY <1>2, <2>2
<1>5. HitIsTheDocument'
  BY <1>1 DEF HitIsTheDocument, Processes
<1>6. Processes' \/ Stopped(pc)'
  BY DEF Stopped
<1>7. ~result'.hit
  BY <1>1
<1>8. (resource.hit => resource.terminal # NoUrl)'
  BY <1>1
<1>9. Holds' => Processes' /\ UNCHANGED result
  BY DEF Holds, Processes
<1>10. Acceptable' /\ ~TerminalBlocked' /\ resource' = resource /\ Current' = Current
  BY <1>1, <1>3
<1>11. (Processes => Acceptable /\ result.fileMeta = Current)'
  <2>1. Processes' => UNCHANGED result
    BY DEF Processes
  <2>2. QED
    BY <1>1, <1>10, <2>1
<1>12. (Holds => /\ resource.hit /\ ~TerminalBlocked /\ resource.body \notin BadBody
                 /\ result.terminal = resource.terminal /\ Seen(resource.terminal))'
  BY <1>1, <1>3, <1>9, <1>10
<1>13. (published # {} => Processes \/ Stopped(pc))' /\ (result.hit => pc = "answered")'
  BY <1>6, <1>7
<1>14. QED
  BY <1>4, <1>5, <1>8, <1>11, <1>12, <1>13 DEF DocumentInv

LEMMA DocumentStep == TypeOK /\ HopsInv /\ FetchInv /\ DocumentInv /\ [Next]_vars => DocumentInv'
<1>1. SUFFICES ASSUME TypeOK, HopsInv, FetchInv, DocumentInv, [Next]_vars
               PROVE  DocumentInv'
  OBVIOUS
<1> USE DEF linkVars, fetchVars, historyVars, requestVars
<1>2. CASE SkipRequest \/ BeginHops \/ TooManyHops \/ SkipHop
  <2>1. /\ pc \in {"start", "hop"} /\ pc' \in {"answered", "hop"}
        /\ UNCHANGED <<published, resource>> /\ result'.hit = result.hit
    BY <1>1, <1>2 DEF SkipRequest, BeginHops, TooManyHops, SkipHop, Answer, TypeOK
  <2>2. QED
    BY <1>1, <2>1, NotYetHeld DEF Stopped, Processes, DocumentInv
<1>3. CASE FetchHop \/ HackFails \/ TimeOutInHack
  <2>1. /\ pc \in {"hop", "lookup", "crawl"} /\ pc' \in {"lookup", "crawl", "fetched"}
        /\ UNCHANGED <<published, result>> /\ resource' = NoResource
    BY <1>3, FindResourceType DEF FetchHop, HackFails, TimeOutInHack, CrawlAttempt
  <2>2. ~resource'.hit
    BY <2>1 DEF NoResource
  <2>3. QED
    BY <1>1, <2>1, <2>2, NotYetHeld DEF Stopped, Processes
<1>4. CASE LookupResource \/ CrawlResource
  <2>1. /\ pc \in {"lookup", "crawl"} /\ pc' \in {"crawl", "fetched"}
        /\ UNCHANGED <<published, result>>
    BY <1>4, FindResourceType DEF LookupResource, CrawlResource
  <2>2. resource' \in WaybackResults \cup CrawlResults
    BY <1>4 DEF LookupResource, CrawlResource
  <2>3. \A r \in WaybackResults \cup CrawlResults : r.hit => r.terminal # NoUrl
    BY DEF WaybackResults, CrawlResults
  <2>4. QED
    BY <1>1, <2>1, <2>2, <2>3, NotYetHeld DEF Stopped, Processes
<1>5. CASE FetchFails \/ FetchRaises \/ NoResourceFound
  <2>1. /\ pc \in {"lookup", "crawl", "fetched"} /\ pc' \in {"answered", "raised"}
        /\ UNCHANGED <<published, resource>> /\ result'.hit = result.hit
    BY <1>1, <1>5 DEF FetchFails, FetchRaises, NoResourceFound, CrawlAttempt, Answer, TypeOK
  <2>2. QED
    BY <1>1, <2>1, NotYetHeld DEF Stopped, Processes, DocumentInv
<1>6. CASE RejectResource
  <2>1. /\ pc = "fetched" /\ pc' = "answered"
        /\ UNCHANGED <<published, resource>> /\ result'.hit = result.hit
    BY <1>1, <1>6 DEF RejectResource, TypeOK
  <2>2. QED
    BY <1>1, <2>1, NotYetHeld DEF Stopped, Processes, DocumentInv
<1>7. CASE TakeResource
  <2>1. /\ pc = "fetched" /\ pc' = "parse" /\ UNCHANGED <<published, resource>>
        /\ resource.hit /\ ~TerminalBlocked /\ resource.body \notin BadBody
        /\ hops' = HopsWith(resource.terminal)
        /\ result' = [result EXCEPT !.terminal = Terminal(resource)]
    BY <1>7 DEF TakeResource
  <2>2. resource.terminal \in Urls /\ resource.terminal # NoUrl
    BY <1>1, <2>1 DEF TypeOK, Resource, DocumentInv
  <2>3. result'.terminal = resource.terminal /\ result'.hit = result.hit
    BY <1>1, <2>1, <2>2 DEF Terminal, TypeOK
  <2>4. \E i \in DOMAIN hops' : hops'[i] = resource.terminal
    BY <1>1, <2>1, <2>2, HopsWithFacts DEF TypeOK
  <2>5. published = {} /\ ~result.hit
    BY <1>1, <2>1 DEF DocumentInv, Processes, Stopped
  <2>6. QED
    BY <2>1, <2>2, <2>3, <2>4, <2>5
       DEF DocumentInv, HitIsTheDocument, PublishedIsOfDocument, Holds, Processes, Seen,
           TerminalBlocked
<1>8. CASE FollowLink
  <2>1. pc = "parse" /\ pc' = "hop" /\ UNCHANGED <<published, resource, result>>
    BY <1>8 DEF FollowLink
  <2>2. QED
    BY <1>1, <2>1, NotYetHeld DEF Stopped, Processes, DocumentInv
<1>9. CASE LinkLoop \/ NoPdfLink \/ RejectDocument
  <2>1. /\ pc \in {"parse", "document"} /\ pc' = "answered"
        /\ UNCHANGED <<published, resource>> /\ result'.hit = result.hit
    BY <1>1, <1>9 DEF LinkLoop, NoPdfLink, RejectDocument, Answer, TypeOK
  <2>2. QED
    BY <1>1, <2>1, DocumentRefused
<1>10. CASE StopHopping
  <2>1. CASE Len(hops) >= MaxHops
    <3>1. /\ pc = "parse" /\ pc' = "answered" /\ UNCHANGED <<published, resource>>
          /\ result'.hit = result.hit
      BY <1>1, <1>10, <2>1 DEF StopHopping, Answer, TypeOK
    <3>2. QED
      BY <1>1, <3>1, DocumentRefused
  <2>2. CASE ~(Len(hops) >= MaxHops)
    <3>1. /\ pc = "parse" /\ pc' = "document"
          /\ UNCHANGED <<published, resource, result, hops, ingestType>>
      BY <1>10, <2>2 DEF StopHopping
    <3>2. published = {} /\ ~result.hit
      BY <1>1, <3>1 DEF DocumentInv, Processes, Stopped
    <3>3. QED
      BY <1>1, <3>1, <3>2
         DEF DocumentInv, HitIsTheDocument, PublishedIsOfDocument, Holds, Processes, Seen,
             TerminalBlocked
  <2>3. QED
    BY <2>1, <2>2
<1>11. CASE AcceptDocument
  <2>1. /\ pc = "document" /\ Acceptable /\ pc' = Processing
        /\ result' = [result EXCEPT !.fileMeta = Current]
        /\ UNCHANGED <<published, resource, hops, ingestType>>
    BY <1>11 DEF AcceptDocument
  <2>2. result'.fileMeta = Current /\ result'.hit = result.hit
        /\ result'.terminal = result.terminal
    BY <1>1, <2>1 DEF TypeOK
  <2>3. published = {} /\ ~result.hit
    BY <1>1, <2>1 DEF DocumentInv, Processes, Stopped
  <2>4. Current' = Current /\ Acceptable' /\ (TerminalBlocked' <=> TerminalBlocked)
    BY <2>1 DEF Current, Acceptable, NotWalled, TerminalBlocked, AcceptedMimetypes
  <2>5. \A url : Seen(url)' <=> Seen(url)
    BY <2>1 DEF Seen
  <2>6. QED
    BY <1>1, <2>1, <2>2, <2>3, <2>4, <2>5
       DEF DocumentInv, HitIsTheDocument, PublishedIsOfDocument, Holds, Processes
<1>12. CASE ProcessGrobid \/ PushThumbnail \/ ProcessPdfextract \/ ProcessXml \/ ProcessHtml
            \/ FetchHtmlResources \/ ProcessingRaises
  <2>1. Processes /\ UNCHANGED <<ingestType, hops, resource>>
    BY <1>12 DEF ProcessGrobid, PushThumbnail, ProcessPdfextract, ProcessXml, ProcessHtml,
                 FetchHtmlResources, ProcessingRaises, Processes
  <2>2. \A d \in published' : d \in published \/ d[2] = Current
    BY <1>12 DEF ProcessGrobid, PushThumbnail, ProcessPdfextract, ProcessXml, ProcessHtml,
                 FetchHtmlResources, ProcessingRaises, Publish
  <2>3. ~result.hit
    BY <1>1, <2>1 DEF DocumentInv, Processes
  <2>4. \A status : Answer(status) => pc' = "answered" /\ ~result'.hit
    BY <1>1, <2>3 DEF Answer, TypeOK
  <2>5. \/ UNCHANGED result /\ (Processes' \/ pc' = "raised")
        \/ pc' = "answered" /\ ~result'.hit
    BY <1>12, <2>4 DEF ProcessGrobid, PushThumbnail, ProcessPdfextract, ProcessXml, ProcessHtml,
                       FetchHtmlResources, ProcessingRaises, Processes
  <2>6. QED
    BY <1>1, <2>1, <2>2, <2>5, DocumentProcessed
<1>13. CASE Succeed
  <2>1. /\ pc = "succeed" /\ pc' = "answered"
        /\ UNCHANGED <<published, resource, hops, ingestType>>
        /\ result' = [result EXCEPT !.status = "success", !.hit = TRUE]
    BY <1>13 DEF Succeed
  <2>2. /\ result'.status = "success" /\ result'.fileMeta = result.fileMeta
        /\ result'.terminal = result.terminal
    BY <1>1, <2>1 DEF TypeOK
  <2>3. /\ Acceptable /\ result.fileMeta = Current /\ ~TerminalBlocked
        /\ result.terminal = resource.terminal /\ Seen(resource.terminal)
        /\ resource.terminal # NoUrl
    BY <1>1, <2>1 DEF DocumentInv, Processes, Holds
  <2>4. Current' = Current /\ Current.url = resource.terminal
        /\ Current.mimetype = resource.body
    BY <2>1 DEF Current
  <2>5. ~Blocked(resource.terminal) /\ resource.body \in AcceptedMimetypes(ingestType)
    BY <2>3 DEF Acceptable, NotWalled, TerminalBlocked, Blocked
  <2>6. HitIsTheDocument'
    BY <2>1, <2>2, <2>3, <2>4, <2>5 DEF HitIsTheDocument, Seen, Blocked, AcceptedMimetypes
  <2>7. PublishedIsOfDocument'
    BY <1>1, <2>1, <2>4 DEF DocumentInv, PublishedIsOfDocument, Blocked, AcceptedMimetypes
  <2>8. QED
    BY <2>1, <2>3, <2>6, <2>7 DEF DocumentInv, Holds, Processes, Stopped
<1>14. CASE TimeOut
  <2>1. /\ pc' = "answered" /\ UNCHANGED <<published, resource, ingestType>>
        /\ result' = [NoResult EXCEPT !.status = "timeout"]
    BY <1>14 DEF TimeOut
  <2>2. ~result'.hit
    BY <2>1 DEF NoResult
  <2>3. PublishedIsOfDocument'
    BY <1>1, <2>1 DEF DocumentInv, PublishedIsOfDocument, Blocked, AcceptedMimetypes, Current
  <2>4. QED
    BY <1>1, <2>1, <2>2, <2>3
       DEF DocumentInv, HitIsTheDocument, Holds, Processes, Stopped
<1>15. CASE TimeOutSwallowed \/ UNCHANGED vars
  <2>1. UNCHANGED <<pc, hops, resource, result, published, ingestType>>
    BY <1>15 DEF TimeOutSwallowed, vars
  <2>2. QED
    BY <1>1, <2>1
       DEF DocumentInv, HitIsTheDocument, PublishedIsOfDocument, Holds, Processes, Stopped,
           Acceptable, NotWalled, TerminalBlocked, Blocked, Current, Seen, AcceptedMimetypes
<1>16. QED
  BY <1>1, <1>2, <1>3, <1>4, <1>5, <1>6, <1>7, <1>8, <1>9, <1>10, <1>11, <1>12, <1>13, <1>14,
     <1>15 DEF Next, Local, Remote, Alarm

-----------------------------------------------------------------------------
(* find_resource comes back with something.                                *)

\* Without anything to try, and only then, find_resource ends with nothing.
LEMMA NothingToTry ==
  FindResource = "fetched" => ~trySpn2 /\ (forceRecrawl \/ ~TryWayback)
BY DEF FindResource, AfterLookup, NeedsCrawl

LEMMA ResourceStep == ResourceFound /\ [Next]_vars => ResourceFound'
<1>1. SUFFICES ASSUME ResourceFound, [Next]_vars, pc' = "fetched", resource' = NoResource
               PROVE  (~trySpn2 /\ (forceRecrawl \/ ~TryWayback))'
  BY DEF ResourceFound
<1>2. UNCHANGED <<trySpn2, forceRecrawl>>
  BY <1>1
     DEF Next, Local, Remote, Alarm, vars, requestVars, SkipRequest, BeginHops, TooManyHops,
         SkipHop, FetchHop, NoResourceFound, RejectResource, TakeResource, FollowLink, LinkLoop,
         NoPdfLink, StopHopping, AcceptDocument, RejectDocument, ProcessXml, Succeed,
         LookupResource, CrawlResource, FetchFails, FetchRaises, HackFails, ProcessGrobid,
         PushThumbnail,
         ProcessPdfextract, ProcessHtml, FetchHtmlResources, ProcessingRaises, TimeOut,
         TimeOutInHack, TimeOutSwallowed
<1>3. CASE FetchHop \/ HackFails \/ TimeOutInHack
  <2>1. FindResource = "fetched"
    BY <1>1, <1>3 DEF FetchHop, HackFails, TimeOutInHack
  <2>2. QED
    BY <1>2, <2>1, NothingToTry
<1>4. CASE LookupResource \/ CrawlResource
  <2>1. resource' \in WaybackResults \cup CrawlResults
    BY <1>4 DEF LookupResource, CrawlResource
  <2>2. NoResource \notin WaybackResults \cup CrawlResults
    BY DEF NoResource, WaybackResults, CrawlResults
  <2>3. QED
    BY <1>1, <2>1, <2>2
<1>5. CASE SkipRequest \/ BeginHops \/ TooManyHops \/ SkipHop \/ NoResourceFound
           \/ RejectResource \/ TakeResource \/ FollowLink \/ LinkLoop \/ NoPdfLink
           \/ StopHopping \/ AcceptDocument \/ RejectDocument \/ ProcessXml \/ Succeed
  BY <1>1, <1>5
     DEF SkipRequest, BeginHops, TooManyHops, SkipHop, NoResourceFound, RejectResource,
         TakeResource, FollowLink, LinkLoop, NoPdfLink, StopHopping, AcceptDocument,
         RejectDocument, ProcessXml, Succeed, Answer, Processing
<1>6. CASE FetchFails \/ FetchRaises \/ ProcessGrobid \/ PushThumbnail \/ ProcessPdfextract \/ ProcessHtml
           \/ FetchHtmlResources \/ ProcessingRaises
  BY <1>1, <1>6
     DEF FetchFails, FetchRaises, ProcessGrobid, PushThumbnail, ProcessPdfextract, ProcessHtml,
         FetchHtmlResources, ProcessingRaises, Answer
<1>7. CASE TimeOut \/ TimeOutSwallowed
  BY <1>1, <1>7 DEF TimeOut, TimeOutSwallowed
<1>8. CASE UNCHANGED vars
  BY <1>1, <1>8 DEF vars, requestVars, ResourceFound
<1>9. QED
  BY <1>1, <1>3, <1>4, <1>5, <1>6, <1>7, <1>8 DEF Next, Local, Remote, Alarm

-----------------------------------------------------------------------------
\* The strengthening is inductive.
THEOREM IngestInductive == Spec => []IInv
<1>1. Init => IInv
  BY InitTypeOK, InitHops, InitFetch, InitDocument DEF IInv, Init, ResourceFound
<1>2. IInv /\ [Next]_vars => IInv'
  BY TypeStep, HopsStep, FetchStep, DocumentStep, ResourceStep DEF IInv
<1>3. QED
  BY <1>1, <1>2, PTL DEF Spec

\* One request costs a bounded number of fetches and crawls, whatever the pages link to.
THEOREM FetchesAreBounded == Spec => []FetchBudget
<1>1. IInv => FetchBudget
  BY DEF IInv, FetchInv
<1>2. QED
  BY <1>1, IngestInductive, PTL

\* The list of hops is bounded and repeats nothing.
THEOREM HopsAreDistinct == Spec => []HopsDistinct
<1>1. IInv => HopsDistinct
  BY DEF IInv, HopsInv
<1>2. QED
  BY <1>1, IngestInductive, PTL

\* A hit is the document of the last capture, of an accepted type, and not blocked.
THEOREM HitsAreDocuments == Spec => []HitIsTheDocument
<1>1. IInv => HitIsTheDocument
  BY DEF IInv, DocumentInv
<1>2. QED
  BY <1>1, IngestInductive, PTL

\* Only derivatives of that document are published.
THEOREM DerivativesAreOfDocuments == Spec => []PublishedIsOfDocument
<1>1. IInv => PublishedIsOfDocument
  BY DEF IInv, DocumentInv
<1>2. QED
  BY <1>1, IngestInductive, PTL

\* find_resource has a result unless there was nothing it might try.
THEOREM ResourcesAreFound == Spec => []ResourceFound
<1>1. IInv => ResourceFound
  BY DEF IInv
<1>2. QED
  BY <1>1, IngestInductive, PTL
=============================================================================
